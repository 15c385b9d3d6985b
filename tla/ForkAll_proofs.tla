--------------------------- MODULE ForkAll_proofs ---------------------------
(***************************************************************************)
(* Proofs about forkn() and waitall(): with them in the table too, kernel  *)
(* stacks are not shared, the statuses that waitall() collects fit in its  *)
(* array, zombies are freed by their parents, and the process tree keeps   *)
(* its promises.                                                           *)
(***************************************************************************)
EXTENDS ForkAll, Proc_proofs, FiniteSetTheorems

Collecting == {"wa_lock", "wa_scan", "wa_free"}
Extra == Collecting \union {"fn_alloc", "fn_parent", "fn_run", "fn_kill"}

\* forkn() keeps np->lock from allocproc() until the child may run.
Locked == \A s \in Slots : pc[s] \in {"fn_parent", "fn_run"} => plock[np[s]] = s

\* The zombie that waitall() is about to free, without its lock, is still a
\* zombie and still its child, and has left its kernel stack.
Doomed ==
  \A s \in Slots :
     /\ pc[s] = "wa_scan" => idx[s] # 0
     /\ pc[s] = "wa_free" =>
          /\ idx[s] \in Slots /\ state[idx[s]] = "ZOMBIE" /\ parent[idx[s]] = s
          /\ \A c \in CPUs : cpu[c] # idx[s]

\* A slot without a running process is in no call; init makes none of these.
Idle ==
  /\ \A t \in Slots : state[t] \in {"UNUSED", "USED", "ZOMBIE"} => pc[t] = "user"
  /\ pc[initproc] \notin Extra

\* Nobody is a parent of itself, and init has none.
Apart == parent[initproc] = 0 /\ \A t \in Slots : parent[t] # t

OwnTypes == count \in [Slots -> Nat] /\ found \in [Slots -> BOOLEAN]

\* Statuses collected, children left, the caller and init are different slots;
\* at wa_free one child has been counted and is still there.
Spare(s) == IF pc[s] = "wa_free" THEN 1 ELSE 2

Counted ==
  \A s \in Slots :
     IF pc[s] \in Collecting
     THEN count[s] + Cardinality(Children(s)) + Spare(s) <= NPROC
     ELSE count[s] = 0

Aux == Locked /\ Doomed /\ Idle /\ Apart
AllInv == RefInv /\ Aux /\ OwnTypes /\ Counted

-----------------------------------------------------------------------------
(* The steps of Proc keep what the new calls rely on. *)

LEMMA ExtraFacts ==
  /\ \A l \in {"user", "exit_lock", "wait_lock", "kill_mark", "fork_parent", "fork_run",
                "reparent", "wake_init", "wake_parent", "zombie", "wait_scan",
                "wait_sleep"} : l \notin Extra
  /\ {"wa_lock", "wa_scan", "wa_free"} \subseteq Extra
  /\ {"fn_alloc", "fn_parent", "fn_run", "fn_kill"} \subseteq Extra
  /\ "fn_parent" \in Adopting /\ "fn_run" \in Starting
  /\ {"wa_scan", "wa_free"} \subseteq Holding
  /\ \A l \in {"fn_alloc", "fn_parent", "fn_run", "fn_kill", "wa_lock"} : l \notin Holding
  /\ \A l \in {"fn_alloc", "fn_kill", "wa_lock", "wa_scan", "wa_free"} : l \notin Forking
  /\ Extra \subseteq AllLabels
BY DEF Extra, Collecting, Adopting, Starting, Holding, Forking, Exiting, Waiting, AllLabels

LEMMA AuxStep ==
  ASSUME RefInv, Aux, Next
  PROVE  Aux'
<1> USE SlotFacts, LabelFacts, ExitingFacts, ExtraFacts DEF At, Running, Goto, table, locks, thread
<1>0. /\ Types /\ Loops /\ Stacks /\ Embryos /\ Victims /\ WaitLocked /\ Kinship
      /\ Locked /\ Doomed /\ Idle /\ Apart /\ NextKidIs /\ ChildIs
  BY NextKidFacts, ChildFacts DEF RefInv, Base, Aux
<1>1. ASSUME NEW c \in CPUs, SwitchOut(c)
      PROVE  Aux'
  <2> USE <1>1 DEF SwitchOut
  <2>1. Locked'
    BY <1>0 DEF Locked, Types, Stacks, Embryos, Victims
  <2>2. Doomed'
    BY <1>0 DEF Doomed, Types, Loops, Stacks, Embryos, WaitLocked, NextKidIs
  <2>3. Idle' /\ Apart'
    BY <1>0 DEF Idle, Apart, Types, Loops, Embryos, WaitLocked, Kinship, Alive, NextKidIs, ChildIs
  <2> QED
    BY <2>1, <2>2, <2>3 DEF Aux
<1>2. ASSUME NEW c \in CPUs, NEW s \in Slots, Dispatch(c, s)
      PROVE  Aux'
  <2> USE <1>2 DEF Dispatch
  <2>1. Locked'
    BY <1>0 DEF Locked, Types, Stacks, Embryos, Victims
  <2>2. Doomed'
    BY <1>0 DEF Doomed, Types, Loops, Stacks, Embryos, WaitLocked, NextKidIs
  <2>3. Idle' /\ Apart'
    BY <1>0 DEF Idle, Apart, Types, Loops, Embryos, WaitLocked, Kinship, Alive, NextKidIs, ChildIs
  <2> QED
    BY <2>1, <2>2, <2>3 DEF Aux
<1>3. ASSUME NEW s \in Slots, NEW t \in Slots, Fork(s, t)
      PROVE  Aux'
  <2> USE <1>3 DEF Fork, Syscall
  <2>1. Locked'
    BY <1>0 DEF Locked, Types, Stacks, Embryos, Victims
  <2>2. Doomed'
    BY <1>0 DEF Doomed, Types, Loops, Stacks, Embryos, WaitLocked, NextKidIs
  <2>3. Idle' /\ Apart'
    BY <1>0 DEF Idle, Apart, Types, Loops, Embryos, WaitLocked, Kinship, Alive, NextKidIs, ChildIs
  <2> QED
    BY <2>1, <2>2, <2>3 DEF Aux
<1>4. ASSUME NEW s \in Slots, NEW t \in Slots, ForkFails(s, t)
      PROVE  Aux'
  <2> USE <1>4 DEF ForkFails, Syscall, freeproc
  <2>1. Locked'
    BY <1>0 DEF Locked, Types, Stacks, Embryos, Victims
  <2>2. Doomed'
    BY <1>0 DEF Doomed, Types, Loops, Stacks, Embryos, WaitLocked, NextKidIs
  <2>3. Idle' /\ Apart'
    BY <1>0 DEF Idle, Apart, Types, Loops, Embryos, WaitLocked, Kinship, Alive, NextKidIs, ChildIs
  <2> QED
    BY <2>1, <2>2, <2>3 DEF Aux
<1>5. ASSUME NEW s \in Slots, NEW t \in Slots, KillFind(s, t)
      PROVE  Aux'
  <2> USE <1>5 DEF KillFind, Syscall
  <2>1. Locked'
    BY <1>0 DEF Locked, Types, Stacks, Embryos, Victims
  <2>2. Doomed'
    BY <1>0 DEF Doomed, Types, Loops, Stacks, Embryos, WaitLocked, NextKidIs
  <2>3. Idle' /\ Apart'
    BY <1>0 DEF Idle, Apart, Types, Loops, Embryos, WaitLocked, Kinship, Alive, NextKidIs, ChildIs
  <2> QED
    BY <2>1, <2>2, <2>3 DEF Aux
<1>6. ASSUME NEW s \in Slots, Yield(s)
      PROVE  Aux'
  <2> USE <1>6 DEF Yield, Preempt
  <2>1. Locked'
    BY <1>0 DEF Locked, Types, Stacks, Embryos, Victims
  <2>2. Doomed'
    BY <1>0 DEF Doomed, Types, Loops, Stacks, Embryos, WaitLocked, NextKidIs
  <2>3. Idle' /\ Apart'
    BY <1>0 DEF Idle, Apart, Types, Loops, Embryos, WaitLocked, Kinship, Alive, NextKidIs, ChildIs
  <2> QED
    BY <2>1, <2>2, <2>3 DEF Aux
<1>7. ASSUME NEW s \in Slots, Exit(s)
      PROVE  Aux'
  <2> USE <1>7 DEF Exit
  <2>1. Locked'
    BY <1>0 DEF Locked, Types, Stacks, Embryos, Victims
  <2>2. Doomed'
    BY <1>0 DEF Doomed, Types, Loops, Stacks, Embryos, WaitLocked, NextKidIs
  <2>3. Idle' /\ Apart'
    BY <1>0 DEF Idle, Apart, Types, Loops, Embryos, WaitLocked, Kinship, Alive, NextKidIs, ChildIs
  <2> QED
    BY <2>1, <2>2, <2>3 DEF Aux
<1>8. ASSUME NEW s \in Slots, NEW status \in Statuses, ExitNum(s, status)
      PROVE  Aux'
  <2> USE <1>8 DEF ExitNum, Syscall
  <2>1. Locked'
    BY <1>0 DEF Locked, Types, Stacks, Embryos, Victims
  <2>2. Doomed'
    BY <1>0 DEF Doomed, Types, Loops, Stacks, Embryos, WaitLocked, NextKidIs
  <2>3. Idle' /\ Apart'
    BY <1>0 DEF Idle, Apart, Types, Loops, Embryos, WaitLocked, Kinship, Alive, NextKidIs, ChildIs
  <2> QED
    BY <2>1, <2>2, <2>3 DEF Aux
<1>9. ASSUME NEW s \in Slots, WaitCall(s)
      PROVE  Aux'
  <2> USE <1>9 DEF WaitCall, Syscall
  <2>1. Locked'
    BY <1>0 DEF Locked, Types, Stacks, Embryos, Victims
  <2>2. Doomed'
    BY <1>0 DEF Doomed, Types, Loops, Stacks, Embryos, WaitLocked, NextKidIs
  <2>3. Idle' /\ Apart'
    BY <1>0 DEF Idle, Apart, Types, Loops, Embryos, WaitLocked, Kinship, Alive, NextKidIs, ChildIs
  <2> QED
    BY <2>1, <2>2, <2>3 DEF Aux
<1>10. ASSUME NEW s \in Slots, WaitFault(s)
      PROVE  Aux'
  <2> USE <1>10 DEF WaitFault, Return
  <2>1. Locked'
    BY <1>0 DEF Locked, Types, Stacks, Embryos, Victims
  <2>2. Doomed'
    BY <1>0 DEF Doomed, Types, Loops, Stacks, Embryos, WaitLocked, NextKidIs
  <2>3. Idle' /\ Apart'
    BY <1>0 DEF Idle, Apart, Types, Loops, Embryos, WaitLocked, Kinship, Alive, NextKidIs, ChildIs
  <2> QED
    BY <2>1, <2>2, <2>3 DEF Aux
<1>11. ASSUME NEW s \in Slots, ForkParent(s)
      PROVE  Aux'
  <2> USE <1>11 DEF ForkParent
  <2>1. Locked'
    BY <1>0 DEF Locked, Types, Stacks, Embryos, Victims
  <2>2. Doomed'
    BY <1>0 DEF Doomed, Types, Loops, Stacks, Embryos, WaitLocked, NextKidIs
  <2>3. Idle' /\ Apart'
    BY <1>0 DEF Idle, Apart, Types, Loops, Embryos, WaitLocked, Kinship, Alive, NextKidIs, ChildIs
  <2> QED
    BY <2>1, <2>2, <2>3 DEF Aux
<1>12. ASSUME NEW s \in Slots, ForkRun(s)
      PROVE  Aux'
  <2> USE <1>12 DEF ForkRun
  <2>1. Locked'
    BY <1>0 DEF Locked, Types, Stacks, Embryos, Victims
  <2>2. Doomed'
    BY <1>0 DEF Doomed, Types, Loops, Stacks, Embryos, WaitLocked, NextKidIs
  <2>3. Idle' /\ Apart'
    BY <1>0 DEF Idle, Apart, Types, Loops, Embryos, WaitLocked, Kinship, Alive, NextKidIs, ChildIs
  <2> QED
    BY <2>1, <2>2, <2>3 DEF Aux
<1>13. ASSUME NEW s \in Slots, ExitLock(s)
      PROVE  Aux'
  <2> USE <1>13 DEF ExitLock
  <2>1. Locked'
    BY <1>0 DEF Locked, Types, Stacks, Embryos, Victims
  <2>2. Doomed'
    BY <1>0 DEF Doomed, Types, Loops, Stacks, Embryos, WaitLocked, NextKidIs
  <2>3. Idle' /\ Apart'
    BY <1>0 DEF Idle, Apart, Types, Loops, Embryos, WaitLocked, Kinship, Alive, NextKidIs, ChildIs
  <2> QED
    BY <2>1, <2>2, <2>3 DEF Aux
<1>14. ASSUME NEW s \in Slots, Reparent(s)
      PROVE  Aux'
  <2> USE <1>14 DEF Reparent
  <2>1. Locked'
    BY <1>0 DEF Locked, Types, Stacks, Embryos, Victims
  <2>2. Doomed'
    BY <1>0 DEF Doomed, Types, Loops, Stacks, Embryos, WaitLocked, NextKidIs
  <2>3. Idle' /\ Apart'
    BY <1>0 DEF Idle, Apart, Types, Loops, Embryos, WaitLocked, Kinship, Alive, NextKidIs, ChildIs
  <2> QED
    BY <2>1, <2>2, <2>3 DEF Aux
<1>15. ASSUME NEW s \in Slots, WakeInit(s)
      PROVE  Aux'
  <2> USE <1>15 DEF WakeInit, Wakeup
  <2>1. Locked'
    BY <1>0 DEF Locked, Types, Stacks, Embryos, Victims
  <2>2. Doomed'
    BY <1>0 DEF Doomed, Types, Loops, Stacks, Embryos, WaitLocked, NextKidIs
  <2>3. Idle' /\ Apart'
    BY <1>0 DEF Idle, Apart, Types, Loops, Embryos, WaitLocked, Kinship, Alive, NextKidIs, ChildIs
  <2> QED
    BY <2>1, <2>2, <2>3 DEF Aux
<1>16. ASSUME NEW s \in Slots, WakeParent(s)
      PROVE  Aux'
  <2> USE <1>16 DEF WakeParent, Wakeup
  <2>1. Locked'
    BY <1>0 DEF Locked, Types, Stacks, Embryos, Victims
  <2>2. Doomed'
    BY <1>0 DEF Doomed, Types, Loops, Stacks, Embryos, WaitLocked, NextKidIs
  <2>3. Idle' /\ Apart'
    BY <1>0 DEF Idle, Apart, Types, Loops, Embryos, WaitLocked, Kinship, Alive, NextKidIs, ChildIs
  <2> QED
    BY <2>1, <2>2, <2>3 DEF Aux
<1>17. ASSUME NEW s \in Slots, ExitZombie(s)
      PROVE  Aux'
  <2> USE <1>17 DEF ExitZombie
  <2>1. Locked'
    BY <1>0 DEF Locked, Types, Stacks, Embryos, Victims
  <2>2. Doomed'
    BY <1>0 DEF Doomed, Types, Loops, Stacks, Embryos, WaitLocked, NextKidIs
  <2>3. Idle' /\ Apart'
    BY <1>0 DEF Idle, Apart, Types, Loops, Embryos, WaitLocked, Kinship, Alive, NextKidIs, ChildIs
  <2> QED
    BY <2>1, <2>2, <2>3 DEF Aux
<1>18. ASSUME NEW s \in Slots, WaitLock(s)
      PROVE  Aux'
  <2> USE <1>18 DEF WaitLock
  <2>1. Locked'
    BY <1>0 DEF Locked, Types, Stacks, Embryos, Victims
  <2>2. Doomed'
    BY <1>0 DEF Doomed, Types, Loops, Stacks, Embryos, WaitLocked, NextKidIs
  <2>3. Idle' /\ Apart'
    BY <1>0 DEF Idle, Apart, Types, Loops, Embryos, WaitLocked, Kinship, Alive, NextKidIs, ChildIs
  <2> QED
    BY <2>1, <2>2, <2>3 DEF Aux
<1>19. ASSUME NEW s \in Slots, WaitReap(s)
      PROVE  Aux'
  <2> USE <1>19 DEF WaitReap, Return, freeproc
  <2>1. Locked'
    BY <1>0 DEF Locked, Types, Stacks, Embryos, Victims
  <2>2. Doomed'
    BY <1>0 DEF Doomed, Types, Loops, Stacks, Embryos, WaitLocked, NextKidIs
  <2>3. Idle' /\ Apart'
    BY <1>0 DEF Idle, Apart, Types, Loops, Embryos, WaitLocked, Kinship, Alive, NextKidIs, ChildIs
  <2> QED
    BY <2>1, <2>2, <2>3 DEF Aux
<1>20. ASSUME NEW s \in Slots, WaitSkip(s)
      PROVE  Aux'
  <2> USE <1>20 DEF WaitSkip
  <2>1. Locked'
    BY <1>0 DEF Locked, Types, Stacks, Embryos, Victims
  <2>2. Doomed'
    BY <1>0 DEF Doomed, Types, Loops, Stacks, Embryos, WaitLocked, NextKidIs
  <2>3. Idle' /\ Apart'
    BY <1>0 DEF Idle, Apart, Types, Loops, Embryos, WaitLocked, Kinship, Alive, NextKidIs, ChildIs
  <2> QED
    BY <2>1, <2>2, <2>3 DEF Aux
<1>21. ASSUME NEW s \in Slots, WaitEnd(s)
      PROVE  Aux'
  <2> USE <1>21 DEF WaitEnd, Return
  <2>1. Locked'
    BY <1>0 DEF Locked, Types, Stacks, Embryos, Victims
  <2>2. Doomed'
    BY <1>0 DEF Doomed, Types, Loops, Stacks, Embryos, WaitLocked, NextKidIs
  <2>3. Idle' /\ Apart'
    BY <1>0 DEF Idle, Apart, Types, Loops, Embryos, WaitLocked, Kinship, Alive, NextKidIs, ChildIs
  <2> QED
    BY <2>1, <2>2, <2>3 DEF Aux
<1>22. ASSUME NEW s \in Slots, WaitSleep(s)
      PROVE  Aux'
  <2> USE <1>22 DEF WaitSleep
  <2>1. Locked'
    BY <1>0 DEF Locked, Types, Stacks, Embryos, Victims
  <2>2. Doomed'
    BY <1>0 DEF Doomed, Types, Loops, Stacks, Embryos, WaitLocked, NextKidIs
  <2>3. Idle' /\ Apart'
    BY <1>0 DEF Idle, Apart, Types, Loops, Embryos, WaitLocked, Kinship, Alive, NextKidIs, ChildIs
  <2> QED
    BY <2>1, <2>2, <2>3 DEF Aux
<1>23. ASSUME NEW s \in Slots, KillMark(s)
      PROVE  Aux'
  <2> USE <1>23 DEF KillMark
  <2>1. Locked'
    BY <1>0 DEF Locked, Types, Stacks, Embryos, Victims
  <2>2. Doomed'
    BY <1>0 DEF Doomed, Types, Loops, Stacks, Embryos, WaitLocked, NextKidIs
  <2>3. Idle' /\ Apart'
    BY <1>0 DEF Idle, Apart, Types, Loops, Embryos, WaitLocked, Kinship, Alive, NextKidIs, ChildIs
  <2> QED
    BY <2>1, <2>2, <2>3 DEF Aux
<1> QED
  BY <1>1, <1>2, <1>3, <1>4, <1>5, <1>6, <1>7, <1>8, <1>9, <1>10, <1>11, <1>12, <1>13, <1>14, <1>15, <1>16, <1>17, <1>18, <1>19, <1>20, <1>21, <1>22, <1>23 DEF Next, Continue, ExitCall

\* A step of the new calls, by whichever process.
OwnNext ==
  \/ \E s, t \in Slots : FnAlloc(s, t) \/ FnKill(s, t)
  \/ \E s \in Slots :
       \/ \E n \in ForkCounts : ForkN(s, n)
       \/ FnFails(s) \/ FnParent(s) \/ FnRun(s) \/ FnReturn(s) \/ FnYield(s)
       \/ \E n \in WaitCounts : WaitAll(s, n)
       \/ WaLock(s) \/ WaScan(s) \/ WaFree(s) \/ WaReturn(s) \/ WaSleep(s)

LEMMA OwnStep ==
  ASSUME RefInv, Aux, OwnNext
  PROVE  RefInv' /\ Aux'
<1> USE SlotFacts, StateFacts, LabelFacts, ExitingFacts, ExtraFacts DEF At, Running, Goto, table, locks, thread
<1>0. /\ Types /\ Loops /\ Data /\ Stacks /\ Embryos /\ Victims /\ WaitLocked /\ Numbers /\ Kinship
      /\ Locked /\ Doomed /\ Idle /\ Apart /\ ChildIs /\ MaxPid \in Nat
      /\ pid \in [Slots -> 0..MaxPid] /\ nextpid \in 2..(MaxPid + 1)
  BY ChildFacts, ProcConstants DEF RefInv, Base, Aux, Data
<1>00. nextpid \in Int /\ nextpid # 0 /\ \A u \in Slots : pid[u] \in Int /\ idx[u] \in Indices
  BY <1>0 DEF Loops
<1>1. ASSUME NEW s \in Slots, NEW t \in Slots, FnAlloc(s, t)
      PROVE  RefInv' /\ Aux'
  <2> USE <1>1 DEF FnAlloc
  <2>1. Types'
    BY <1>0 DEF Types, Embryos
  <2>2. Loops'
    BY <1>0, <1>00 DEF Types, Loops
  <2>3. Data'
    BY <1>0 DEF Types, Data
  <2>4. Stacks' /\ Victims'
    BY <1>0 DEF Types, Stacks, Victims, Embryos, Locked, Doomed
  <2>5. Embryos' /\ WaitLocked'
    BY <1>0 DEF Types, Stacks, Embryos, WaitLocked, Loops, Doomed, Idle
  <2>6. Numbers'
    BY <1>0, <1>00 DEF Numbers, Types, Embryos, Doomed
  <2>7. Kinship'
    BY <1>0 DEF Kinship, Alive, Numbers, Types, Loops, Embryos, WaitLocked, Doomed, Idle
  <2>8. Locked'
    BY <1>0 DEF Locked, Types, Stacks, Embryos, Victims, Doomed
  <2>9. Doomed'
    BY <1>0, <1>00 DEF Doomed, Types, Loops, Stacks, Embryos, WaitLocked
  <2>10. Idle' /\ Apart'
    BY <1>0 DEF Idle, Apart, Types, Loops, Embryos, WaitLocked, Kinship, Alive, Doomed
  <2> QED
    BY <2>1, <2>2, <2>3, <2>4, <2>5, <2>6, <2>7, <2>8, <2>9, <2>10 DEF RefInv, Base, Aux
<1>2. ASSUME NEW s \in Slots, NEW t \in Slots, FnKill(s, t)
      PROVE  RefInv' /\ Aux'
  <2> USE <1>2 DEF FnKill
  <2>1. Types'
    BY <1>0 DEF Types, Embryos
  <2>2. Loops'
    BY <1>0, <1>00 DEF Types, Loops
  <2>3. Data'
    BY <1>0 DEF Types, Data
  <2>4. Stacks' /\ Victims'
    BY <1>0 DEF Types, Stacks, Victims, Embryos, Locked, Doomed
  <2>5. Embryos' /\ WaitLocked'
    BY <1>0 DEF Types, Stacks, Embryos, WaitLocked, Loops, Doomed, Idle
  <2>6. Numbers'
    BY <1>0, <1>00 DEF Numbers, Types, Embryos, Doomed
  <2>7. Kinship'
    BY <1>0 DEF Kinship, Alive, Numbers, Types, Loops, Embryos, WaitLocked, Doomed, Idle
  <2>8. Locked'
    BY <1>0 DEF Locked, Types, Stacks, Embryos, Victims, Doomed
  <2>9. Doomed'
    BY <1>0, <1>00 DEF Doomed, Types, Loops, Stacks, Embryos, WaitLocked
  <2>10. Idle' /\ Apart'
    BY <1>0 DEF Idle, Apart, Types, Loops, Embryos, WaitLocked, Kinship, Alive, Doomed
  <2> QED
    BY <2>1, <2>2, <2>3, <2>4, <2>5, <2>6, <2>7, <2>8, <2>9, <2>10 DEF RefInv, Base, Aux
<1>3. ASSUME NEW s \in Slots, NEW n \in ForkCounts, ForkN(s, n)
      PROVE  RefInv' /\ Aux'
  <2> USE <1>3 DEF ForkN, Syscall
  <2>1. Types'
    BY <1>0 DEF Types, Embryos
  <2>2. Loops'
    BY <1>0, <1>00 DEF Types, Loops
  <2>3. Data'
    BY <1>0 DEF Types, Data
  <2>4. Stacks' /\ Victims'
    BY <1>0 DEF Types, Stacks, Victims, Embryos, Locked, Doomed
  <2>5. Embryos' /\ WaitLocked'
    BY <1>0 DEF Types, Stacks, Embryos, WaitLocked, Loops, Doomed, Idle
  <2>6. Numbers'
    BY <1>0, <1>00 DEF Numbers, Types, Embryos, Doomed
  <2>7. Kinship'
    BY <1>0 DEF Kinship, Alive, Numbers, Types, Loops, Embryos, WaitLocked, Doomed, Idle
  <2>8. Locked'
    BY <1>0 DEF Locked, Types, Stacks, Embryos, Victims, Doomed
  <2>9. Doomed'
    BY <1>0, <1>00 DEF Doomed, Types, Loops, Stacks, Embryos, WaitLocked
  <2>10. Idle' /\ Apart'
    BY <1>0 DEF Idle, Apart, Types, Loops, Embryos, WaitLocked, Kinship, Alive, Doomed
  <2> QED
    BY <2>1, <2>2, <2>3, <2>4, <2>5, <2>6, <2>7, <2>8, <2>9, <2>10 DEF RefInv, Base, Aux
<1>4. ASSUME NEW s \in Slots, FnFails(s)
      PROVE  RefInv' /\ Aux'
  <2> USE <1>4 DEF FnFails
  <2>1. Types'
    BY <1>0 DEF Types, Embryos
  <2>2. Loops'
    BY <1>0, <1>00 DEF Types, Loops
  <2>3. Data'
    BY <1>0 DEF Types, Data
  <2>4. Stacks' /\ Victims'
    BY <1>0 DEF Types, Stacks, Victims, Embryos, Locked, Doomed
  <2>5. Embryos' /\ WaitLocked'
    BY <1>0 DEF Types, Stacks, Embryos, WaitLocked, Loops, Doomed, Idle
  <2>6. Numbers'
    BY <1>0, <1>00 DEF Numbers, Types, Embryos, Doomed
  <2>7. Kinship'
    BY <1>0 DEF Kinship, Alive, Numbers, Types, Loops, Embryos, WaitLocked, Doomed, Idle
  <2>8. Locked'
    BY <1>0 DEF Locked, Types, Stacks, Embryos, Victims, Doomed
  <2>9. Doomed'
    BY <1>0, <1>00 DEF Doomed, Types, Loops, Stacks, Embryos, WaitLocked
  <2>10. Idle' /\ Apart'
    BY <1>0 DEF Idle, Apart, Types, Loops, Embryos, WaitLocked, Kinship, Alive, Doomed
  <2> QED
    BY <2>1, <2>2, <2>3, <2>4, <2>5, <2>6, <2>7, <2>8, <2>9, <2>10 DEF RefInv, Base, Aux
<1>5. ASSUME NEW s \in Slots, FnParent(s)
      PROVE  RefInv' /\ Aux'
  <2> USE <1>5 DEF FnParent
  <2>1. Types'
    BY <1>0 DEF Types, Embryos
  <2>2. Loops'
    BY <1>0, <1>00 DEF Types, Loops
  <2>3. Data'
    BY <1>0 DEF Types, Data
  <2>4. Stacks' /\ Victims'
    BY <1>0 DEF Types, Stacks, Victims, Embryos, Locked, Doomed
  <2>5. Embryos' /\ WaitLocked'
    BY <1>0 DEF Types, Stacks, Embryos, WaitLocked, Loops, Doomed, Idle
  <2>6. Numbers'
    BY <1>0, <1>00 DEF Numbers, Types, Embryos, Doomed
  <2>7. Kinship'
    BY <1>0 DEF Kinship, Alive, Numbers, Types, Loops, Embryos, WaitLocked, Doomed, Idle
  <2>8. Locked'
    BY <1>0 DEF Locked, Types, Stacks, Embryos, Victims, Doomed
  <2>9. Doomed'
    BY <1>0, <1>00 DEF Doomed, Types, Loops, Stacks, Embryos, WaitLocked
  <2>10. Idle' /\ Apart'
    BY <1>0 DEF Idle, Apart, Types, Loops, Embryos, WaitLocked, Kinship, Alive, Doomed
  <2> QED
    BY <2>1, <2>2, <2>3, <2>4, <2>5, <2>6, <2>7, <2>8, <2>9, <2>10 DEF RefInv, Base, Aux
<1>6. ASSUME NEW s \in Slots, FnRun(s)
      PROVE  RefInv' /\ Aux'
  <2> USE <1>6 DEF FnRun
  <2>1. Types'
    BY <1>0 DEF Types, Embryos
  <2>2. Loops'
    BY <1>0, <1>00 DEF Types, Loops
  <2>3. Data'
    BY <1>0 DEF Types, Data
  <2>4. Stacks' /\ Victims'
    BY <1>0 DEF Types, Stacks, Victims, Embryos, Locked, Doomed
  <2>5. Embryos' /\ WaitLocked'
    BY <1>0 DEF Types, Stacks, Embryos, WaitLocked, Loops, Doomed, Idle
  <2>6. Numbers'
    BY <1>0, <1>00 DEF Numbers, Types, Embryos, Doomed
  <2>7. Kinship'
    BY <1>0 DEF Kinship, Alive, Numbers, Types, Loops, Embryos, WaitLocked, Doomed, Idle
  <2>8. Locked'
    BY <1>0 DEF Locked, Types, Stacks, Embryos, Victims, Doomed
  <2>9. Doomed'
    BY <1>0, <1>00 DEF Doomed, Types, Loops, Stacks, Embryos, WaitLocked
  <2>10. Idle' /\ Apart'
    BY <1>0 DEF Idle, Apart, Types, Loops, Embryos, WaitLocked, Kinship, Alive, Doomed
  <2> QED
    BY <2>1, <2>2, <2>3, <2>4, <2>5, <2>6, <2>7, <2>8, <2>9, <2>10 DEF RefInv, Base, Aux
<1>7. ASSUME NEW s \in Slots, FnReturn(s)
      PROVE  RefInv' /\ Aux'
  <2> USE <1>7 DEF FnReturn
  <2>1. Types'
    BY <1>0 DEF Types, Embryos
  <2>2. Loops'
    BY <1>0, <1>00 DEF Types, Loops
  <2>3. Data'
    BY <1>0 DEF Types, Data
  <2>4. Stacks' /\ Victims'
    BY <1>0 DEF Types, Stacks, Victims, Embryos, Locked, Doomed
  <2>5. Embryos' /\ WaitLocked'
    BY <1>0 DEF Types, Stacks, Embryos, WaitLocked, Loops, Doomed, Idle
  <2>6. Numbers'
    BY <1>0, <1>00 DEF Numbers, Types, Embryos, Doomed
  <2>7. Kinship'
    BY <1>0 DEF Kinship, Alive, Numbers, Types, Loops, Embryos, WaitLocked, Doomed, Idle
  <2>8. Locked'
    BY <1>0 DEF Locked, Types, Stacks, Embryos, Victims, Doomed
  <2>9. Doomed'
    BY <1>0, <1>00 DEF Doomed, Types, Loops, Stacks, Embryos, WaitLocked
  <2>10. Idle' /\ Apart'
    BY <1>0 DEF Idle, Apart, Types, Loops, Embryos, WaitLocked, Kinship, Alive, Doomed
  <2> QED
    BY <2>1, <2>2, <2>3, <2>4, <2>5, <2>6, <2>7, <2>8, <2>9, <2>10 DEF RefInv, Base, Aux
<1>8. ASSUME NEW s \in Slots, FnYield(s)
      PROVE  RefInv' /\ Aux'
  <2> USE <1>8 DEF FnYield, Preempt
  <2>1. Types'
    BY <1>0 DEF Types, Embryos
  <2>2. Loops'
    BY <1>0, <1>00 DEF Types, Loops
  <2>3. Data'
    BY <1>0 DEF Types, Data
  <2>4. Stacks' /\ Victims'
    BY <1>0 DEF Types, Stacks, Victims, Embryos, Locked, Doomed
  <2>5. Embryos' /\ WaitLocked'
    BY <1>0 DEF Types, Stacks, Embryos, WaitLocked, Loops, Doomed, Idle
  <2>6. Numbers'
    BY <1>0, <1>00 DEF Numbers, Types, Embryos, Doomed
  <2>7. Kinship'
    BY <1>0 DEF Kinship, Alive, Numbers, Types, Loops, Embryos, WaitLocked, Doomed, Idle
  <2>8. Locked'
    BY <1>0 DEF Locked, Types, Stacks, Embryos, Victims, Doomed
  <2>9. Doomed'
    BY <1>0, <1>00 DEF Doomed, Types, Loops, Stacks, Embryos, WaitLocked
  <2>10. Idle' /\ Apart'
    BY <1>0 DEF Idle, Apart, Types, Loops, Embryos, WaitLocked, Kinship, Alive, Doomed
  <2> QED
    BY <2>1, <2>2, <2>3, <2>4, <2>5, <2>6, <2>7, <2>8, <2>9, <2>10 DEF RefInv, Base, Aux
<1>9. ASSUME NEW s \in Slots, NEW n \in WaitCounts, WaitAll(s, n)
      PROVE  RefInv' /\ Aux'
  <2> USE <1>9 DEF WaitAll, Syscall
  <2>1. Types'
    BY <1>0 DEF Types, Embryos
  <2>2. Loops'
    BY <1>0, <1>00 DEF Types, Loops
  <2>3. Data'
    BY <1>0 DEF Types, Data
  <2>4. Stacks' /\ Victims'
    BY <1>0 DEF Types, Stacks, Victims, Embryos, Locked, Doomed
  <2>5. Embryos' /\ WaitLocked'
    BY <1>0 DEF Types, Stacks, Embryos, WaitLocked, Loops, Doomed, Idle
  <2>6. Numbers'
    BY <1>0, <1>00 DEF Numbers, Types, Embryos, Doomed
  <2>7. Kinship'
    BY <1>0 DEF Kinship, Alive, Numbers, Types, Loops, Embryos, WaitLocked, Doomed, Idle
  <2>8. Locked'
    BY <1>0 DEF Locked, Types, Stacks, Embryos, Victims, Doomed
  <2>9. Doomed'
    BY <1>0, <1>00 DEF Doomed, Types, Loops, Stacks, Embryos, WaitLocked
  <2>10. Idle' /\ Apart'
    BY <1>0 DEF Idle, Apart, Types, Loops, Embryos, WaitLocked, Kinship, Alive, Doomed
  <2> QED
    BY <2>1, <2>2, <2>3, <2>4, <2>5, <2>6, <2>7, <2>8, <2>9, <2>10 DEF RefInv, Base, Aux
<1>10. ASSUME NEW s \in Slots, WaLock(s)
      PROVE  RefInv' /\ Aux'
  <2> USE <1>10 DEF WaLock
  <2>1. Types'
    BY <1>0 DEF Types, Embryos
  <2>2. Loops'
    BY <1>0, <1>00 DEF Types, Loops
  <2>3. Data'
    BY <1>0 DEF Types, Data
  <2>4. Stacks' /\ Victims'
    BY <1>0 DEF Types, Stacks, Victims, Embryos, Locked, Doomed
  <2>5. Embryos' /\ WaitLocked'
    BY <1>0 DEF Types, Stacks, Embryos, WaitLocked, Loops, Doomed, Idle
  <2>6. Numbers'
    BY <1>0, <1>00 DEF Numbers, Types, Embryos, Doomed
  <2>7. Kinship'
    BY <1>0 DEF Kinship, Alive, Numbers, Types, Loops, Embryos, WaitLocked, Doomed, Idle
  <2>8. Locked'
    BY <1>0 DEF Locked, Types, Stacks, Embryos, Victims, Doomed
  <2>9. Doomed'
    BY <1>0, <1>00 DEF Doomed, Types, Loops, Stacks, Embryos, WaitLocked
  <2>10. Idle' /\ Apart'
    BY <1>0 DEF Idle, Apart, Types, Loops, Embryos, WaitLocked, Kinship, Alive, Doomed
  <2> QED
    BY <2>1, <2>2, <2>3, <2>4, <2>5, <2>6, <2>7, <2>8, <2>9, <2>10 DEF RefInv, Base, Aux
<1>11. ASSUME NEW s \in Slots, WaScan(s)
      PROVE  RefInv' /\ Aux'
  <2> USE <1>11 DEF WaScan
  <2>1. Types'
    BY <1>0 DEF Types, Embryos
  <2>2. Loops'
    BY <1>0, <1>00, Successor, ProcConstants DEF Types, Loops, Indices
  <2>3. Data'
    BY <1>0 DEF Types, Data
  <2>4. Stacks' /\ Victims'
    BY <1>0 DEF Types, Stacks, Victims, Embryos, Locked, Doomed
  <2>5. Embryos' /\ WaitLocked'
    BY <1>0 DEF Types, Stacks, Embryos, WaitLocked, Loops, Doomed, Idle
  <2>6. Numbers'
    BY <1>0, <1>00 DEF Numbers, Types, Embryos, Doomed
  <2>7. Kinship'
    BY <1>0 DEF Kinship, Alive, Numbers, Types, Loops, Embryos, WaitLocked, Doomed, Idle
  <2>8. Locked'
    BY <1>0 DEF Locked, Types, Stacks, Embryos, Victims, Doomed
  <2>9. Doomed'
    <3>1. idx[s] \in Slots /\ idx[s] + 1 # 0
      BY <1>0, <1>00, ProcConstants DEF Doomed, Indices, Slots
    <3>2. state[idx[s]] = "ZOMBIE" => \A c \in CPUs : cpu[c] # idx[s]
      BY <1>0, <3>1 DEF Stacks
    <3> QED
      BY <1>0, <3>1, <3>2 DEF Doomed, Types, Loops, WaitLocked
  <2>10. Idle' /\ Apart'
    BY <1>0 DEF Idle, Apart, Types, Loops, Embryos, WaitLocked, Kinship, Alive, Doomed
  <2> QED
    BY <2>1, <2>2, <2>3, <2>4, <2>5, <2>6, <2>7, <2>8, <2>9, <2>10 DEF RefInv, Base, Aux
<1>12. ASSUME NEW s \in Slots, WaFree(s)
      PROVE  RefInv' /\ Aux'
  <2> USE <1>12 DEF WaFree, freeproc
  <2>1. Types'
    BY <1>0 DEF Types, Embryos
  <2>2. Loops'
    BY <1>0, <1>00, Successor DEF Types, Loops, Doomed
  <2>3. Data'
    <3>1. 0 \in 0..MaxPid
      BY <1>0
    <3> QED
      BY <1>0, <3>1 DEF Data
  <2>4. Stacks' /\ Victims'
    BY <1>0 DEF Types, Stacks, Victims, Embryos, Locked, Doomed
  <2>5. Embryos' /\ WaitLocked'
    BY <1>0 DEF Types, Stacks, Embryos, WaitLocked, Loops, Doomed, Idle
  <2>6. Numbers'
    <3> DEFINE k == idx[s]
    <3>1. /\ k \in Slots /\ state[k] = "ZOMBIE" /\ k # initproc
          /\ pid' = [pid EXCEPT ![k] = 0] /\ state' = [state EXCEPT ![k] = "UNUSED"]
          /\ nextpid' = nextpid
      BY <1>0 DEF Doomed, Kinship, Alive
    <3> HIDE DEF k
    <3> QED
      BY <1>0, <1>00, <3>1 DEF Numbers, Types
  <2>7. Kinship'
    BY <1>0 DEF Kinship, Alive, Numbers, Types, Loops, Embryos, WaitLocked, Doomed, Idle
  <2>8. Locked'
    BY <1>0 DEF Locked, Types, Stacks, Embryos, Victims, Doomed
  <2>9. Doomed'
    BY <1>0, <1>00 DEF Doomed, Types, Loops, Stacks, Embryos, WaitLocked
  <2>10. Idle' /\ Apart'
    BY <1>0 DEF Idle, Apart, Types, Loops, Embryos, WaitLocked, Kinship, Alive, Doomed
  <2> QED
    BY <2>1, <2>2, <2>3, <2>4, <2>5, <2>6, <2>7, <2>8, <2>9, <2>10 DEF RefInv, Base, Aux
<1>13. ASSUME NEW s \in Slots, WaReturn(s)
      PROVE  RefInv' /\ Aux'
  <2> USE <1>13 DEF WaReturn
  <2>1. Types'
    BY <1>0 DEF Types, Embryos
  <2>2. Loops'
    BY <1>0, <1>00 DEF Types, Loops
  <2>3. Data'
    BY <1>0 DEF Types, Data
  <2>4. Stacks' /\ Victims'
    BY <1>0 DEF Types, Stacks, Victims, Embryos, Locked, Doomed
  <2>5. Embryos' /\ WaitLocked'
    BY <1>0 DEF Types, Stacks, Embryos, WaitLocked, Loops, Doomed, Idle
  <2>6. Numbers'
    BY <1>0, <1>00 DEF Numbers, Types, Embryos, Doomed
  <2>7. Kinship'
    BY <1>0 DEF Kinship, Alive, Numbers, Types, Loops, Embryos, WaitLocked, Doomed, Idle
  <2>8. Locked'
    BY <1>0 DEF Locked, Types, Stacks, Embryos, Victims, Doomed
  <2>9. Doomed'
    BY <1>0, <1>00 DEF Doomed, Types, Loops, Stacks, Embryos, WaitLocked
  <2>10. Idle' /\ Apart'
    BY <1>0 DEF Idle, Apart, Types, Loops, Embryos, WaitLocked, Kinship, Alive, Doomed
  <2> QED
    BY <2>1, <2>2, <2>3, <2>4, <2>5, <2>6, <2>7, <2>8, <2>9, <2>10 DEF RefInv, Base, Aux
<1>14. ASSUME NEW s \in Slots, WaSleep(s)
      PROVE  RefInv' /\ Aux'
  <2> USE <1>14 DEF WaSleep
  <2>1. Types'
    BY <1>0 DEF Types, Embryos
  <2>2. Loops'
    BY <1>0, <1>00 DEF Types, Loops
  <2>3. Data'
    BY <1>0 DEF Types, Data
  <2>4. Stacks' /\ Victims'
    BY <1>0 DEF Types, Stacks, Victims, Embryos, Locked, Doomed
  <2>5. Embryos' /\ WaitLocked'
    BY <1>0 DEF Types, Stacks, Embryos, WaitLocked, Loops, Doomed, Idle
  <2>6. Numbers'
    BY <1>0, <1>00 DEF Numbers, Types, Embryos, Doomed
  <2>7. Kinship'
    BY <1>0 DEF Kinship, Alive, Numbers, Types, Loops, Embryos, WaitLocked, Doomed, Idle
  <2>8. Locked'
    BY <1>0 DEF Locked, Types, Stacks, Embryos, Victims, Doomed
  <2>9. Doomed'
    BY <1>0, <1>00 DEF Doomed, Types, Loops, Stacks, Embryos, WaitLocked
  <2>10. Idle' /\ Apart'
    BY <1>0 DEF Idle, Apart, Types, Loops, Embryos, WaitLocked, Kinship, Alive, Doomed
  <2> QED
    BY <2>1, <2>2, <2>3, <2>4, <2>5, <2>6, <2>7, <2>8, <2>9, <2>10 DEF RefInv, Base, Aux
<1> QED
  BY <1>1, <1>2, <1>3, <1>4, <1>5, <1>6, <1>7, <1>8, <1>9, <1>10, <1>11, <1>12, <1>13, <1>14 DEF OwnNext

-----------------------------------------------------------------------------
(* The statuses of waitall(). *)

LEMMA CardFacts ==
  ASSUME NEW s \in Slots
  PROVE  /\ IsFiniteSet(Children(s)) /\ Cardinality(Children(s)) \in Nat
         /\ NPROC \in Nat /\ IsFiniteSet(Slots) /\ Cardinality(Slots) = NPROC
<1>1. NPROC \in Nat /\ IsFiniteSet(Slots) /\ Cardinality(Slots) = NPROC
  BY ProcConstants, FS_Interval DEF Slots
<1>2. Children(s) \subseteq Slots
  BY DEF Children
<1> QED
  BY <1>1, <1>2, FS_Subset, FS_CardinalityType

\* A process that collects gets no children meanwhile: reparent() gives them to
\* init, and fork() and forkn() to their caller.
LEMMA NoNewKids ==
  ASSUME RefInv, Aux, Next \/ OwnNext, NEW s \in Slots, pc[s] \in Collecting
  PROVE  \A u \in Slots : parent'[u] = s => parent[u] = s
<1> USE SlotFacts DEF At, Running, Goto, table
<1>0. Loops /\ Idle /\ s # initproc /\ s # 0
  BY ExtraFacts DEF RefInv, Base, Aux, Idle, Extra
<1>1. CASE UNCHANGED parent
  BY <1>1
<1>2. ASSUME NEW q \in Slots, NEW t \in Slots, ForkFails(q, t)
      PROVE  \A u \in Slots : parent'[u] = s => parent[u] = s
  BY <1>0, <1>2 DEF ForkFails, freeproc, Loops
<1>3. ASSUME NEW q \in Slots, ForkParent(q) \/ FnParent(q)
      PROVE  \A u \in Slots : parent'[u] = s => parent[u] = s
  <2>1. q # s
    BY <1>3 DEF ForkParent, FnParent, Collecting
  <2> QED
    BY <1>0, <1>3, <2>1 DEF ForkParent, FnParent, Loops
<1>4. ASSUME NEW q \in Slots, Reparent(q)
      PROVE  \A u \in Slots : parent'[u] = s => parent[u] = s
  BY <1>0, <1>4 DEF Reparent, Loops
<1>5. ASSUME NEW q \in Slots, WaitReap(q) \/ WaFree(q)
      PROVE  \A u \in Slots : parent'[u] = s => parent[u] = s
  BY <1>0, <1>5 DEF WaitReap, WaFree, freeproc, Loops
<1>6. Next => \/ UNCHANGED parent
              \/ \E q, t \in Slots : ForkFails(q, t)
              \/ \E q \in Slots : ForkParent(q) \/ Reparent(q) \/ WaitReap(q)
  BY DEF Next, Continue, ExitCall, SwitchOut, Dispatch, Yield, Preempt, Fork,
     ForkRun, Exit, ExitNum, ExitLock, Wakeup, WakeInit, WakeParent, ExitZombie,
     WaitCall, WaitFault, WaitLock, WaitSkip, WaitEnd, WaitSleep, KillFind, KillMark
<1>7. OwnNext => UNCHANGED parent \/ \E q \in Slots : FnParent(q) \/ WaFree(q)
  BY DEF OwnNext, FnAlloc, FnKill, ForkN, FnFails, FnRun, FnReturn, FnYield, Preempt,
     WaitAll, WaLock, WaScan, WaReturn, WaSleep
<1> QED
  BY <1>1, <1>2, <1>3, <1>4, <1>5, <1>6, <1>7

\* Nothing happens to the count of s.
Steady(s) ==
  /\ count'[s] = count[s]
  /\ pc'[s] \in Collecting <=> pc[s] \in Collecting
  /\ pc'[s] = "wa_free" <=> pc[s] = "wa_free"

CountedAt(s) ==
  IF pc[s] \in Collecting
  THEN count[s] + Cardinality(Children(s)) + Spare(s) <= NPROC
  ELSE count[s] = 0

LEMMA FewerKids ==
  ASSUME RefInv, Aux, Next \/ OwnNext, NEW s \in Slots, pc[s] \in Collecting
  PROVE  Cardinality(Children(s))' <= Cardinality(Children(s)) /\ Cardinality(Children(s))' \in Nat
<1>1. Children(s)' \subseteq Children(s)
  BY NoNewKids DEF Children
<1>2. Cardinality(Children(s)') <= Cardinality(Children(s)) /\ Cardinality(Children(s)') \in Nat
  BY <1>1, CardFacts, FS_Subset, FS_CardinalityType
<1> QED
  BY <1>2

LEMMA SteadyKept ==
  ASSUME RefInv, Aux, Next \/ OwnNext, NEW s \in Slots, OwnTypes, CountedAt(s), Steady(s)
  PROVE  CountedAt(s)'
<1>1. count[s] \in Nat /\ NPROC \in Nat /\ Cardinality(Children(s)) \in Nat
  BY CardFacts DEF OwnTypes
<1>2. CASE pc[s] \in Collecting
  <2>1. Cardinality(Children(s))' <= Cardinality(Children(s)) /\ Cardinality(Children(s))' \in Nat
    BY <1>2, FewerKids
  <2>2. Spare(s)' = Spare(s) /\ Spare(s) \in Nat
    BY DEF Spare, Steady
  <2>3. count[s] + Cardinality(Children(s)) + Spare(s) <= NPROC
    BY <1>2 DEF CountedAt
  <2>4. count'[s] + Cardinality(Children(s))' + Spare(s)' <= NPROC
    BY <1>1, <2>1, <2>2, <2>3 DEF Steady
  <2> QED
    BY <1>2, <2>4 DEF CountedAt, Steady
<1>3. CASE pc[s] \notin Collecting
  BY <1>3 DEF CountedAt, Steady
<1> QED
  BY <1>2, <1>3

\* The calls of Proc are none of those that collect.
LEMMA ProcSteady ==
  ASSUME RefInv, Aux, Next, UNCHANGED own
  PROVE  \A s \in Slots : Steady(s)
<1> USE SlotFacts DEF At, Running, Goto, thread, own, Collecting, Steady
<1>0. pc \in [Slots -> AllLabels] /\ Idle
  BY DEF RefInv, Base, Types, Aux
<1>1. ASSUME NEW q \in Slots, NEW t \in Slots, Fork(q, t)
      PROVE  \A s \in Slots : Steady(s)
  BY <1>0, <1>1 DEF Fork, Syscall, Idle
<1>2. ASSUME NEW q \in Slots, ForkParent(q) \/ ForkRun(q) \/ KillMark(q) \/ WaitCall(q)
      PROVE  \A s \in Slots : Steady(s)
  BY <1>0, <1>2 DEF ForkParent, ForkRun, KillMark, WaitCall, Syscall
<1>3. ASSUME NEW q \in Slots, ExitCall(q) \/ ExitLock(q) \/ Reparent(q) \/ ExitZombie(q)
      PROVE  \A s \in Slots : Steady(s)
  BY <1>0, <1>3 DEF ExitCall, Exit, ExitNum, ExitLock, Reparent, ExitZombie, Syscall
<1>4. ASSUME NEW q \in Slots, WakeInit(q) \/ WakeParent(q)
      PROVE  \A s \in Slots : Steady(s)
  BY <1>0, <1>4 DEF WakeInit, WakeParent, Wakeup
<1>5. ASSUME NEW q \in Slots, WaitLock(q) \/ WaitReap(q) \/ WaitFault(q) \/ WaitSleep(q)
      PROVE  \A s \in Slots : Steady(s)
  BY <1>0, <1>5 DEF WaitLock, WaitReap, WaitFault, WaitSleep, Return
<1>6. ASSUME NEW q \in Slots, WaitEnd(q)
      PROVE  \A s \in Slots : Steady(s)
  BY <1>0, <1>6 DEF WaitEnd, Return
<1>7. ASSUME NEW q \in Slots, NEW t \in Slots, KillFind(q, t)
      PROVE  \A s \in Slots : Steady(s)
  BY <1>0, <1>7 DEF KillFind, Syscall
<1>8. CASE UNCHANGED pc
  BY <1>8
<1>9. \/ UNCHANGED pc
      \/ \E q, t \in Slots : Fork(q, t) \/ KillFind(q, t)
      \/ \E q \in Slots : \/ ForkParent(q) \/ ForkRun(q) \/ KillMark(q) \/ WaitCall(q)
                          \/ ExitCall(q) \/ ExitLock(q) \/ Reparent(q) \/ ExitZombie(q)
                          \/ WakeInit(q) \/ WakeParent(q) \/ WaitEnd(q)
                          \/ WaitLock(q) \/ WaitReap(q) \/ WaitFault(q) \/ WaitSleep(q)
  BY DEF Next, Continue, SwitchOut, Dispatch, Yield, Preempt, ForkFails, WaitSkip
<1> QED
  BY <1>1, <1>2, <1>3, <1>4, <1>5, <1>6, <1>7, <1>8, <1>9

LEMMA OwnCounted ==
  ASSUME RefInv, Aux, OwnNext, OwnTypes, Counted
  PROVE  OwnTypes' /\ Counted'
<1> USE SlotFacts DEF At, Running, Goto, thread, own
<1>0. /\ pc \in [Slots -> AllLabels] /\ idx \in [Slots -> Indices] /\ Idle /\ Apart /\ Doomed
      /\ count \in [Slots -> Nat] /\ found \in [Slots -> BOOLEAN]
      /\ \A s \in Slots : CountedAt(s)
  BY DEF RefInv, Base, Types, Loops, Aux, OwnTypes, Counted, CountedAt
<1>1. ASSUME NEW s \in Slots, \A u \in Slots \ {s} : Steady(u), CountedAt(s)'
      PROVE  Counted'
  <2>1. \A u \in Slots : CountedAt(u)'
    BY <1>0, <1>1, SteadyKept
  <2> QED
    BY <2>1 DEF Counted, CountedAt
<1>2. ASSUME \A u \in Slots : Steady(u)
      PROVE  Counted'
  <2>1. \A u \in Slots : CountedAt(u)'
    BY <1>0, <1>2, SteadyKept
  <2> QED
    BY <2>1 DEF Counted, CountedAt
<1>3. ASSUME NEW s \in Slots, NEW t \in Slots, FnAlloc(s, t) \/ FnKill(s, t)
      PROVE  OwnTypes' /\ Counted'
  <2>1. \A u \in Slots : Steady(u)
    BY <1>0, <1>3 DEF FnAlloc, FnKill, Steady, Collecting, Idle
  <2>2. OwnTypes'
    BY <1>0, <1>3 DEF FnAlloc, FnKill, OwnTypes
  <2> QED
    BY <1>2, <2>1, <2>2
<1>4. ASSUME NEW s \in Slots,
             \/ \E n \in ForkCounts : ForkN(s, n)
             \/ FnFails(s) \/ FnParent(s) \/ FnRun(s) \/ FnReturn(s) \/ FnYield(s)
      PROVE  OwnTypes' /\ Counted'
  <2>1. \A u \in Slots : Steady(u)
    BY <1>0, <1>4 DEF ForkN, FnFails, FnParent, FnRun, FnReturn, FnYield, Preempt,
       Syscall, Steady, Collecting
  <2>2. OwnTypes'
    BY <1>0, <1>4 DEF ForkN, FnFails, FnParent, FnRun, FnReturn, FnYield, OwnTypes
  <2> QED
    BY <1>2, <2>1, <2>2
<1>5. ASSUME NEW s \in Slots, NEW n \in WaitCounts, WaitAll(s, n)
      PROVE  OwnTypes' /\ Counted'
  <2>1. \A u \in Slots \ {s} : Steady(u)
    BY <1>0, <1>5 DEF WaitAll, Syscall, Steady, Collecting
  <2>2. OwnTypes'
    BY <1>0, <1>5 DEF WaitAll, OwnTypes
  <2>3. /\ pc[s] \notin Collecting /\ pc'[s] = "wa_lock" /\ count'[s] = count[s]
        /\ s # initproc /\ parent' = parent
    BY <1>0, <1>5 DEF WaitAll, Syscall, Collecting, table
  <2>4. Cardinality(Children(s)) + 2 <= NPROC
    <3>1. Children(s) \subseteq (Slots \ {s}) \ {initproc}
      BY <1>0, <2>3 DEF Children, Apart
    <3>2. /\ IsFiniteSet(Slots \ {s}) /\ Cardinality(Slots \ {s}) = NPROC - 1
          /\ NPROC \in Nat
      BY CardFacts, FS_RemoveElement
    <3>3. /\ IsFiniteSet((Slots \ {s}) \ {initproc})
          /\ Cardinality((Slots \ {s}) \ {initproc}) = NPROC - 1 - 1
      <4> DEFINE R == Slots \ {s}
      <4>1. initproc \in R
        BY <2>3
      <4> HIDE DEF R
      <4>2. IsFiniteSet(R) /\ Cardinality(R) = NPROC - 1
        BY <3>2 DEF R
      <4>3. IsFiniteSet(R \ {initproc}) /\ Cardinality(R \ {initproc}) = Cardinality(R) - 1
        BY <4>1, <4>2, FS_RemoveElement
      <4> QED
        BY <4>2, <4>3 DEF R
    <3>4. Cardinality(Children(s)) <= NPROC - 1 - 1
      BY <3>1, <3>3, FS_Subset
    <3> QED
      BY <3>2, <3>4, CardFacts
  <2>5. CountedAt(s)'
    <3>1. count'[s] = 0 /\ Children(s)' = Children(s) /\ Spare(s)' = 2
      BY <1>0, <2>3 DEF CountedAt, Children, Spare
    <3>2. 0 + Cardinality(Children(s)) + 2 <= NPROC
      BY <2>4, CardFacts
    <3> QED
      BY <2>3, <3>1, <3>2 DEF CountedAt, Collecting
  <2> QED
    BY <1>1, <2>1, <2>2, <2>5
<1>6. ASSUME NEW s \in Slots, WaLock(s) \/ WaSleep(s)
      PROVE  OwnTypes' /\ Counted'
  <2>1. \A u \in Slots : Steady(u)
    BY <1>0, <1>6 DEF WaLock, WaSleep, Steady, Collecting
  <2>2. OwnTypes'
    BY <1>0, <1>6 DEF WaLock, WaSleep, OwnTypes
  <2> QED
    BY <1>2, <2>1, <2>2
<1>7. ASSUME NEW s \in Slots, WaScan(s)
      PROVE  OwnTypes' /\ Counted'
  <2>0. pc[s] = "wa_scan" /\ parent' = parent
    BY <1>7 DEF WaScan, table
  <2>1. \A u \in Slots \ {s} : Steady(u)
    BY <1>0, <1>7 DEF WaScan, Steady, Collecting
  <2>2. OwnTypes'
    <3>1. \A u \in Slots : count[u] + 1 \in Nat
      BY <1>0
    <3> QED
      BY <1>0, <1>7, <3>1 DEF WaScan, OwnTypes
  <2>3. \/ Steady(s)
        \/ pc'[s] = "wa_free" /\ count'[s] = count[s] + 1
    BY <1>0, <1>7 DEF WaScan, Steady, Collecting
  <2>4. ASSUME pc'[s] = "wa_free", count'[s] = count[s] + 1
        PROVE  CountedAt(s)'
    <3>1. count[s] + Cardinality(Children(s)) + 2 <= NPROC
      BY <1>0, <2>0 DEF CountedAt, Collecting, Spare
    <3>2. Children(s)' = Children(s) /\ Spare(s)' = 1
      BY <2>0, <2>4 DEF Children, Spare
    <3>3. count[s] + 1 + Cardinality(Children(s)) + 1 <= NPROC
      BY <1>0, <3>1, CardFacts
    <3> QED
      BY <2>4, <3>2, <3>3 DEF CountedAt, Collecting
  <2>5. CountedAt(s)'
    BY <1>0, <2>3, <2>4, SteadyKept
  <2> QED
    BY <1>1, <2>1, <2>2, <2>5
<1>8. ASSUME NEW s \in Slots, WaFree(s)
      PROVE  OwnTypes' /\ Counted'
  <2>1. \A u \in Slots \ {s} : Steady(u)
    BY <1>0, <1>8 DEF WaFree, Steady, Collecting
  <2>2. OwnTypes'
    BY <1>0, <1>8 DEF WaFree, OwnTypes
  <2>3. /\ pc[s] = "wa_free" /\ pc'[s] = "wa_scan" /\ count'[s] = count[s]
        /\ parent' = [parent EXCEPT ![idx[s]] = 0]
        /\ idx[s] \in Slots /\ parent[idx[s]] = s
    BY <1>0, <1>8 DEF WaFree, freeproc, Doomed
  <2>4. Cardinality(Children(s))' = Cardinality(Children(s)) - 1
    <3>1. parent \in [Slots -> Slots \union {0}]
      BY DEF RefInv, Base, Loops
    <3>2. Children(s)' = Children(s) \ {idx[s]} /\ idx[s] \in Children(s)
      BY <2>3, <3>1 DEF Children
    <3>3. Cardinality(Children(s) \ {idx[s]}) = Cardinality(Children(s)) - 1
      BY <3>2, CardFacts, FS_RemoveElement
    <3> QED
      BY <3>2, <3>3
  <2>5. CountedAt(s)'
    <3>1. count[s] + Cardinality(Children(s)) + 1 <= NPROC
      BY <1>0, <2>3 DEF CountedAt, Collecting, Spare
    <3>2. count[s] + (Cardinality(Children(s)) - 1) + 2 <= NPROC
      BY <1>0, <3>1, CardFacts
    <3> QED
      BY <2>3, <2>4, <3>2 DEF CountedAt, Collecting, Spare
  <2> QED
    BY <1>1, <2>1, <2>2, <2>5
<1>9. ASSUME NEW s \in Slots, WaReturn(s)
      PROVE  OwnTypes' /\ Counted'
  <2>1. \A u \in Slots \ {s} : Steady(u)
    BY <1>0, <1>9 DEF WaReturn, Steady, Collecting
  <2>2. OwnTypes'
    BY <1>0, <1>9 DEF WaReturn, OwnTypes
  <2>3. CountedAt(s)'
    BY <1>0, <1>9 DEF WaReturn, CountedAt, Collecting
  <2> QED
    BY <1>1, <2>1, <2>2, <2>3
<1> QED
  BY <1>3, <1>4, <1>5, <1>6, <1>7, <1>8, <1>9 DEF OwnNext

-----------------------------------------------------------------------------
(* The theorems. *)

LEMMA AllInitInv == AllInit => AllInv
<1> SUFFICES ASSUME AllInit PROVE AllInv
  OBVIOUS
<1> USE SlotFacts, ExtraFacts DEF AllInit
<1>1. RefInv
  BY RefInit
<1>2. Aux
  BY DEF Init, Aux, Locked, Doomed, Idle, Apart
<1>3. OwnTypes /\ Counted
  BY DEF Init, OwnTypes, Counted, Collecting
<1> QED
  BY <1>1, <1>2, <1>3 DEF AllInv

LEMMA AllNextIs == AllNext => OwnNext \/ (Next /\ UNCHANGED own)
BY DEF AllNext, OwnNext

LEMMA AllNextInv == AllInv /\ [AllNext]_allvars => AllInv'
<1>1. ASSUME AllInv, Next, UNCHANGED own
      PROVE  AllInv'
  <2>1. RefInv' /\ Aux'
    BY <1>1, RefNext, AuxStep DEF AllInv
  <2>2. OwnTypes' /\ \A s \in Slots : CountedAt(s)
    BY <1>1 DEF AllInv, OwnTypes, own, Counted, CountedAt
  <2>3. \A s \in Slots : CountedAt(s)'
    BY <1>1, <2>2, ProcSteady, SteadyKept DEF AllInv
  <2>4. Counted'
    BY <2>3 DEF Counted, CountedAt
  <2> QED
    BY <2>1, <2>2, <2>4 DEF AllInv
<1>2. ASSUME AllInv, OwnNext
      PROVE  AllInv'
  BY <1>2, OwnStep, OwnCounted DEF AllInv
<1>3. ASSUME AllInv, UNCHANGED allvars
      PROVE  AllInv'
  <2>1. UNCHANGED vars /\ UNCHANGED own
    BY <1>3 DEF allvars
  <2>2. RefInv'
    BY <1>3, <2>1, RefNext DEF AllInv
  <2>3. Aux' /\ OwnTypes' /\ Counted'
    BY <1>3, <2>1 DEF vars, table, locks, thread, own, AllInv, Aux, Locked, Doomed, Idle,
       Apart, OwnTypes, Counted, Spare, Children
  <2> QED
    BY <2>2, <2>3 DEF AllInv
<1> QED
  BY <1>1, <1>2, <1>3, AllNextIs

LEMMA AllInvariance == AllSpec => []AllInv
BY AllInitInv, AllNextInv, PTL DEF AllSpec

\* With forkn() and waitall() in the table too, no kernel stack is used by two
\* processors, or freed under the one that is on it, though waitall() calls
\* freeproc() without the lock of the child.
THEOREM AllStacksSafe == AllSpec => []StackSafe
<1>1. AllInv => StackSafe
  BY DEF AllInv, RefInv, Base, Stacks, StackSafe
<1> QED
  BY <1>1, AllInvariance, PTL

\* waitall() never writes past local_statuses[NPROC], however often it sleeps and
\* scans again.
THEOREM StatusesBounded == AllSpec => []StatusesFit
<1>1. AllInv => StatusesFit
  <2> SUFFICES ASSUME AllInv, NEW s \in Slots, pc[s] \in {"wa_lock", "wa_scan"}
               PROVE  count[s] + Cardinality(Children(s)) + 2 <= NPROC
    BY DEF StatusesFit
  <2> QED
    BY DEF AllInv, Counted, Collecting, Spare
<1> QED
  BY <1>1, AllInvariance, PTL

\* An action property: a zombie becomes a free slot only by a step of its parent, in
\* wait() or in waitall(), while that runs.
THEOREM ParentsReap == AllSpec => OnlyParentReaps
<1> DEFINE Reaped(t) ==
      \E s \in Slots : /\ parent[t] = s /\ Running(s)
                       /\ pc[s] \in {"wait_scan", "wa_free"}
<1>1. ASSUME AllInv, [AllNext]_allvars, NEW t \in Slots, state[t] = "ZOMBIE", state'[t] = "UNUSED"
      PROVE  Reaped(t)
  <2>0. /\ state \in [Slots -> States] /\ NextKidIs /\ Doomed /\ Embryos
    BY <1>1, NextKidFacts DEF AllInv, Aux, RefInv, Base, Types
  <2>1. CASE \E s \in Slots : WaitReap(s)
    BY <1>1, <2>0, <2>1 DEF WaitReap, freeproc, At, NextKidIs
  <2>2. CASE \E s \in Slots : WaFree(s)
    BY <1>1, <2>0, <2>2 DEF WaFree, freeproc, At, Doomed
  <2>3. \/ state'[t] = state[t] \/ state'[t] # "UNUSED"
        \/ \E s \in Slots : WaitReap(s) \/ WaFree(s)
    <3>1. CASE UNCHANGED allvars
      BY <3>1 DEF allvars, vars, table
    <3>2. CASE Next
      BY <2>0, <3>2 DEF Next, Continue, ExitCall, table, SwitchOut, Dispatch, Yield, Preempt,
         Fork, ForkFails, freeproc, ForkParent, ForkRun, Exit, ExitNum, ExitLock, Reparent,
         Wakeup, WakeInit, WakeParent, ExitZombie, WaitCall, WaitFault, WaitLock,
         WaitSkip, WaitEnd, WaitSleep, KillFind, KillMark
    <3>3. CASE OwnNext
      BY <2>0, <3>3 DEF OwnNext, table, FnAlloc, FnKill, ForkN, FnFails, FnParent, FnRun,
         FnReturn, FnYield, Preempt, WaitAll, WaLock, WaScan, WaReturn, WaSleep
    <3> QED
      BY <1>1, <3>1, <3>2, <3>3, AllNextIs
  <2> QED
    BY <1>1, <2>1, <2>2, <2>3
<1>2. AllInv /\ [AllNext]_allvars =>
        [\A t \in Slots : state[t] = "ZOMBIE" /\ state'[t] = "UNUSED" => Reaped(t)]_allvars
  BY <1>1
<1> QED
  BY <1>2, AllInvariance, PTL DEF OnlyParentReaps, AllSpec

\* Every step of the new calls is one of the tree, or shows nothing there.
LEMMA OwnTreeStep ==
  ASSUME RefInv, RefInv', Aux, OwnNext
  PROVE  Tree!Next \/ UNCHANGED <<life, kin>>
<1> USE SlotFacts, LabelFacts, ExitingFacts, ExtraFacts DEF At, Running, Goto, table, locks, thread
<1>0. Types /\ Loops /\ Embryos /\ WaitLocked /\ Kinship /\ Doomed /\ Idle
  BY DEF RefInv, Base, Aux
<1>1. ASSUME NEW s \in Slots, NEW t \in Slots, FnAlloc(s, t)
      PROVE  Conceives(t)
  BY <1>0, <1>1 DEF FnAlloc, Conceives, SameExits, Types, Idle
<1>2. ASSUME NEW s \in Slots, FnParent(s)
      PROVE  Adopts(s)
  BY <1>0, <1>2 DEF FnParent, Adopts, SameExits, Types
<1>3. ASSUME NEW s \in Slots, FnRun(s)
      PROVE  Starts(s)
  BY <1>0, <1>3 DEF FnRun, Starts, SameExits, Types
<1>4. ASSUME NEW s \in Slots, WaFree(s)
      PROVE  \E t \in Slots : Reaps(s, t)
  <2>1. Reaps(s, idx[s]) /\ idx[s] \in Slots
    BY <1>0, <1>4 DEF WaFree, freeproc, Reaps, SameExits, Types, Doomed
  <2> QED
    BY <2>1
<1> USE DEF Still, HeirOf
<1>5. ASSUME NEW s \in Slots, NEW t \in Slots, FnKill(s, t)
      PROVE  Still
  BY <1>0, <1>5 DEF FnKill, Types, Loops
<1>6. ASSUME NEW s \in Slots, (\E n \in ForkCounts : ForkN(s, n)) \/ FnFails(s) \/ FnReturn(s)
      PROVE  Still
  BY <1>0, <1>6 DEF ForkN, Syscall, FnFails, FnReturn, Types, Loops
<1>7. ASSUME NEW s \in Slots, FnYield(s)
      PROVE  Still
  BY <1>0, <1>7 DEF FnYield, Preempt, Types, Loops
<1>8. ASSUME NEW s \in Slots, (\E n \in WaitCounts : WaitAll(s, n)) \/ WaLock(s)
      PROVE  Still
  BY <1>0, <1>8 DEF WaitAll, Syscall, WaLock, Types, Loops
<1>9. ASSUME NEW s \in Slots, WaScan(s)
      PROVE  Still
  BY <1>0, <1>9 DEF WaScan, Types, Loops
<1>10. ASSUME NEW s \in Slots, WaReturn(s) \/ WaSleep(s)
      PROVE  Still
  BY <1>0, <1>10 DEF WaReturn, WaSleep, Types, Loops
<1> QED
  BY <1>1, <1>2, <1>3, <1>4, <1>5, <1>6, <1>7, <1>8, <1>9, <1>10, DeedsAreSteps, Quiet DEF OwnNext

\* forkn() and waitall() keep the promises of the process tree as fork() and wait()
\* do: a child of forkn() gets its parent once, before it runs, and waitall()
\* collects each zombie once, its own children's only.
THEOREM TreeKeptByAll == AllSpec => ProcTreeSpec
<1>1. AllInv /\ AllInv' /\ [AllNext]_allvars => [Tree!Next]_<<life, kin>>
  <2> SUFFICES ASSUME AllInv, AllInv', [AllNext]_allvars PROVE [Tree!Next]_<<life, kin>>
    OBVIOUS
  <2>0. RefInv /\ RefInv' /\ Aux
    BY DEF AllInv
  <2>1. CASE UNCHANGED allvars
    <3>1. UNCHANGED <<pid, nextpid, state, pc, parent>>
      BY <2>1 DEF allvars, vars, table, thread
    <3> QED
      BY <2>0, <3>1, Quiet DEF HeirOf, Still
  <2> QED
    BY <2>0, <2>1, TreeStep, OwnTreeStep, AllNextIs
<1>2. AllInv /\ AllInv' /\ [AllNext]_allvars =>
        [Tree!Next]_<<[p \in 1..MaxPid |-> LifeOf(p)], [p \in 1..MaxPid |-> ParentOf(p)]>>
  BY <1>1 DEF life, kin, IDs
<1>3. AllInit => Tree!Init
  BY RefInit DEF AllInit
<1> QED
  BY <1>2, <1>3, AllInvariance, PTL DEF AllSpec, ProcTreeSpec, Tree!Spec
=============================================================================
