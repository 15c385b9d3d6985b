------------------------------ MODULE ForkAll ------------------------------
(***************************************************************************)
(* forkn() and waitall(), the calls that Assignment1_2 adds to             *)
(* kernel/proc.c, together with the rest of the process table.  forkn()    *)
(* makes n children in one call; waitall() collects the exit statuses of   *)
(* all the children that are done.                                         *)
(***************************************************************************)
EXTENDS Proc

CONSTANTS
  ForkCounts,   \* the n that user programs give to forkn()
  WaitCounts    \* the *n that user programs give to waitall()

ASSUME ForkAllConstants ==
  /\ ForkCounts \subseteq 1..16
  /\ WaitCounts \subseteq Nat

VARIABLES
  left,         \* forkn(): children still to be made
  pids,         \* forkn(): the IDs of those made so far
  count,        \* waitall(): statuses collected so far
  found,        \* waitall(): this scan has found a zombie
  expected_n    \* waitall(): *n as it was

own == <<left, pids, count, found, expected_n>>
allvars == <<vars, own>>

AllInit ==
  /\ Init
  /\ left = [s \in Slots |-> 0]
  /\ pids = [s \in Slots |-> {}]
  /\ count = [s \in Slots |-> 0]
  /\ found = [s \in Slots |-> FALSE]
  /\ expected_n = [s \in Slots |-> 0]

----------------------------------------------------------------------------
(* forkn(). *)

ForkN(s, n) ==
  /\ Syscall(s) /\ s # initproc
  /\ left' = [left EXCEPT ![s] = n]
  /\ Goto(s, "fn_alloc")
  /\ UNCHANGED <<table, locks, cpu, nextpid, idx, np, havekids, pids, count,
                 found, expected_n>>

\* allocproc() and the copying; np->lock stays held.
FnAlloc(s, t) ==
  /\ At(s, "fn_alloc") /\ left[s] > 0
  /\ nextpid <= MaxPid
  /\ plock[t] = 0 /\ state[t] = "UNUSED"
  /\ plock' = [plock EXCEPT ![t] = s]
  /\ state' = [state EXCEPT ![t] = "USED"]
  /\ pid' = [pid EXCEPT ![t] = nextpid]
  /\ nextpid' = nextpid + 1
  /\ np' = [np EXCEPT ![s] = t]
  /\ pc' = [pc EXCEPT ![s] = "fn_parent", ![t] = "user"]
  /\ UNCHANGED <<parent, chan, killed, xstate, xstatus, wait_lock, cpu, idx,
                 havekids, own>>

\* allocproc() returns 0: no slot is free, or no memory.
FnFails(s) ==
  /\ At(s, "fn_alloc") /\ left[s] > 0
  /\ left' = [left EXCEPT ![s] = 0]
  /\ Goto(s, "fn_kill")
  /\ UNCHANGED <<table, locks, cpu, nextpid, idx, np, havekids, pids, count,
                 found, expected_n>>

\* Mutant: forkn() does not set np->parent.
MutFnParent(s) ==
  /\ At(s, "fn_parent") /\ wait_lock = 0
  /\ Goto(s, "fn_run")
  /\ UNCHANGED <<table, locks, cpu, nextpid,
                 idx, np, havekids, own>>

\* wait_lock is taken with np->lock in hand.
FnParent(s) ==
  /\ At(s, "fn_parent") /\ wait_lock = 0
  /\ parent' = [parent EXCEPT ![np[s]] = s]
  /\ Goto(s, "fn_run")
  /\ UNCHANGED <<state, pid, chan, killed, xstate, xstatus, locks, cpu, nextpid,
                 idx, np, havekids, own>>

FnRun(s) ==
  /\ At(s, "fn_run")
  /\ pids' = [pids EXCEPT ![s] = @ \union {pid[np[s]]}]
  /\ state' = [state EXCEPT ![np[s]] = "RUNNABLE"]
  /\ plock' = [plock EXCEPT ![np[s]] = 0]
  /\ np' = [np EXCEPT ![s] = 0]
  /\ left' = [left EXCEPT ![s] = @ - 1]
  /\ Goto(s, "fn_alloc")
  /\ UNCHANGED <<pid, parent, chan, killed, xstate, xstatus, wait_lock, cpu,
                 nextpid, idx, havekids, count, found, expected_n>>

FnReturn(s) ==
  /\ \/ At(s, "fn_alloc") /\ left[s] = 0
     \/ At(s, "fn_kill") /\ pids[s] = {}
  /\ pids' = [pids EXCEPT ![s] = {}]
  /\ Goto(s, "user")
  /\ UNCHANGED <<table, locks, cpu, nextpid, idx, np, havekids, left, count,
                 found, expected_n>>

\* kill(pids[j]) for the children made before the failure; none of them can be
\* gone, for their parent is not in wait().
FnKill(s, t) ==
  /\ At(s, "fn_kill") /\ plock[t] = 0
  /\ pid[t] \in pids[s]
  /\ killed' = [killed EXCEPT ![t] = TRUE]
  /\ state' = IF state[t] = "SLEEPING"
              THEN [state EXCEPT ![t] = "RUNNABLE"] ELSE state
  /\ pids' = [pids EXCEPT ![s] = @ \ {pid[t]}]
  /\ UNCHANGED <<pid, parent, chan, xstate, xstatus, locks, cpu, nextpid,
                 thread, left, count, found, expected_n>>

----------------------------------------------------------------------------
(* waitall(). *)

WaitAll(s, n) ==
  /\ Syscall(s) /\ s # initproc
  /\ expected_n' = [expected_n EXCEPT ![s] = n]
  /\ Goto(s, "wa_lock")
  /\ UNCHANGED <<table, locks, cpu, nextpid, idx, np, havekids, left, pids,
                 count, found>>

WaLock(s) ==
  /\ At(s, "wa_lock") /\ wait_lock = 0
  /\ wait_lock' = s
  /\ idx' = [idx EXCEPT ![s] = 1]
  /\ Goto(s, "wa_scan")
  /\ UNCHANGED <<table, plock, cpu, nextpid, np, havekids, own>>

\* Mutant: waitall() looks at the slot without pp->lock.
MutWaScan(s) ==
  /\ At(s, "wa_scan") /\ idx[s] <= NPROC
  /\ IF parent[idx[s]] = s /\ state[idx[s]] = "ZOMBIE"
     THEN /\ found' = [found EXCEPT ![s] = TRUE]
          /\ count' = [count EXCEPT ![s] = @ + 1]
          /\ Goto(s, "wa_free")
          /\ UNCHANGED idx
     ELSE /\ idx' = [idx EXCEPT ![s] = @ + 1]
          /\ UNCHANGED <<pc, found, count>>
  /\ UNCHANGED <<table, locks, cpu, nextpid, np, havekids, left, pids,
                 expected_n>>

\* Mutant: waitall() does not ask whose child the zombie is.
MutWaScanAny(s) ==
  /\ At(s, "wa_scan") /\ idx[s] <= NPROC /\ plock[idx[s]] = 0
  /\ IF state[idx[s]] = "ZOMBIE"
     THEN /\ found' = [found EXCEPT ![s] = TRUE]
          /\ count' = [count EXCEPT ![s] = @ + 1]
          /\ Goto(s, "wa_free")
          /\ UNCHANGED idx
     ELSE /\ idx' = [idx EXCEPT ![s] = @ + 1]
          /\ UNCHANGED <<pc, found, count>>
  /\ UNCHANGED <<table, locks, cpu, nextpid, np, havekids, left, pids,
                 expected_n>>

\* One turn of the scan, which takes the lock of every slot.
WaScan(s) ==
  /\ At(s, "wa_scan") /\ idx[s] <= NPROC /\ plock[idx[s]] = 0
  /\ IF parent[idx[s]] = s /\ state[idx[s]] = "ZOMBIE"
     THEN /\ found' = [found EXCEPT ![s] = TRUE]
          /\ count' = [count EXCEPT ![s] = @ + 1]
          /\ Goto(s, "wa_free")
          /\ UNCHANGED idx
     ELSE /\ idx' = [idx EXCEPT ![s] = @ + 1]
          /\ UNCHANGED <<pc, found, count>>
  /\ UNCHANGED <<table, locks, cpu, nextpid, np, havekids, left, pids,
                 expected_n>>

\* Mutant: waitall() leaves the zombies in the table.
MutWaFreeNone(s) ==
  /\ At(s, "wa_free")
  /\ idx' = [idx EXCEPT ![s] = @ + 1]
  /\ Goto(s, "wa_scan")
  /\ UNCHANGED <<table, locks, cpu, nextpid, np, havekids, own>>

\* freeproc(pp), after release(&pp->lock).  Its last store is the one to
\* pp->state, so to the other processors it is one step.
WaFree(s) ==
  /\ At(s, "wa_free")
  /\ freeproc(idx[s])
  /\ idx' = [idx EXCEPT ![s] = @ + 1]
  /\ Goto(s, "wa_scan")
  /\ UNCHANGED <<locks, cpu, nextpid, np, havekids, own>>

Enough(s) == count[s] >= expected_n[s] \/ ~found[s]

\* The loop is left, count goes to user space, and the locals are gone.
WaReturn(s) ==
  /\ At(s, "wa_scan") /\ idx[s] > NPROC /\ Enough(s)
  /\ wait_lock' = 0
  /\ idx' = [idx EXCEPT ![s] = 0]
  /\ count' = [count EXCEPT ![s] = 0]
  /\ found' = [found EXCEPT ![s] = FALSE]
  /\ expected_n' = [expected_n EXCEPT ![s] = 0]
  /\ Goto(s, "user")
  /\ UNCHANGED <<table, plock, cpu, nextpid, np, havekids, left, pids>>

\* sleep(p, &wait_lock), up to the switch in sched().
WaSleep(s) ==
  /\ At(s, "wa_scan") /\ idx[s] > NPROC /\ ~Enough(s)
  /\ plock[s] = 0
  /\ plock' = [plock EXCEPT ![s] = s]
  /\ wait_lock' = 0
  /\ chan' = [chan EXCEPT ![s] = s]
  /\ state' = [state EXCEPT ![s] = "SLEEPING"]
  /\ idx' = [idx EXCEPT ![s] = 0]
  /\ found' = [found EXCEPT ![s] = FALSE]
  /\ Goto(s, "wa_lock")
  /\ UNCHANGED <<pid, parent, killed, xstate, xstatus, cpu, nextpid, np,
                 havekids, left, pids, count, expected_n>>

\* yield() between two children of forkn().
FnYield(s) ==
  /\ pc[s] \in {"fn_alloc", "fn_kill"}
  /\ Preempt(s)
  /\ UNCHANGED own

----------------------------------------------------------------------------

AllNext ==
  \/ Next /\ UNCHANGED own
  \/ \E s, t \in Slots : FnAlloc(s, t) \/ FnKill(s, t)
  \/ \E s \in Slots :
       \/ \E n \in ForkCounts : ForkN(s, n)
       \/ FnFails(s) \/ FnParent(s) \/ FnRun(s) \/ FnReturn(s) \/ FnYield(s)
       \/ \E n \in WaitCounts : WaitAll(s, n)
       \/ WaLock(s) \/ WaScan(s) \/ WaFree(s) \/ WaReturn(s) \/ WaSleep(s)

AllSpec == AllInit /\ [][AllNext]_allvars

----------------------------------------------------------------------------
(* Properties. *)

\* waitall() never writes past local_statuses[NPROC], however often it scans:
\* each status it has collected and each child it still has is a process of
\* its own, and so are the caller and init.
StatusesFit ==
  \A s \in Slots :
    pc[s] \in {"wa_lock", "wa_scan"} =>
      count[s] + Cardinality(Children(s)) + 2 <= NPROC

\* A zombie leaves the table by its own parent's hand, in wait() or waitall().
OnlyParentReaps ==
  [][\A t \in Slots :
       state[t] = "ZOMBIE" /\ state'[t] = "UNUSED" =>
         \E s \in Slots : /\ parent[t] = s /\ Running(s)
                          /\ pc[s] \in {"wait_scan", "wa_free"}]_allvars

\* The thread that holds the lock for which s spins, or 0.
Spins(s) ==
  CASE pc[s] \in {"fork_parent", "exit_lock", "wait_lock", "fn_parent", "wa_lock"}
         -> wait_lock
    [] pc[s] \in {"wake_init", "wake_parent", "wa_scan"} /\ idx[s] \in Slots
         -> plock[idx[s]]
    [] pc[s] = "wait_scan" /\ NextKid(s) # 0 -> plock[NextKid(s)]
    [] pc[s] \in {"zombie", "wait_sleep"} -> plock[s]
    [] OTHER -> 0

\* Two processors never wait for each other's locks: "must be acquired before
\* any p->lock", says the comment on wait_lock at the top of proc.c.
NoLockCycle ==
  \A s, t \in Slots :
    s # t /\ Running(s) /\ Running(t) => ~(Spins(s) = t /\ Spins(t) = s)
=============================================================================
