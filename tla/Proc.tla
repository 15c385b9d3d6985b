-------------------------------- MODULE Proc --------------------------------
(***************************************************************************)
(* Processes (kernel/proc.c of Assignment1_2): the process table, the      *)
(* scheduler's handing over of p->lock, sleep and wakeup, fork, exit, wait *)
(* and kill, with the killed checks of kernel/trap.c.                      *)
(* A step goes from one acquire() up to the next: everything a thread does *)
(* under a lock it has just taken, and the releases after it, are one step *)
(* unless another lock is taken meanwhile.  A process is its slot of the   *)
(* table, 1 being init, and 0 stands for the null pointer.                 *)
(***************************************************************************)
EXTENDS Integers, FiniteSets

CONSTANTS
  NPROC,        \* param.h: slots of the process table
  CPUs,         \* the processors
  MaxPid,       \* bound: process IDs handed out before fork stops
  KillPids,     \* the IDs user programs give to kill()
  Statuses      \* the values user programs give to exit()

ASSUME ProcConstants ==
  /\ NPROC \in Nat \ {0}
  /\ MaxPid \in Nat \ {0}
  /\ KillPids \subseteq Int
  /\ 0 \in Statuses

Slots == 1..NPROC
initproc == 1

VARIABLES
  state, pid, parent, chan, killed, xstate, xstatus,  \* struct proc
  plock,        \* the thread that holds each p->lock, or 0
  wait_lock,    \* the thread that holds wait_lock, or 0
  cpu,          \* c->proc
  nextpid,
  pc,           \* where a thread is in the kernel, or "user"
  idx,          \* the loop index of wait() and wakeup()
  np,           \* the child a fork is making, the victim of a kill
  havekids

table == <<state, pid, parent, chan, killed, xstate, xstatus>>
locks == <<plock, wait_lock>>
thread == <<pc, idx, np, havekids>>
vars == <<table, locks, cpu, nextpid, thread>>

Init ==
  /\ state = [s \in Slots |-> IF s = initproc THEN "RUNNABLE" ELSE "UNUSED"]
  /\ pid = [s \in Slots |-> IF s = initproc THEN 1 ELSE 0]
  /\ parent = [s \in Slots |-> 0]
  /\ chan = [s \in Slots |-> 0]
  /\ killed = [s \in Slots |-> FALSE]
  /\ xstate = [s \in Slots |-> 0]
  /\ xstatus = [s \in Slots |-> 0]
  /\ plock = [s \in Slots |-> 0]
  /\ wait_lock = 0
  /\ cpu = [c \in CPUs |-> 0]
  /\ nextpid = 2
  /\ pc = [s \in Slots |-> "user"]
  /\ idx = [s \in Slots |-> 0]
  /\ np = [s \in Slots |-> 0]
  /\ havekids = [s \in Slots |-> FALSE]

Running(s) == state[s] = "RUNNING" /\ \E c \in CPUs : cpu[c] = s
At(s, label) == Running(s) /\ pc[s] = label
Goto(s, label) == pc' = [pc EXCEPT ![s] = label]

\* usertrap() found killed(p) false and dispatched a system call.
Syscall(s) == At(s, "user") /\ plock[s] = 0 /\ ~killed[s]

\* The slot of a set that a scan of the table comes to first, or 0.
First(S) == IF S = {} THEN 0 ELSE CHOOSE t \in S : \A u \in S : t <= u

Children(s) == {t \in Slots : parent[t] = s}

----------------------------------------------------------------------------
(* scheduler(), sched(), yield(). *)

\* The scheduler takes p->lock and switches to p, which ends its sched():
\* it tidies up p->chan if it slept, and releases p->lock.
Dispatch(c, s) ==
  /\ cpu[c] = 0
  /\ plock[s] = 0 /\ state[s] = "RUNNABLE"
  /\ cpu' = [cpu EXCEPT ![c] = s]
  /\ state' = [state EXCEPT ![s] = "RUNNING"]
  /\ chan' = [chan EXCEPT ![s] = 0]
  /\ UNCHANGED <<pid, parent, killed, xstate, xstatus, locks, nextpid, thread>>

\* The thread is in sched(); the scheduler takes over and releases p->lock.
SwitchOut(c) ==
  /\ cpu[c] # 0 /\ state[cpu[c]] # "RUNNING"
  /\ plock' = [plock EXCEPT ![cpu[c]] = 0]
  /\ cpu' = [cpu EXCEPT ![c] = 0]
  /\ UNCHANGED <<table, wait_lock, nextpid, thread>>

\* yield(), for a thread that a timer interrupt stops.
Preempt(s) ==
  /\ Running(s) /\ plock[s] = 0
  /\ plock' = [plock EXCEPT ![s] = s]
  /\ state' = [state EXCEPT ![s] = "RUNNABLE"]
  /\ UNCHANGED <<pid, parent, chan, killed, xstate, xstatus, wait_lock, cpu,
                 nextpid, thread>>

\* Interrupts are off while a thread holds a spinlock, and while it spins for
\* wait_lock in wait().
Yield(s) ==
  /\ pc[s] \in {"user", "fork_parent", "fork_run", "exit_lock"}
  /\ Preempt(s)

----------------------------------------------------------------------------
(* fork(). *)

\* freeproc(t): a field it forgets is xstatus.
freeproc(t) ==
  /\ pid' = [pid EXCEPT ![t] = 0]
  /\ parent' = [parent EXCEPT ![t] = 0]
  /\ chan' = [chan EXCEPT ![t] = 0]
  /\ killed' = [killed EXCEPT ![t] = FALSE]
  /\ xstate' = [xstate EXCEPT ![t] = 0]
  /\ state' = [state EXCEPT ![t] = "UNUSED"]
  /\ UNCHANGED xstatus

\* allocproc() and the copying, under np->lock.  The child will start in
\* forkret(), which returns to user space.
Fork(s, t) ==
  /\ Syscall(s)
  /\ nextpid <= MaxPid
  /\ plock[t] = 0 /\ state[t] = "UNUSED"
  /\ state' = [state EXCEPT ![t] = "USED"]
  /\ pid' = [pid EXCEPT ![t] = nextpid]
  /\ nextpid' = nextpid + 1
  /\ np' = [np EXCEPT ![s] = t]
  /\ pc' = [pc EXCEPT ![s] = "fork_parent", ![t] = "user"]
  /\ UNCHANGED <<parent, chan, killed, xstate, xstatus, locks, cpu, idx, havekids>>

\* A page allocation fails: freeproc() undoes all but the process ID.
ForkFails(s, t) ==
  /\ Syscall(s)
  /\ nextpid <= MaxPid
  /\ plock[t] = 0 /\ state[t] = "UNUSED"
  /\ nextpid' = nextpid + 1
  /\ freeproc(t)
  /\ UNCHANGED <<locks, cpu, thread>>

ForkParent(s) ==
  /\ At(s, "fork_parent") /\ wait_lock = 0
  /\ parent' = [parent EXCEPT ![np[s]] = s]
  /\ Goto(s, "fork_run")
  /\ UNCHANGED <<state, pid, chan, killed, xstate, xstatus, locks, cpu, nextpid,
                 idx, np, havekids>>

ForkRun(s) ==
  /\ At(s, "fork_run") /\ plock[np[s]] = 0
  /\ state' = [state EXCEPT ![np[s]] = "RUNNABLE"]
  /\ Goto(s, "user")
  /\ np' = [np EXCEPT ![s] = 0]
  /\ UNCHANGED <<pid, parent, chan, killed, xstate, xstatus, locks, cpu, nextpid,
                 idx, havekids>>

----------------------------------------------------------------------------
(* exit(). *)

\* sys_exit() and exit_num().
ExitNum(s, status) ==
  /\ Syscall(s) /\ s # initproc
  /\ xstatus' = [xstatus EXCEPT ![s] = status]
  /\ Goto(s, "exit_lock")
  /\ UNCHANGED <<state, pid, parent, chan, killed, xstate, locks, cpu, nextpid,
                 idx, np, havekids>>

\* exit() from sys_exitmsg(), or from usertrap() when p has been killed.
Exit(s) ==
  /\ At(s, "user") /\ plock[s] = 0 /\ s # initproc
  /\ Goto(s, "exit_lock")
  /\ UNCHANGED <<table, locks, cpu, nextpid, idx, np, havekids>>

\* Mutant: exit() does not call reparent().
MutExitLock(s) ==
  /\ At(s, "exit_lock") /\ wait_lock = 0
  /\ wait_lock' = s
  /\ Goto(s, "wake_parent")
  /\ idx' = [idx EXCEPT ![s] = 1]
  /\ UNCHANGED <<table, plock, cpu, nextpid, np, havekids>>

ExitLock(s) ==
  /\ At(s, "exit_lock") /\ wait_lock = 0
  /\ wait_lock' = s
  /\ Goto(s, "reparent")
  /\ UNCHANGED <<table, plock, cpu, nextpid, idx, np, havekids>>

\* Mutant: reparent() does not wake init.
MutReparent(s) ==
  /\ At(s, "reparent")
  /\ LET child == First(Children(s))
     IN  IF child # 0
         THEN /\ parent' = [parent EXCEPT ![child] = initproc]
              /\ UNCHANGED pc
         ELSE /\ Goto(s, "wake_parent")
              /\ UNCHANGED parent
  /\ idx' = [idx EXCEPT ![s] = 1]
  /\ UNCHANGED <<state, pid, chan, killed, xstate, xstatus, locks, cpu, nextpid,
                 np, havekids>>

\* One turn of reparent(), up to its wakeup(initproc); or its end.
Reparent(s) ==
  /\ At(s, "reparent")
  /\ LET child == First(Children(s))
     IN  IF child # 0
         THEN /\ parent' = [parent EXCEPT ![child] = initproc]
              /\ Goto(s, "wake_init")
         ELSE /\ Goto(s, "wake_parent")
              /\ UNCHANGED parent
  /\ idx' = [idx EXCEPT ![s] = 1]
  /\ UNCHANGED <<state, pid, chan, killed, xstate, xstatus, locks, cpu, nextpid,
                 np, havekids>>

\* One turn of the loop of wakeup(channel); done is where it returns to.
Wakeup(s, label, channel, done) ==
  /\ At(s, label)
  /\ LET t == idx[s] IN
     /\ t # s => plock[t] = 0
     /\ state' = IF t # s /\ state[t] = "SLEEPING" /\ chan[t] = channel
                 THEN [state EXCEPT ![t] = "RUNNABLE"] ELSE state
     /\ IF t = NPROC
        THEN Goto(s, done) /\ idx' = [idx EXCEPT ![s] = 0]
        ELSE idx' = [idx EXCEPT ![s] = t + 1] /\ UNCHANGED pc
  /\ UNCHANGED <<pid, parent, chan, killed, xstate, xstatus, locks, cpu, nextpid,
                 np, havekids>>

WakeInit(s) == Wakeup(s, "wake_init", initproc, "reparent")
\* Mutant: exit() wakes those that wait on its own channel.
MutWakeParent(s) == Wakeup(s, "wake_parent", s, "zombie")

WakeParent(s) == Wakeup(s, "wake_parent", parent[s], "zombie")

\* The rest of exit(), up to the switch in sched().
ExitZombie(s) ==
  /\ At(s, "zombie") /\ plock[s] = 0
  /\ plock' = [plock EXCEPT ![s] = s]
  /\ xstate' = [xstate EXCEPT ![s] = 0]
  /\ state' = [state EXCEPT ![s] = "ZOMBIE"]
  /\ wait_lock' = 0
  /\ Goto(s, "user")
  /\ UNCHANGED <<pid, parent, chan, killed, xstatus, cpu, nextpid, idx, np,
                 havekids>>

----------------------------------------------------------------------------
(* wait(). *)

WaitCall(s) ==
  /\ Syscall(s)
  /\ Goto(s, "wait_lock")
  /\ UNCHANGED <<table, locks, cpu, nextpid, idx, np, havekids>>

\* The first acquire(), and the one that ends sleep(); a new scan begins.
WaitLock(s) ==
  /\ At(s, "wait_lock") /\ wait_lock = 0
  /\ wait_lock' = s
  /\ idx' = [idx EXCEPT ![s] = 1]
  /\ havekids' = [havekids EXCEPT ![s] = FALSE]
  /\ Goto(s, "wait_scan")
  /\ UNCHANGED <<table, plock, cpu, nextpid, np>>

NextKid(s) == First({t \in Children(s) : t >= idx[s]})

\* What copyout() gives the parent as the exit status of t.
WaitStatus(t) == xstate[t]

\* A scan ends, and with it wait().
Return(s) ==
  /\ wait_lock' = 0
  /\ idx' = [idx EXCEPT ![s] = 0]
  /\ havekids' = [havekids EXCEPT ![s] = FALSE]
  /\ Goto(s, "user")

\* Mutant: wait() looks at the child without pp->lock.
MutWaitReap(s) ==
  /\ At(s, "wait_scan")
  /\ LET t == NextKid(s) IN
     /\ t # 0
     /\ state[t] = "ZOMBIE"
     /\ freeproc(t)
  /\ Return(s)
  /\ UNCHANGED <<plock, cpu, nextpid, np>>

WaitReap(s) ==
  /\ At(s, "wait_scan")
  /\ LET t == NextKid(s) IN
     /\ t # 0 /\ plock[t] = 0
     /\ state[t] = "ZOMBIE"
     /\ freeproc(t)
  /\ Return(s)
  /\ UNCHANGED <<plock, cpu, nextpid, np>>

\* A copyout() fails: wait() returns -1, and the zombie stays.
WaitFault(s) ==
  /\ At(s, "wait_scan")
  /\ LET t == NextKid(s) IN
     /\ t # 0 /\ plock[t] = 0
     /\ state[t] = "ZOMBIE"
  /\ Return(s)
  /\ UNCHANGED <<table, plock, cpu, nextpid, np>>

\* Mutant: the loop of wait() advances pp twice.
MutWaitSkip(s) ==
  /\ At(s, "wait_scan")
  /\ LET t == NextKid(s) IN
     /\ t # 0 /\ plock[t] = 0
     /\ state[t] # "ZOMBIE"
     /\ idx' = [idx EXCEPT ![s] = t + 2]
  /\ havekids' = [havekids EXCEPT ![s] = TRUE]
  /\ UNCHANGED <<table, locks, cpu, nextpid, pc, np>>

WaitSkip(s) ==
  /\ At(s, "wait_scan")
  /\ LET t == NextKid(s) IN
     /\ t # 0 /\ plock[t] = 0
     /\ state[t] # "ZOMBIE"
     /\ idx' = [idx EXCEPT ![s] = t + 1]
  /\ havekids' = [havekids EXCEPT ![s] = TRUE]
  /\ UNCHANGED <<table, locks, cpu, nextpid, pc, np>>

\* Mutant: the test of havekids is the wrong way round.
MutWaitEnd(s) ==
  /\ At(s, "wait_scan") /\ NextKid(s) = 0
  /\ havekids[s] => plock[s] = 0
  /\ IF havekids[s] \/ killed[s]
     THEN Return(s)
     ELSE /\ Goto(s, "wait_sleep")
          /\ UNCHANGED <<wait_lock, idx, havekids>>
  /\ UNCHANGED <<table, plock, cpu, nextpid, np>>

\* The end of the scan: the check of killed(p), for a parent that has children.
WaitEnd(s) ==
  /\ At(s, "wait_scan") /\ NextKid(s) = 0
  /\ havekids[s] => plock[s] = 0
  /\ IF ~havekids[s] \/ killed[s]
     THEN Return(s)
     ELSE /\ Goto(s, "wait_sleep")
          /\ UNCHANGED <<wait_lock, idx, havekids>>
  /\ UNCHANGED <<table, plock, cpu, nextpid, np>>

\* sleep(p, &wait_lock), up to the switch in sched().
WaitSleep(s) ==
  /\ At(s, "wait_sleep") /\ plock[s] = 0
  /\ plock' = [plock EXCEPT ![s] = s]
  /\ wait_lock' = 0
  /\ chan' = [chan EXCEPT ![s] = s]
  /\ state' = [state EXCEPT ![s] = "SLEEPING"]
  /\ idx' = [idx EXCEPT ![s] = 0]
  /\ havekids' = [havekids EXCEPT ![s] = FALSE]
  /\ Goto(s, "wait_lock")
  /\ UNCHANGED <<pid, parent, killed, xstate, xstatus, cpu, nextpid, np>>

----------------------------------------------------------------------------
(* kill(). *)

\* Mutant: kill() releases p->lock before it marks p.
MutKillFind(s, t) ==
  /\ Syscall(s) /\ s # initproc
  /\ plock[t] = 0 /\ pid[t] \in KillPids
  /\ np' = [np EXCEPT ![s] = t]
  /\ Goto(s, "kill_mark")
  /\ UNCHANGED <<table, locks, cpu, nextpid, idx, havekids>>

\* The scan reaches a slot whose p->pid matches; p->lock is held.  User
\* programs kill, but init (user/init.c) does not.
KillFind(s, t) ==
  /\ Syscall(s) /\ s # initproc
  /\ plock[t] = 0 /\ pid[t] \in KillPids
  /\ plock' = [plock EXCEPT ![t] = s]
  /\ np' = [np EXCEPT ![s] = t]
  /\ Goto(s, "kill_mark")
  /\ UNCHANGED <<table, wait_lock, cpu, nextpid, idx, havekids>>

KillMark(s) ==
  /\ At(s, "kill_mark")
  /\ LET t == np[s] IN
     /\ killed' = [killed EXCEPT ![t] = TRUE]
     /\ state' = IF state[t] = "SLEEPING"
                 THEN [state EXCEPT ![t] = "RUNNABLE"] ELSE state
     /\ plock' = [plock EXCEPT ![t] = 0]
  /\ np' = [np EXCEPT ![s] = 0]
  /\ Goto(s, "user")
  /\ UNCHANGED <<pid, parent, chan, xstate, xstatus, wait_lock, cpu, nextpid,
                 idx, havekids>>

----------------------------------------------------------------------------

\* A thread goes on with a call it is in.
Continue(s) ==
  \/ ForkParent(s) \/ ForkRun(s)
  \/ ExitLock(s) \/ Reparent(s) \/ WakeInit(s) \/ WakeParent(s) \/ ExitZombie(s)
  \/ WaitLock(s) \/ WaitReap(s) \/ WaitSkip(s) \/ WaitEnd(s) \/ WaitSleep(s)
  \/ KillMark(s)

ExitCall(s) == Exit(s) \/ \E status \in Statuses : ExitNum(s, status)

Next ==
  \/ \E c \in CPUs : SwitchOut(c)
  \/ \E c \in CPUs, s \in Slots : Dispatch(c, s)
  \/ \E s, t \in Slots : Fork(s, t) \/ ForkFails(s, t) \/ KillFind(s, t)
  \/ \E s \in Slots : Yield(s) \/ ExitCall(s) \/ WaitCall(s) \/ WaitFault(s)
                      \/ Continue(s)

\* Spinlocks and the scheduler starve nobody for ever, the timer interrupts a
\* thread that computes, and init goes on calling wait() with addresses that
\* are good (user/init.c).
Fairness ==
  /\ \A c \in CPUs : WF_vars(SwitchOut(c))
  /\ \A s \in Slots : /\ SF_vars(\E c \in CPUs : Dispatch(c, s))
                      /\ WF_vars(Yield(s) /\ pc[s] = "user")
                      /\ SF_vars(Continue(s))
  /\ SF_vars(WaitCall(initproc)) /\ SF_vars(WaitReap(initproc))

Spec == Init /\ [][Next]_vars /\ Fairness

----------------------------------------------------------------------------
(* Properties. *)

States == {"UNUSED", "USED", "SLEEPING", "RUNNABLE", "RUNNING", "ZOMBIE"}
Exiting == {"reparent", "wake_init", "wake_parent", "zombie"}
Waiting == {"wait_scan", "wait_sleep"}
Labels == {"user", "fork_parent", "fork_run", "exit_lock", "wait_lock",
           "kill_mark"} \union Exiting \union Waiting

TypeOK ==
  /\ state \in [Slots -> States]
  /\ pid \in [Slots -> 0..MaxPid]
  /\ parent \in [Slots -> Slots \union {0}]
  /\ chan \in [Slots -> Slots \union {0}]
  /\ killed \in [Slots -> BOOLEAN]
  /\ xstate \in [Slots -> {0}]
  /\ xstatus \in [Slots -> Statuses]
  /\ plock \in [Slots -> Slots \union {0}]
  /\ wait_lock \in Slots \union {0}
  /\ cpu \in [CPUs -> Slots \union {0}]
  /\ nextpid \in 2..(MaxPid + 1)
  /\ pc \in [Slots -> Labels]
  /\ idx \in [Slots -> 0..(NPROC + 1)]
  /\ np \in [Slots -> Slots \union {0}]
  /\ havekids \in [Slots -> BOOLEAN]

\* A kernel stack in use is used by one processor, and is not freed under it:
\* the handing over of p->lock through swtch() sees to that.
StackSafe ==
  \A c \in CPUs : cpu[c] # 0 =>
    /\ state[cpu[c]] \notin {"UNUSED", "USED"}
    /\ \A d \in CPUs : cpu[d] = cpu[c] => d = c

\* No wakeup is lost: a parent asleep in wait() with a dead child is init, and
\* reparent() is about to wake it.
NoLostWakeup ==
  \A p, t \in Slots :
    state[p] = "SLEEPING" /\ chan[p] = p /\ parent[t] = p /\ state[t] = "ZOMBIE"
      => p = initproc /\ \E s \in Slots : pc[s] = "wake_init"

\* A process is killed only if kill() was given its ID (proc.h: "If non-zero,
\* have been killed"), though its slot had other users before.
KilledWasNamed ==
  \A s \in Slots : state[s] # "UNUSED" /\ killed[s] => pid[s] \in KillPids

\* wait() gives the parent the status that the child gave to exit().
WaitReportsStatus ==
  [][\A t \in Slots :
       state[t] = "ZOMBIE" /\ state'[t] = "UNUSED"
         => WaitStatus(t) = xstatus[t]]_vars

\* wait() returns -1 only to a process without children, to one that has been
\* killed, or when it has a dead child whose status it could not copy out.
WaitFailsHonestly ==
  [][\A s \in Slots :
       pc[s] = "wait_scan" /\ pc'[s] = "user" /\ UNCHANGED pid =>
         \/ Children(s) = {}
         \/ killed[s]
         \/ \E t \in Children(s) : state[t] = "ZOMBIE"]_vars

\* Every orphan that dies is collected by init.
OrphansReaped ==
  \A t \in Slots :
    state[t] = "ZOMBIE" /\ parent[t] = initproc ~> state[t] = "UNUSED"

----------------------------------------------------------------------------
(* The process tree. *)

SlotOf(p) == {s \in Slots : pid[s] = p}

\* What has become of process ID p, by the slot that has it.
LifeIn(s) ==
  CASE state[s] = "USED" -> "embryo"
    [] state[s] = "ZOMBIE" -> "zombie"
    [] pc[s] \in Exiting -> "exiting"
    [] OTHER -> "live"

LifeOf(p) ==
  IF p >= nextpid THEN "unborn"
  ELSE IF SlotOf(p) = {} THEN "gone"
  ELSE LifeIn(CHOOSE s \in SlotOf(p) : TRUE)

\* exit() has given the children away as soon as it has wait_lock.
HeirOf(s) == IF s # 0 /\ pc[s] \in Exiting THEN initproc ELSE s

ParentOf(p) ==
  IF SlotOf(p) = {} THEN 0
  ELSE LET h == HeirOf(parent[CHOOSE s \in SlotOf(p) : TRUE])
       IN  IF h = 0 THEN 0 ELSE pid[h]

Tree == INSTANCE ProcTree WITH
  Pids <- 1..MaxPid, InitPid <- 1,
  life <- [p \in 1..MaxPid |-> LifeOf(p)],
  parent <- [p \in 1..MaxPid |-> ParentOf(p)]

\* The kernel keeps the promises of the process tree.
ProcTreeSpec == Tree!Spec
=============================================================================
