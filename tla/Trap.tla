-------------------------------- MODULE Trap --------------------------------
(* Spinlocks, interrupts and the switch between threads: spinlock.c, trap.c,   *)
(* and sched(), yield(), sleep(), wakeup(), scheduler() and forkret() of       *)
(* proc.c, under sys_sleep() and sys_uptime().  Assignment2's copy.            *)
(*                                                                            *)
(* A processor runs a context: a task (the kernel or user thread of a process) *)
(* or its own scheduler.  A step never crosses an acquire(): push_off() is a    *)
(* step, and the swap that takes the lock another.  A release() is in the same  *)
(* step as what it follows.  The tasks are there from the start and never exit. *)
EXTENDS Naturals, FiniteSets

CONSTANTS NTASK,         \* processes
          Cpus, NoCpu,
          BootCpu        \* the one whose cpuid() is 0: its timer counts the ticks

ASSUME TrapCpus == NTASK \in Nat \ {0} /\ BootCpu \in Cpus /\ NoCpu \notin Cpus /\ Cpus \cap (1..NTASK) = {}

VARIABLES
  hart,      \* hart[c]: struct cpu: noff, intena, and intr: the interrupt enable bit
  running,  \* running[c]: the context that runs on c
  owner,    \* owner[l]: lk->cpu of lock l
  lab,      \* lab[x]: where context x is
  want,     \* want[x]: the lock that x spins for, or NoLock
  trapped,  \* trapped[x]: where x was interrupted, or "no"
  saved,    \* saved[x]: intena, the local variable of sched()
  who,      \* who[x]: p, the loop variable of wakeup()
  scan,     \* scan[c]: p, the loop variable of scheduler()
  tstate,   \* tstate[t]: p->state
  due,      \* the tasks for which ticks - ticks0 >= n
  panicked

tvars == <<hart, running, owner, lab, want, trapped, saved, who, scan, tstate, due, panicked>>

Tasks == 1..NTASK
Contexts == Tasks \cup Cpus
tickslock == 0                \* lock t is p->lock of task t
NoLock == NTASK + 1
Locks == {tickslock} \cup Tasks

TrapInit ==
  /\ hart = [c \in Cpus |-> [noff |-> 0, intena |-> FALSE, intr |-> FALSE]]
  /\ running = [c \in Cpus |-> c]
  /\ owner = [l \in Locks |-> NoCpu]
  /\ lab = [x \in Contexts |-> IF x \in Cpus THEN "loop" ELSE "forkret"]
  /\ want = [x \in Contexts |-> NoLock]
  /\ trapped = [x \in Contexts |-> "no"]
  /\ saved = [t \in Tasks |-> FALSE]
  /\ who = [x \in Contexts |-> 1] /\ scan = [c \in Cpus |-> 1]
  /\ tstate = [t \in Tasks |-> "RUNNABLE"]
  /\ due = {} /\ panicked = FALSE

Is(c, l) == lab[running[c]] = l
Goes(c, l) == lab' = [lab EXCEPT ![running[c]] = l]

----------------------------------------------------------------------------
(* spinlock.c *)

MutPushOff(r) == [r EXCEPT !.noff = @ + 1, !.intena = IF r.noff = 0 THEN r.intr ELSE @]
PushOff(r) == [noff |-> r.noff + 1, intena |-> IF r.noff = 0 THEN r.intr ELSE r.intena,
               intr |-> FALSE]
PopOff(r) == [r EXCEPT !.noff = @ - 1, !.intr = @ \/ (r.noff = 1 /\ r.intena)]

\* The lock that is acquired at a label, and the label after it.
LockAt(c) ==
  LET x == running[c] IN
  CASE lab[x] \in {"tick", "uptime", "sleep", "again"} -> tickslock
    [] lab[x] \in {"chan", "yield"}                    -> x
    [] lab[x] = "wake"                                 -> who[x]
    [] lab[x] = "scan"                                 -> scan[c]
    [] OTHER                                           -> NoLock
Then == [tick |-> "ticking", uptime |-> "reading", sleep |-> "start", again |-> "test",
         chan |-> "sleeping", yield |-> "yielding", wake |-> "waking", scan |-> "scanning"]

AcquirePush(c) ==
  /\ LockAt(c) # NoLock /\ want[running[c]] = NoLock
  /\ hart' = [hart EXCEPT ![c] = PushOff(@)]
  /\ want' = [want EXCEPT ![running[c]] = LockAt(c)]
  /\ panicked' = (panicked \/ owner[LockAt(c)] = c)
  /\ UNCHANGED <<running, owner, lab, trapped, saved, who, scan, tstate, due>>

AcquireSwap(c) ==
  LET l == want[running[c]] IN
  /\ l # NoLock /\ l = LockAt(c) /\ owner[l] = NoCpu
  /\ owner' = [owner EXCEPT ![l] = c]
  /\ want' = [want EXCEPT ![running[c]] = NoLock]
  /\ Goes(c, Then[lab[running[c]]])
  /\ UNCHANGED <<hart, running, trapped, saved, who, scan, tstate, due, panicked>>

\* release() of l by a processor in state r.
Release(c, l, r) ==
  /\ owner' = [owner EXCEPT ![l] = NoCpu]
  /\ hart' = [hart EXCEPT ![c] = PopOff(r)]
  /\ panicked' = (panicked \/ owner[l] # c \/ r.noff < 1 \/ r.intr)

----------------------------------------------------------------------------
(* trap.c *)

\* A timer interrupt: usertrap() or kerneltrap(), and devintr().
Interrupt(c) ==
  LET x == running[c] IN
  /\ hart[c].intr
  /\ hart' = [hart EXCEPT ![c].intr = FALSE]
  /\ trapped' = [trapped EXCEPT ![x] = lab[x]]
  /\ Goes(c, IF c = BootCpu THEN "tick" ELSE "handled")
  /\ panicked' = (panicked \/ trapped[x] # "no")
  /\ UNCHANGED <<running, owner, want, saved, who, scan, tstate, due>>

\* wakeup(&ticks) goes over all processes but myproc().
Others(c, from) == {t \in Tasks : t >= from /\ t # running[c]}
NextOther(c, from) ==
  LET S == Others(c, from) IN
  IF S = {} THEN Goes(c, "ticked") /\ UNCHANGED who
  ELSE /\ Goes(c, "wake")
       /\ who' = [who EXCEPT ![running[c]] = CHOOSE t \in S : \A u \in S : t <= u]

Clockintr(c) ==
  /\ Is(c, "ticking")
  /\ \E S \in SUBSET Tasks : due' = due \cup S
  /\ NextOther(c, 1)
  /\ UNCHANGED <<hart, running, owner, want, trapped, saved, scan, tstate, panicked>>

WakeupOne(c) ==
  LET t == who[running[c]] IN
  /\ Is(c, "waking")
  /\ tstate' = [tstate EXCEPT ![t] = IF @ = "SLEEPING" THEN "RUNNABLE" ELSE @]
  /\ Release(c, t, hart[c])
  /\ NextOther(c, t + 1)
  /\ UNCHANGED <<running, want, trapped, saved, scan, due>>

ClockEnd(c) ==
  /\ Is(c, "ticked")
  /\ Release(c, tickslock, hart[c])
  /\ Goes(c, "handled")
  /\ UNCHANGED <<running, want, trapped, saved, who, scan, tstate, due>>

\* A return to where the trap came from, by sret, which enables interrupts.
Sret(c, r) ==
  /\ Goes(c, trapped[running[c]])
  /\ trapped' = [trapped EXCEPT ![running[c]] = "no"]
  /\ hart' = [hart EXCEPT ![c] = [r EXCEPT !.intr = TRUE]]

\* It was the timer: a task gives up the processor, the scheduler goes on.
Handled(c) ==
  /\ Is(c, "handled")
  /\ IF running[c] \in Tasks THEN Goes(c, "yield") /\ UNCHANGED <<trapped, hart>>
     ELSE Sret(c, hart[c])
  /\ UNCHANGED <<running, owner, want, saved, who, scan, tstate, due, panicked>>

\* A system call: usertrap() enables interrupts before syscall().
SyscallTrap(c) ==
  /\ Is(c, "user")
  /\ \E l \in {"uptime", "sleep"} : Goes(c, l)
  /\ UNCHANGED <<hart, running, owner, want, trapped, saved, who, scan, tstate, due, panicked>>

Usertrapret(c) ==
  /\ Is(c, "sysret")
  /\ Goes(c, "user")
  /\ hart' = [hart EXCEPT ![c].intr = TRUE]
  /\ UNCHANGED <<running, owner, want, trapped, saved, who, scan, tstate, due, panicked>>

----------------------------------------------------------------------------
(* sysproc.c *)

\* sys_uptime() reads ticks and is done.
SysUptime(c) ==
  /\ Is(c, "reading")
  /\ Release(c, tickslock, hart[c])
  /\ Goes(c, "sysret")
  /\ UNCHANGED <<running, want, trapped, saved, who, scan, tstate, due>>

\* sys_sleep(): ticks0 = ticks, and then the loop.
SleepStart(c) ==
  /\ Is(c, "start")
  /\ due' = due \ {running[c]}
  /\ Goes(c, "test")
  /\ UNCHANGED <<hart, running, owner, want, trapped, saved, who, scan, tstate, panicked>>

\* The time has come, or the process has been killed, which may be at any time; or
\* it goes to sleep.
SleepTest(c) ==
  /\ Is(c, "test")
  /\ \/ Release(c, tickslock, hart[c]) /\ Goes(c, "sysret")
     \/ running[c] \notin due /\ Goes(c, "chan") /\ UNCHANGED <<owner, hart, panicked>>
  /\ UNCHANGED <<running, want, trapped, saved, who, scan, tstate, due>>

----------------------------------------------------------------------------
(* proc.c *)

\* sched() on a processor in state r, with its four tests, up to swtch().
Sched(c, s, r, back) ==
  LET t == running[c] IN
  /\ tstate' = [tstate EXCEPT ![t] = s]
  /\ saved' = [saved EXCEPT ![t] = r.intena]
  /\ running' = [running EXCEPT ![c] = c]
  /\ Goes(c, back)
  /\ hart' = [hart EXCEPT ![c] = r]
  /\ panicked' = (panicked \/ owner[t] # c \/ r.noff # 1 \/ s = "RUNNING" \/ r.intr)

YieldSched(c) ==
  /\ Is(c, "yielding")
  /\ Sched(c, "RUNNABLE", hart[c], "back")
  /\ UNCHANGED <<owner, want, trapped, who, scan, due>>

\* sleep() has p->lock, so that tickslock can be released.
SleepSched(c) ==
  /\ Is(c, "sleeping")
  /\ owner' = [owner EXCEPT ![tickslock] = NoCpu]
  /\ Sched(c, "SLEEPING", PopOff(hart[c]), "woken")
  /\ UNCHANGED <<want, trapped, who, scan, due>>

\* Back from swtch(), on any processor: it gets the intena of this thread.
MutResumed(c) == hart[c]
Resumed(c) == [hart[c] EXCEPT !.intena = saved[running[c]]]

\* yield() is always the end of a trap here.
YieldBack(c) ==
  LET r == Resumed(c) IN
  /\ Is(c, "back")
  /\ owner' = [owner EXCEPT ![running[c]] = NoCpu]
  /\ Sret(c, PopOff(r))
  /\ panicked' = (panicked \/ owner[running[c]] # c \/ r.noff < 1 \/ PopOff(r).intr)
  /\ UNCHANGED <<running, want, saved, who, scan, tstate, due>>

SleepBack(c) ==
  /\ Is(c, "woken")
  /\ Release(c, running[c], Resumed(c))
  /\ Goes(c, "again")
  /\ UNCHANGED <<running, want, trapped, saved, who, scan, tstate, due>>

Forkret(c) ==
  /\ Is(c, "forkret")
  /\ Release(c, running[c], hart[c])
  /\ Goes(c, "sysret")
  /\ UNCHANGED <<running, want, trapped, saved, who, scan, tstate, due>>

\* scheduler(): a round over the table begins with intr_on().
ScheduleRound(c) ==
  /\ Is(c, "loop")
  /\ hart' = [hart EXCEPT ![c].intr = TRUE]
  /\ Goes(c, "scan")
  /\ UNCHANGED <<running, owner, want, trapped, saved, who, scan, tstate, due, panicked>>

NextTask(c) ==
  /\ Release(c, scan[c], hart[c])
  /\ scan' = [scan EXCEPT ![c] = IF @ = NTASK THEN 1 ELSE @ + 1]
  /\ Goes(c, IF scan[c] = NTASK THEN "loop" ELSE "scan")

ScheduleScan(c) ==
  LET t == scan[c] IN
  /\ Is(c, "scanning")
  /\ IF tstate[t] = "RUNNABLE"
     THEN /\ tstate' = [tstate EXCEPT ![t] = "RUNNING"]
          /\ running' = [running EXCEPT ![c] = t]
          /\ Goes(c, "switched")
          /\ UNCHANGED <<owner, hart, panicked, scan>>
     ELSE NextTask(c) /\ UNCHANGED <<tstate, running>>
  /\ UNCHANGED <<want, trapped, saved, who, due>>

ScheduleBack(c) ==
  /\ Is(c, "switched")
  /\ NextTask(c)
  /\ UNCHANGED <<running, want, trapped, saved, who, tstate, due>>

TrapNext == \E c \in Cpus :
  \/ AcquirePush(c) \/ AcquireSwap(c) \/ Interrupt(c) \/ Clockintr(c) \/ WakeupOne(c) \/ ClockEnd(c)
  \/ Handled(c) \/ SyscallTrap(c) \/ Usertrapret(c) \/ SysUptime(c) \/ SleepStart(c) \/ SleepTest(c)
  \/ YieldSched(c) \/ SleepSched(c) \/ YieldBack(c) \/ SleepBack(c) \/ Forkret(c)
  \/ ScheduleRound(c) \/ ScheduleScan(c) \/ ScheduleBack(c)

TrapSpec == TrapInit /\ [][TrapNext]_tvars

----------------------------------------------------------------------------
(* Properties. *)

\* None of the panics of acquire(), release(), pop_off(), sched() and kerneltrap():
\* no processor waits for a lock that it holds itself, whatever it was doing when
\* it was interrupted, and nobody gives up the processor with a lock.
NoTrapPanic == ~panicked

\* A thread has its interrupts on exactly when it is in no critical section and
\* in no handler, wherever it has run in between; noff counts its critical sections;
\* who sleeps for a tick that has come has the clock on its way.
InterruptsRestored ==
  /\ \A c \in Cpus :
       LET x == running[c]
           held == Cardinality({l \in Locks : owner[l] = c})
       IN
       /\ hart[c].noff = held + (IF want[x] = NoLock THEN 0 ELSE 1)
       /\ hart[c].intr => hart[c].noff = 0 /\ trapped[x] = "no"
       /\ x \in Tasks /\ hart[c].noff = 0 /\ trapped[x] = "no" /\ lab[x] # "sysret" => hart[c].intr
  /\ \A t \in Tasks : tstate[t] = "SLEEPING" /\ t \in due => owner[tickslock] = BootCpu
=============================================================================
