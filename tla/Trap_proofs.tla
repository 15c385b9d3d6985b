---------------------------- MODULE Trap_proofs ----------------------------
(***************************************************************************)
(* Proofs about spinlocks and interrupts: no panic of acquire(), release(),*)
(* pop_off(), sched() or kerneltrap() is ever met, and every thread gets   *)
(* its interrupts back, on whatever processor it goes on.                  *)
(***************************************************************************)
EXTENDS Trap, Integers, FiniteSetTheorems, WellFoundedInduction, TLAPS

\* Labels in a handler, where the context has been interrupted; labels where
\* ticks is locked, those where a task has its own p->lock, and those where
\* scheduler() has the lock of the task it looks at.
Handler == {"tick", "ticking", "wake", "waking", "ticked", "handled", "yield", "yielding", "back"}
WithTicks == {"ticking", "wake", "waking", "ticked", "reading", "start", "test", "chan", "sleeping"}
WithOwn == {"yielding", "back", "woken", "forkret", "sleeping"}
WithScan == {"scanning", "switched"}
\* Labels where no lock is held, and those of the clock's handler.
LockFree == {"user", "sysret", "uptime", "sleep", "again", "loop", "scan", "tick", "handled", "yield"}
OnClock == {"tick", "ticking", "wake", "waking", "ticked"}
TaskCalls == {"user", "sysret", "uptime", "sleep", "again"}
TaskLabels == TaskCalls \cup OnClock \cup {"handled", "yield", "yielding", "back", "forkret", "woken",
                                           "reading", "start", "test", "chan", "sleeping"}
CpuLabels == {"loop", "scan", "scanning", "switched", "handled"} \cup OnClock
Labels == TaskLabels \cup CpuLabels
Origins == TaskCalls \cup {"no", "loop", "scan"}
Hart == [noff : Int, intena : BOOLEAN, intr : BOOLEAN]

Types ==
  /\ hart \in [Cpus -> Hart]
  /\ running \in [Cpus -> Contexts]
  /\ owner \in [Locks -> Cpus \cup {NoCpu}]
  /\ lab \in [Contexts -> Labels]
  /\ want \in [Contexts -> Locks \cup {NoLock}]
  /\ trapped \in [Contexts -> Origins]
  /\ saved \in [Tasks -> BOOLEAN]
  /\ who \in [Contexts -> Tasks]
  /\ scan \in [Cpus -> Tasks]
  /\ tstate \in [Tasks -> {"RUNNABLE", "RUNNING", "SLEEPING"}]
  /\ due \in SUBSET Tasks
  /\ panicked \in BOOLEAN

\* Tasks and schedulers are at labels of theirs, and a context was interrupted
\* where it is in a handler, at a label where it held no lock.
LabelledAt(x) ==
  /\ x \in Tasks => lab[x] \in TaskLabels /\ trapped[x] \in TaskCalls \cup {"no"}
  /\ x \in Cpus => lab[x] \in CpuLabels /\ trapped[x] \in {"no", "loop", "scan"}
  /\ trapped[x] # "no" <=> lab[x] \in Handler

\* A processor runs its scheduler, or the task that its scheduler has switched to.
PlacedAt(c) ==
  \/ running[c] = c
  \/ /\ running[c] \in Tasks /\ tstate[running[c]] = "RUNNING"
     /\ lab[c] = "switched" /\ scan[c] = running[c] /\ want[c] = NoLock

\* No context runs twice; a task that runs nowhere is in sched() or in its first
\* swtch().
Placed ==
  /\ \A c \in Cpus : PlacedAt(c)
  /\ \A c, d \in Cpus : running[c] = running[d] => c = d
  /\ \A t \in Tasks : (\A c \in Cpus : running[c] # t) =>
       lab[t] \in {"forkret", "back", "woken"} /\ want[t] = NoLock /\ tstate[t] # "RUNNING"

\* The locks that a processor holds, by where the context it runs is.
Holds(c, l) ==
  LET x == running[c] IN
  \/ l = tickslock /\ lab[x] \in WithTicks
  \/ l = x /\ lab[x] \in WithOwn
  \/ l = who[x] /\ lab[x] = "waking"
  \/ l = scan[c] /\ lab[x] \in WithScan
Depth(x) ==
  IF lab[x] \in LockFree THEN 0 ELSE IF lab[x] \in {"waking", "sleeping"} THEN 2 ELSE 1

\* lk->cpu is the processor that holds the lock, noff is how many it holds, and
\* it spins for the lock at hand.
CountedAt(c) ==
  /\ \A l \in Locks : owner[l] = c <=> Holds(c, l)
  /\ hart[c].noff = Depth(running[c]) + (IF want[running[c]] = NoLock THEN 0 ELSE 1)
  /\ want[running[c]] \in {NoLock, LockAt(c)}

\* intena is what the interrupts were before the outermost push_off(): off in
\* a handler, on in a system call.
EnabledAt(c) ==
  LET x == running[c] IN
  /\ hart[c].intr => hart[c].noff = 0 /\ trapped[x] = "no"
  /\ x \in Tasks /\ hart[c].noff = 0 /\ trapped[x] = "no" /\ lab[x] # "sysret" => hart[c].intr
  /\ hart[c].noff # 0 /\ trapped[x] # "no" /\ lab[x] # "back" => ~hart[c].intena
  /\ x \in Tasks /\ hart[c].noff # 0 /\ trapped[x] = "no" /\ lab[x] \notin {"woken", "forkret"}
       => hart[c].intena
\* A thread in sched() has kept its own.
Kept == \A t \in Tasks : (lab[t] = "back" => ~saved[t]) /\ (lab[t] = "woken" => saved[t])

\* The clock wakes every sleeper before it lets go of ticks.
ClockedAt(c) ==
  LET x == running[c] IN
  /\ lab[x] \in OnClock => c = BootCpu
  /\ lab[x] = "ticked" => \A t \in Tasks : tstate[t] # "SLEEPING"
  /\ lab[x] \in {"wake", "waking"} => \A t \in Tasks : t < who[x] => tstate[t] # "SLEEPING"
\* Nobody goes to sleep whose time has come, and who sleeps then is about to be
\* woken.
Waking == lab[running[BootCpu]] \in {"wake", "waking"}
Rousing ==
  /\ \A t \in Tasks : lab[t] \in {"chan", "sleeping"} => t \notin due
  /\ \A t \in Tasks : tstate[t] = "SLEEPING" /\ t \in due => Waking

Inv ==
  /\ Types /\ Placed /\ Kept /\ Rousing /\ NoTrapPanic
  /\ \A x \in Contexts : LabelledAt(x)
  /\ \A c \in Cpus : CountedAt(c) /\ EnabledAt(c) /\ ClockedAt(c)

-----------------------------------------------------------------------------

LEMMA SetFacts ==
  /\ tickslock \in Locks /\ tickslock \notin Tasks /\ NoLock \notin Locks
  /\ NoCpu \notin Cpus /\ BootCpu \in Cpus
  /\ \A t \in Tasks : t \in Locks /\ t \in Contexts /\ t \notin Cpus /\ t \in Int
  /\ \A l \in Locks : l = tickslock \/ l \in Tasks
  /\ \A c \in Cpus : c \in Contexts /\ c \notin Tasks
  /\ \A x \in Contexts : x \in Tasks \/ x \in Cpus
  /\ 1 \in Tasks
BY TrapCpus DEF tickslock, Locks, Tasks, NoLock, Contexts

LEMMA NextScan == \A t \in Tasks : t # NTASK => t + 1 \in Tasks
BY TrapCpus DEF Tasks

LEMMA PushOffFacts ==
  ASSUME NEW r \in Hart
  PROVE  /\ PushOff(r) \in Hart /\ PushOff(r).noff = r.noff + 1 /\ ~PushOff(r).intr
         /\ (PushOff(r).intena <=> IF r.noff = 0 THEN r.intr ELSE r.intena)
<1>1. r.noff \in Int /\ r.intena \in BOOLEAN /\ r.intr \in BOOLEAN
  BY DEF Hart
<1> QED
  BY <1>1 DEF PushOff, Hart

LEMMA PopOffFacts ==
  ASSUME NEW r \in Hart
  PROVE  /\ PopOff(r) \in Hart /\ PopOff(r).noff = r.noff - 1
         /\ (PopOff(r).intena <=> r.intena)
         /\ (PopOff(r).intr <=> r.intr \/ (r.noff = 1 /\ r.intena))
<1> DEFINE n == r.noff - 1
           b == r.intr \/ (r.noff = 1 /\ r.intena)
<1>1. n \in Int /\ b \in BOOLEAN
  BY DEF Hart
<1>2. PopOff(r) = [r EXCEPT !.noff = n, !.intr = b]
  BY Zenon DEF PopOff
<1>3. [r EXCEPT !.noff = n, !.intr = b] \in Hart
  <2> HIDE DEF n, b
  <2> QED
    BY <1>1 DEF Hart
<1>4. PopOff(r).noff = r.noff - 1 /\ PopOff(r).intena = r.intena /\ (PopOff(r).intr <=> b)
  BY DEF PopOff, Hart
<1> QED
  BY <1>2, <1>3, <1>4

IntrOn(r) == [r EXCEPT !.intr = TRUE]
IntrOff(r) == [r EXCEPT !.intr = FALSE]
LEMMA IntrFacts ==
  ASSUME NEW r \in Hart
  PROVE  /\ IntrOn(r) \in Hart /\ IntrOn(r).noff = r.noff
         /\ (IntrOn(r).intena <=> r.intena) /\ IntrOn(r).intr
         /\ IntrOff(r) \in Hart /\ IntrOff(r).noff = r.noff
         /\ (IntrOff(r).intena <=> r.intena) /\ ~IntrOff(r).intr
BY DEF Hart, IntrOn, IntrOff

\* A thread that comes back from swtch() has its own intena.
LEMMA ResumedFacts ==
  ASSUME Types, NEW c \in Cpus, NEW x \in Tasks, x = running[c]
  PROVE  /\ Resumed(c) \in Hart /\ Resumed(c).noff = hart[c].noff
         /\ (Resumed(c).intena <=> saved[x]) /\ (Resumed(c).intr <=> hart[c].intr)
<1>1. hart[c] \in Hart /\ saved[x] \in BOOLEAN
  BY DEF Types
<1> QED
  BY <1>1 DEF Resumed, Hart

LEMMA LabelFacts ==
  ASSUME NEW x \in Contexts
  PROVE  /\ LabelledAt(x) => lab[x] \in Labels /\ trapped[x] \in Origins
         /\ LabelledAt(x)' => lab'[x] \in Labels /\ trapped'[x] \in Origins
BY SetFacts DEF LabelledAt, Labels, Origins

LEMMA ThenFacts ==
  /\ Then["tick"] = "ticking" /\ Then["uptime"] = "reading" /\ Then["sleep"] = "start"
  /\ Then["again"] = "test" /\ Then["chan"] = "sleeping" /\ Then["yield"] = "yielding"
  /\ Then["wake"] = "waking" /\ Then["scan"] = "scanning"
BY DEF Then

\* A step of c leaves alone what the other processors run, and their locks.
Elsewhere(c) ==
  /\ \A d \in Cpus \ {c} : hart'[d] = hart[d] /\ running'[d] = running[d] /\ scan'[d] = scan[d]
  /\ \A y \in Contexts \ {running[c]} :
       lab'[y] = lab[y] /\ want'[y] = want[y] /\ trapped'[y] = trapped[y] /\ who'[y] = who[y]
  /\ \A d \in Cpus \ {c}, l \in Locks : owner'[l] = d <=> owner[l] = d

LEMMA OthersKept ==
  ASSUME Types, Placed, NEW c \in Cpus, Elsewhere(c), NEW d \in Cpus \ {c}, CountedAt(d), EnabledAt(d)
  PROVE  CountedAt(d)' /\ EnabledAt(d)'
<1>1. running[d] # running[c] /\ running[d] \in Contexts /\ hart'[d] = hart[d] /\ running'[d] = running[d] /\ scan'[d] = scan[d]
  BY DEF Types, Placed, Elsewhere
<1> DEFINE x == running[d]
<1>2. lab'[x] = lab[x] /\ want'[x] = want[x] /\ trapped'[x] = trapped[x] /\ who'[x] = who[x]
  BY <1>1 DEF Elsewhere
<1>3. LockAt(d)' = LockAt(d)
  BY <1>1, <1>2 DEF LockAt, tickslock, NoLock
<1>4. \A l \in Locks : owner'[l] = d <=> owner[l] = d
  BY DEF Elsewhere
<1>5. \A l \in Locks : Holds(d, l)' <=> Holds(d, l)
  BY <1>1, <1>2 DEF Holds, tickslock
<1>6. Depth(running[d])' = Depth(running[d])
  BY <1>1, <1>2 DEF Depth
<1>7. CountedAt(d)'
  BY <1>1, <1>2, <1>3, <1>4, <1>5, <1>6 DEF CountedAt, NoLock
<1>8. EnabledAt(d)'
  BY <1>1, <1>2 DEF EnabledAt
<1> QED
  BY <1>7, <1>8

\* The clock of another processor goes on, if nobody falls asleep.
LEMMA OtherClocks ==
  ASSUME Types, Placed, NEW c \in Cpus, Elsewhere(c), NEW d \in Cpus \ {c}, ClockedAt(d),
         \A t \in Tasks : tstate'[t] = "SLEEPING" => tstate[t] = "SLEEPING"
  PROVE  ClockedAt(d)'
<1>1. running[d] # running[c] /\ running[d] \in Contexts /\ running'[d] = running[d]
  BY DEF Types, Placed, Elsewhere
<1>2. lab'[running[d]] = lab[running[d]] /\ who'[running[d]] = who[running[d]]
  BY <1>1 DEF Elsewhere
<1> QED
  BY <1>1, <1>2 DEF ClockedAt, Tasks


\* What is left to show of a step of c after which c runs what it ran.
LEMMA Gather ==
  ASSUME Inv, NEW c \in Cpus, NEW x \in Contexts, x = running[c], Elsewhere(c), Types',
         UNCHANGED <<running, saved>>,
         \A t \in Tasks : tstate'[t] = "SLEEPING" => tstate[t] = "SLEEPING",
         \A t \in Tasks : tstate'[t] = "RUNNING" <=> tstate[t] = "RUNNING",
         c = x \/ (lab'[c] = "switched" /\ scan'[c] = x),
         lab'[x] \notin {"back", "woken"},
         LabelledAt(x)', CountedAt(c)', EnabledAt(c)', ClockedAt(c)', Rousing', ~panicked'
  PROVE  Inv'
<1> USE SetFacts
<1>0. /\ Types /\ Placed /\ Kept /\ Rousing
      /\ \A y \in Contexts : LabelledAt(y)
      /\ \A d \in Cpus : CountedAt(d) /\ EnabledAt(d) /\ ClockedAt(d)
  BY DEF Inv
<1>1. \A y \in Contexts : LabelledAt(y)'
  BY <1>0 DEF LabelledAt, Elsewhere, Tasks
<1>2. \A d \in Cpus : CountedAt(d)' /\ EnabledAt(d)'
  BY <1>0, OthersKept
<1>3. \A d \in Cpus : ClockedAt(d)'
  BY <1>0, OtherClocks
<1>4. \A d \in Cpus \ {c} : running[d] # x
  BY <1>0 DEF Placed
<1>5. PlacedAt(c)'
  BY <1>0 DEF Placed, PlacedAt, Elsewhere, NoLock, Tasks
<1>6. ASSUME NEW d \in Cpus \ {c} PROVE PlacedAt(d)'
  <2>1. d # x /\ running'[d] = running[d] /\ running[d] \in Contexts
    BY <1>0 DEF Placed, PlacedAt, Types
  <2>2. lab'[d] = lab[d] /\ want'[d] = want[d] /\ scan'[d] = scan[d]
    BY <2>1 DEF Elsewhere
  <2>3. PlacedAt(d)
    BY <1>0 DEF Placed
  <2> QED
    BY <2>1, <2>2, <2>3 DEF PlacedAt, NoLock, Tasks
<1>7. Placed'
  BY <1>0, <1>5, <1>6 DEF Placed, Elsewhere, NoLock, Tasks
<1>8. Kept'
  BY <1>0 DEF Kept, Elsewhere, Tasks
<1> QED
  BY <1>1, <1>2, <1>3, <1>7, <1>8 DEF Inv, NoTrapPanic, Contexts, Tasks

\* Most steps neither put a thread to sleep nor wake one.
LEMMA CalmSteps ==
  ASSUME Inv, NEW c \in Cpus, NEW x \in Contexts, x = running[c], Elsewhere(c), Types',
         UNCHANGED <<running, saved>>,
         \A t \in Tasks : tstate'[t] = tstate[t],
         \A t \in Tasks : t \in due' => t \in due,
         c = x \/ (lab'[c] = "switched" /\ scan'[c] = x),
         lab'[x] \in {"chan", "sleeping"} => x \notin due',
         lab'[x] \notin {"back", "woken"},
         lab[x] \in {"wake", "waking"} => lab'[x] \in {"wake", "waking"},
         LabelledAt(x)', CountedAt(c)', EnabledAt(c)', ClockedAt(c)', ~panicked'
  PROVE  Inv'
<1> USE SetFacts
<1>0. Types /\ Placed /\ Rousing
  BY DEF Inv
<1>1. Waking => Waking'
  BY <1>0 DEF Waking, Elsewhere, Types, Placed
<1>2. Rousing'
  BY <1>0, <1>1 DEF Rousing, Elsewhere, Tasks
<1> QED
  BY <1>2, Gather


LEMMA AcquirePushStep ==
  ASSUME Inv, NEW c \in Cpus, NEW x \in Contexts, x = running[c], AcquirePush(c)
  PROVE  Inv'
<1> USE SetFacts
<1>1. /\ Types /\ Placed /\ PlacedAt(c) /\ Kept /\ Rousing /\ ~panicked
      /\ LabelledAt(x) /\ CountedAt(c) /\ EnabledAt(c) /\ ClockedAt(c)
  BY DEF Inv, Placed, NoTrapPanic
<1>2. /\ want[x] = NoLock /\ LockAt(c) \in Locks /\ running' = running
      /\ lab[x] \in {"tick", "uptime", "sleep", "again", "chan", "yield", "wake", "scan"}
  BY <1>1 DEF Types, AcquirePush, LockAt, NoLock, LabelledAt, CpuLabels, TaskLabels, TaskCalls, OnClock
<1>3. owner[LockAt(c)] # c
  BY <1>1, <1>2 DEF Types, LockAt, CountedAt, EnabledAt, Holds, Depth, tickslock, Handler, WithTicks, WithOwn, WithScan, LockFree, LabelledAt, CpuLabels, TaskLabels, TaskCalls, OnClock
<1>4. /\ hart' = [hart EXCEPT ![c] = PushOff(hart[c])] /\ hart[c] \in Hart /\ PushOff(hart[c]) \in Hart
      /\ hart'[c].noff = hart[c].noff + 1 /\ ~hart'[c].intr
      /\ (hart'[c].intena <=> IF hart[c].noff = 0 THEN hart[c].intr ELSE hart[c].intena)
  BY <1>1, <1>2, <1>3, PushOffFacts DEF Types, AcquirePush
<1>5. lab' = lab /\ want'[x] = LockAt(c) /\ UNCHANGED <<owner, who, scan, trapped>>
  BY <1>1, <1>2, <1>3 DEF Types, AcquirePush
<1>6. Elsewhere(c)
  BY <1>1, <1>2, <1>3 DEF Types, Elsewhere, AcquirePush
<1>7. UNCHANGED <<running, saved>> /\ (\A t \in Tasks : tstate'[t] = tstate[t]) /\ (\A t \in Tasks : t \in due' => t \in due)
  BY <1>2 DEF AcquirePush
<1>8. c = x \/ (lab'[c] = "switched" /\ scan'[c] = x)
  BY <1>1, <1>2, <1>6 DEF PlacedAt, AcquirePush
<1>9. LabelledAt(x)'
  BY <1>1, <1>2, <1>3, <1>5 DEF LabelledAt, Handler, WithTicks, WithOwn, WithScan, LockFree, OnClock, TaskCalls, TaskLabels, CpuLabels
<1>10. Types'
  <2>1. hart' \in [Cpus -> Hart]
    BY <1>1, <1>4 DEF Types
  <2>2. lab' \in [Contexts -> Labels] /\ trapped' \in [Contexts -> Origins]
    BY <1>1, <1>2, <1>9, LabelFacts DEF Types, AcquirePush
  <2> QED
    BY <1>1, <1>2, <1>3, <2>1, <2>2, NextScan DEF Types, NoLock, Tasks, Contexts, Locks, tickslock, AcquirePush
<1>11. CountedAt(c)'
  <2>1. \A l \in Locks : owner'[l] = c <=> Holds(c, l)'
    BY <1>1, <1>2, <1>3, <1>5 DEF Types, CountedAt, Holds, tickslock, Handler, WithTicks, WithOwn, WithScan, LockFree, OnClock, TaskCalls, TaskLabels, CpuLabels
  <2>2. hart'[c].noff = Depth(x)' + (IF want'[x] = NoLock THEN 0 ELSE 1)
    BY <1>1, <1>2, <1>3, <1>4, <1>5 DEF CountedAt, Depth, Handler, WithTicks, WithOwn, WithScan, LockFree, OnClock, TaskCalls, TaskLabels, CpuLabels
  <2>3. want'[x] \in {NoLock, LockAt(c)'}
    BY <1>1, <1>2, <1>3, <1>5 DEF CountedAt, LockAt, NoLock, tickslock
  <2> QED
    BY <1>1, <1>2, <1>3, <1>5, <2>1, <2>2, <2>3 DEF CountedAt, NoLock
<1>12. EnabledAt(c)'
  BY <1>1, <1>2, <1>3, <1>4, <1>5 DEF EnabledAt, CountedAt, Depth, LabelledAt, Handler, WithTicks, WithOwn, WithScan, LockFree, OnClock, TaskCalls, TaskLabels, CpuLabels
<1>13. ClockedAt(c)'
  BY <1>1, <1>2, <1>3, <1>5, <1>7 DEF ClockedAt, Tasks, Handler, WithTicks, WithOwn, WithScan, LockFree, OnClock, TaskCalls, TaskLabels, CpuLabels
<1>14. ~panicked'
  BY <1>1, <1>2, <1>3, <1>5 DEF AcquirePush
<1>15. lab'[x] \in {"chan", "sleeping"} => x \notin due'
  BY <1>1, <1>2, <1>3, <1>5, <1>7 DEF Rousing, LabelledAt, Handler, WithTicks, WithOwn, WithScan, LockFree, OnClock, TaskCalls, TaskLabels, CpuLabels
<1>16. lab[x] \in {"wake", "waking"} => lab'[x] \in {"wake", "waking"}
  BY <1>2, <1>3, <1>5 DEF Handler
<1>17. lab'[x] \notin {"back", "woken"}
  BY <1>1, <1>2, <1>3, <1>5 DEF LabelledAt, Handler, WithTicks, WithOwn, WithScan, LockFree, OnClock, TaskCalls, TaskLabels, CpuLabels
<1> QED
  BY <1>10, <1>6, <1>7, <1>8, <1>9, <1>11, <1>12, <1>13, <1>14, <1>15, <1>16, <1>17, CalmSteps

LEMMA AcquireSwapStep ==
  ASSUME Inv, NEW c \in Cpus, NEW x \in Contexts, x = running[c], AcquireSwap(c)
  PROVE  Inv'
<1> USE SetFacts
<1>1. /\ Types /\ Placed /\ PlacedAt(c) /\ Kept /\ Rousing /\ ~panicked
      /\ LabelledAt(x) /\ CountedAt(c) /\ EnabledAt(c) /\ ClockedAt(c)
  BY DEF Inv, Placed, NoTrapPanic
<1>2. /\ want[x] = LockAt(c) /\ LockAt(c) \in Locks /\ running' = running /\ owner[LockAt(c)] = NoCpu
      /\ lab[x] \in {"tick", "uptime", "sleep", "again", "chan", "yield", "wake", "scan"}
  BY <1>1 DEF Types, AcquireSwap, LockAt, NoLock, CountedAt, LabelledAt, CpuLabels, TaskLabels, TaskCalls, OnClock
<1>3. LockAt(c) = IF lab[x] \in {"tick", "uptime", "sleep", "again"} THEN tickslock
               ELSE IF lab[x] = "wake" THEN who[x] ELSE IF lab[x] = "scan" THEN scan[c] ELSE x
  BY <1>1, <1>2 DEF LockAt
<1>4. hart' = hart /\ hart[c] \in Hart
  BY <1>1, <1>2 DEF Types, AcquireSwap, Goes
<1>5. /\ want'[x] = NoLock
      /\ lab'[x] = CASE lab[x] = "tick" -> "ticking" [] lab[x] = "uptime" -> "reading" [] lab[x] = "sleep" -> "start"
                    [] lab[x] = "again" -> "test" [] lab[x] = "chan" -> "sleeping" [] lab[x] = "yield" -> "yielding"
                    [] lab[x] = "wake" -> "waking" [] lab[x] = "scan" -> "scanning"
      /\ owner' = [owner EXCEPT ![LockAt(c)] = c] /\ UNCHANGED <<hart, who, scan, trapped>>
  BY <1>1, <1>2, <1>3, ThenFacts DEF Types, AcquireSwap, Goes
<1>6. Elsewhere(c)
  BY <1>1, <1>2, <1>3 DEF Types, Elsewhere, AcquireSwap, Goes
<1>7. UNCHANGED <<running, saved>> /\ (\A t \in Tasks : tstate'[t] = tstate[t]) /\ (\A t \in Tasks : t \in due' => t \in due)
  BY <1>2 DEF AcquireSwap, Goes
<1>8. c = x \/ (lab'[c] = "switched" /\ scan'[c] = x)
  BY <1>1, <1>2, <1>6 DEF PlacedAt, AcquireSwap, Goes
<1>9. LabelledAt(x)'
  BY <1>1, <1>2, <1>3, <1>5 DEF LabelledAt, Handler, WithTicks, WithOwn, WithScan, LockFree, OnClock, TaskCalls, TaskLabels, CpuLabels
<1>10. Types'
  <2>1. hart' \in [Cpus -> Hart]
    BY <1>1, <1>4 DEF Types
  <2>2. lab' \in [Contexts -> Labels] /\ trapped' \in [Contexts -> Origins]
    BY <1>1, <1>2, <1>9, LabelFacts DEF Types, AcquireSwap, Goes
  <2> QED
    BY <1>1, <1>2, <1>3, <2>1, <2>2, NextScan DEF Types, NoLock, Tasks, Contexts, Locks, tickslock, AcquireSwap, Goes
<1>11. CountedAt(c)'
  <2>1. \A l \in Locks : owner'[l] = c <=> Holds(c, l)'
    BY <1>1, <1>2, <1>3, <1>5 DEF Types, CountedAt, Holds, tickslock, Handler, WithTicks, WithOwn, WithScan, LockFree, OnClock, TaskCalls, TaskLabels, CpuLabels
  <2>2. hart'[c].noff = Depth(x)' + (IF want'[x] = NoLock THEN 0 ELSE 1)
    BY <1>1, <1>2, <1>3, <1>4, <1>5 DEF CountedAt, Depth, Handler, WithTicks, WithOwn, WithScan, LockFree, OnClock, TaskCalls, TaskLabels, CpuLabels
  <2>3. want'[x] \in {NoLock, LockAt(c)'}
    BY <1>1, <1>2, <1>3, <1>5 DEF CountedAt, LockAt, NoLock, tickslock
  <2> QED
    BY <1>1, <1>2, <1>3, <1>5, <2>1, <2>2, <2>3 DEF CountedAt, NoLock
<1>12. EnabledAt(c)'
  BY <1>1, <1>2, <1>3, <1>4, <1>5 DEF EnabledAt, CountedAt, Depth, LabelledAt, Handler, WithTicks, WithOwn, WithScan, LockFree, OnClock, TaskCalls, TaskLabels, CpuLabels
<1>13. ClockedAt(c)'
  BY <1>1, <1>2, <1>3, <1>5, <1>7 DEF ClockedAt, Tasks, Handler, WithTicks, WithOwn, WithScan, LockFree, OnClock, TaskCalls, TaskLabels, CpuLabels
<1>14. ~panicked'
  BY <1>1, <1>2, <1>3, <1>5 DEF AcquireSwap, Goes
<1>15. lab'[x] \in {"chan", "sleeping"} => x \notin due'
  BY <1>1, <1>2, <1>3, <1>5, <1>7 DEF Rousing, LabelledAt, Handler, WithTicks, WithOwn, WithScan, LockFree, OnClock, TaskCalls, TaskLabels, CpuLabels
<1>16. lab[x] \in {"wake", "waking"} => lab'[x] \in {"wake", "waking"}
  BY <1>2, <1>3, <1>5 DEF Handler
<1>17. lab'[x] \notin {"back", "woken"}
  BY <1>1, <1>2, <1>3, <1>5 DEF LabelledAt, Handler, WithTicks, WithOwn, WithScan, LockFree, OnClock, TaskCalls, TaskLabels, CpuLabels
<1> QED
  BY <1>10, <1>6, <1>7, <1>8, <1>9, <1>11, <1>12, <1>13, <1>14, <1>15, <1>16, <1>17, CalmSteps

LEMMA InterruptStep ==
  ASSUME Inv, NEW c \in Cpus, NEW x \in Contexts, x = running[c], Interrupt(c)
  PROVE  Inv'
<1> USE SetFacts
<1>1. /\ Types /\ Placed /\ PlacedAt(c) /\ Kept /\ Rousing /\ ~panicked
      /\ LabelledAt(x) /\ CountedAt(c) /\ EnabledAt(c) /\ ClockedAt(c)
  BY DEF Inv, Placed, NoTrapPanic
<1>2. /\ hart[c].intr /\ hart[c].noff = 0 /\ trapped[x] = "no" /\ running' = running
  BY <1>1 DEF Interrupt, EnabledAt
<1>3. /\ want[x] = NoLock /\ lab[x] \in LockFree /\ lab[x] \notin Handler
  BY <1>1, <1>2 DEF CountedAt, Depth, LabelledAt
<1>4. /\ hart' = [hart EXCEPT ![c] = IntrOff(hart[c])] /\ hart[c] \in Hart /\ hart'[c] \in Hart
      /\ hart'[c].noff = hart[c].noff /\ ~hart'[c].intr /\ (hart'[c].intena <=> hart[c].intena)
  <2>1. hart[c] \in Hart
    BY <1>1 DEF Types
  <2>2. hart' = [hart EXCEPT ![c] = IntrOff(hart[c])]
    BY <2>1, <1>1 DEF Types, IntrOn, IntrOff, Interrupt
  <2>3. hart'[c] = IntrOff(hart[c])
    BY <1>1, <2>2 DEF Types
  <2>4. hart'[c] \in Hart /\ hart'[c].noff = hart[c].noff /\ (hart'[c].intr <=> FALSE)
    BY <2>1, <2>3, IntrFacts
  <2>5. hart'[c].intena <=> hart[c].intena
    BY <2>1, <2>3, IntrFacts
  <2> QED
    BY <1>2, <1>3, <2>1, <2>2, <2>4, <2>5
<1>5. /\ trapped'[x] = lab[x] /\ lab'[x] = (IF c = BootCpu THEN "tick" ELSE "handled")
      /\ UNCHANGED <<owner, want, who, scan>>
  BY <1>1, <1>2, <1>3 DEF Types, Interrupt, Goes
<1>6. Elsewhere(c)
  BY <1>1, <1>2, <1>3 DEF Types, Elsewhere, Interrupt, Goes
<1>7. UNCHANGED <<running, saved>> /\ (\A t \in Tasks : tstate'[t] = tstate[t]) /\ (\A t \in Tasks : t \in due' => t \in due)
  BY <1>2 DEF Interrupt, Goes
<1>8. c = x \/ (lab'[c] = "switched" /\ scan'[c] = x)
  BY <1>1, <1>2, <1>6 DEF PlacedAt, Interrupt, Goes
<1>9. LabelledAt(x)'
  BY <1>1, <1>2, <1>3, <1>5 DEF LabelledAt, Handler, WithTicks, WithOwn, WithScan, LockFree, OnClock, TaskCalls, TaskLabels, CpuLabels
<1>10. Types'
  <2>1. hart' \in [Cpus -> Hart]
    BY <1>1, <1>4 DEF Types
  <2>2. lab' \in [Contexts -> Labels] /\ trapped' \in [Contexts -> Origins]
    BY <1>1, <1>2, <1>9, LabelFacts DEF Types, Interrupt, Goes
  <2> QED
    BY <1>1, <1>2, <1>3, <2>1, <2>2, NextScan DEF Types, NoLock, Tasks, Contexts, Locks, tickslock, Interrupt, Goes
<1>11. CountedAt(c)'
  <2>1. \A l \in Locks : owner'[l] = c <=> Holds(c, l)'
    BY <1>1, <1>2, <1>3, <1>5 DEF Types, CountedAt, Holds, tickslock, Handler, WithTicks, WithOwn, WithScan, LockFree, OnClock, TaskCalls, TaskLabels, CpuLabels
  <2>2. hart'[c].noff = Depth(x)' + (IF want'[x] = NoLock THEN 0 ELSE 1)
    BY <1>1, <1>2, <1>3, <1>4, <1>5 DEF CountedAt, Depth, Handler, WithTicks, WithOwn, WithScan, LockFree, OnClock, TaskCalls, TaskLabels, CpuLabels
  <2>3. want'[x] \in {NoLock, LockAt(c)'}
    BY <1>1, <1>2, <1>3, <1>5 DEF CountedAt, LockAt, NoLock, tickslock
  <2> QED
    BY <1>1, <1>2, <1>3, <1>5, <2>1, <2>2, <2>3 DEF CountedAt, NoLock
<1>12. EnabledAt(c)'
  BY <1>1, <1>2, <1>3, <1>4, <1>5 DEF EnabledAt, CountedAt, Depth, LabelledAt, Handler, WithTicks, WithOwn, WithScan, LockFree, OnClock, TaskCalls, TaskLabels, CpuLabels
<1>13. ClockedAt(c)'
  BY <1>1, <1>2, <1>3, <1>5, <1>7 DEF ClockedAt, Tasks, Handler, WithTicks, WithOwn, WithScan, LockFree, OnClock, TaskCalls, TaskLabels, CpuLabels
<1>14. ~panicked'
  BY <1>1, <1>2, <1>3, <1>5 DEF Interrupt, Goes
<1>15. lab'[x] \in {"chan", "sleeping"} => x \notin due'
  BY <1>1, <1>2, <1>3, <1>5, <1>7 DEF Rousing, LabelledAt, Handler, WithTicks, WithOwn, WithScan, LockFree, OnClock, TaskCalls, TaskLabels, CpuLabels
<1>16. lab[x] \in {"wake", "waking"} => lab'[x] \in {"wake", "waking"}
  BY <1>2, <1>3, <1>5 DEF Handler
<1>17. lab'[x] \notin {"back", "woken"}
  BY <1>1, <1>2, <1>3, <1>5 DEF LabelledAt, Handler, WithTicks, WithOwn, WithScan, LockFree, OnClock, TaskCalls, TaskLabels, CpuLabels
<1> QED
  BY <1>10, <1>6, <1>7, <1>8, <1>9, <1>11, <1>12, <1>13, <1>14, <1>15, <1>16, <1>17, CalmSteps

LEMMA ClockEndStep ==
  ASSUME Inv, NEW c \in Cpus, NEW x \in Contexts, x = running[c], ClockEnd(c)
  PROVE  Inv'
<1> USE SetFacts
<1>1. /\ Types /\ Placed /\ PlacedAt(c) /\ Kept /\ Rousing /\ ~panicked
      /\ LabelledAt(x) /\ CountedAt(c) /\ EnabledAt(c) /\ ClockedAt(c)
  BY DEF Inv, Placed, NoTrapPanic
<1>2. lab[x] = "ticked" /\ running' = running
  BY <1>1 DEF ClockEnd, Is
<1>3. owner[tickslock] = c /\ hart[c].noff >= 1 /\ ~hart[c].intr /\ want[x] = NoLock
  BY <1>1, <1>2 DEF Types, LockAt, NoLock, LabelledAt, CpuLabels, TaskLabels, TaskCalls, OnClock, CountedAt, EnabledAt, Holds, Depth, tickslock, Handler, WithTicks, WithOwn, WithScan, LockFree
<1>4. /\ hart' = [hart EXCEPT ![c] = PopOff(hart[c])] /\ hart[c] \in Hart /\ PopOff(hart[c]) \in Hart
      /\ hart'[c].noff = hart[c].noff - 1 /\ (hart'[c].intena <=> hart[c].intena)
      /\ (hart'[c].intr <=> hart[c].noff = 1 /\ hart[c].intena)
  BY <1>1, <1>2, <1>3, PopOffFacts DEF Types, ClockEnd, Release
<1>5. /\ owner' = [owner EXCEPT ![tickslock] = NoCpu] /\ lab'[x] = "handled"
      /\ UNCHANGED <<want, trapped, who, scan>>
  BY <1>1, <1>2, <1>3 DEF Types, ClockEnd, Release, Goes, Is
<1>6. Elsewhere(c)
  BY <1>1, <1>2, <1>3 DEF Types, Elsewhere, ClockEnd, Release, Goes, Is
<1>7. UNCHANGED <<running, saved>> /\ (\A t \in Tasks : tstate'[t] = tstate[t]) /\ (\A t \in Tasks : t \in due' => t \in due)
  BY <1>2 DEF ClockEnd, Release, Goes, Is
<1>8. c = x \/ (lab'[c] = "switched" /\ scan'[c] = x)
  BY <1>1, <1>2, <1>6 DEF PlacedAt, ClockEnd, Release, Goes, Is
<1>9. LabelledAt(x)'
  BY <1>1, <1>2, <1>3, <1>5 DEF LabelledAt, Handler, WithTicks, WithOwn, WithScan, LockFree, OnClock, TaskCalls, TaskLabels, CpuLabels
<1>10. Types'
  <2>1. hart' \in [Cpus -> Hart]
    BY <1>1, <1>4 DEF Types
  <2>2. lab' \in [Contexts -> Labels] /\ trapped' \in [Contexts -> Origins]
    BY <1>1, <1>2, <1>9, LabelFacts DEF Types, ClockEnd, Release, Goes, Is
  <2> QED
    BY <1>1, <1>2, <1>3, <2>1, <2>2, NextScan DEF Types, NoLock, Tasks, Contexts, Locks, tickslock, ClockEnd, Release, Goes, Is
<1>11. CountedAt(c)'
  <2>1. \A l \in Locks : owner'[l] = c <=> Holds(c, l)'
    BY <1>1, <1>2, <1>3, <1>5 DEF Types, CountedAt, Holds, tickslock, Handler, WithTicks, WithOwn, WithScan, LockFree, OnClock, TaskCalls, TaskLabels, CpuLabels
  <2>2. hart'[c].noff = Depth(x)' + (IF want'[x] = NoLock THEN 0 ELSE 1)
    BY <1>1, <1>2, <1>3, <1>4, <1>5 DEF CountedAt, Depth, Handler, WithTicks, WithOwn, WithScan, LockFree, OnClock, TaskCalls, TaskLabels, CpuLabels
  <2>3. want'[x] \in {NoLock, LockAt(c)'}
    BY <1>1, <1>2, <1>3, <1>5 DEF CountedAt, LockAt, NoLock, tickslock
  <2> QED
    BY <1>1, <1>2, <1>3, <1>5, <2>1, <2>2, <2>3 DEF CountedAt, NoLock
<1>12. EnabledAt(c)'
  BY <1>1, <1>2, <1>3, <1>4, <1>5 DEF EnabledAt, CountedAt, Depth, LabelledAt, Handler, WithTicks, WithOwn, WithScan, LockFree, OnClock, TaskCalls, TaskLabels, CpuLabels
<1>13. ClockedAt(c)'
  BY <1>1, <1>2, <1>3, <1>5, <1>7 DEF ClockedAt, Tasks, Handler, WithTicks, WithOwn, WithScan, LockFree, OnClock, TaskCalls, TaskLabels, CpuLabels
<1>14. ~panicked'
  BY <1>1, <1>2, <1>3 DEF ClockEnd, Release, Goes, Is, Types, Hart
<1>15. lab'[x] \in {"chan", "sleeping"} => x \notin due'
  BY <1>1, <1>2, <1>3, <1>5, <1>7 DEF Rousing, LabelledAt, Handler, WithTicks, WithOwn, WithScan, LockFree, OnClock, TaskCalls, TaskLabels, CpuLabels
<1>16. lab[x] \in {"wake", "waking"} => lab'[x] \in {"wake", "waking"}
  BY <1>2, <1>3, <1>5 DEF Handler
<1>17. lab'[x] \notin {"back", "woken"}
  BY <1>1, <1>2, <1>3, <1>5 DEF LabelledAt, Handler, WithTicks, WithOwn, WithScan, LockFree, OnClock, TaskCalls, TaskLabels, CpuLabels
<1> QED
  BY <1>10, <1>6, <1>7, <1>8, <1>9, <1>11, <1>12, <1>13, <1>14, <1>15, <1>16, <1>17, CalmSteps

LEMMA SysUptimeStep ==
  ASSUME Inv, NEW c \in Cpus, NEW x \in Contexts, x = running[c], SysUptime(c)
  PROVE  Inv'
<1> USE SetFacts
<1>1. /\ Types /\ Placed /\ PlacedAt(c) /\ Kept /\ Rousing /\ ~panicked
      /\ LabelledAt(x) /\ CountedAt(c) /\ EnabledAt(c) /\ ClockedAt(c)
  BY DEF Inv, Placed, NoTrapPanic
<1>2. lab[x] = "reading" /\ running' = running
  BY <1>1 DEF SysUptime, Is
<1>3. owner[tickslock] = c /\ hart[c].noff >= 1 /\ ~hart[c].intr /\ want[x] = NoLock
  BY <1>1, <1>2 DEF Types, LockAt, NoLock, LabelledAt, CpuLabels, TaskLabels, TaskCalls, OnClock, CountedAt, EnabledAt, Holds, Depth, tickslock, Handler, WithTicks, WithOwn, WithScan, LockFree
<1>4. /\ hart' = [hart EXCEPT ![c] = PopOff(hart[c])] /\ hart[c] \in Hart /\ PopOff(hart[c]) \in Hart
      /\ hart'[c].noff = hart[c].noff - 1 /\ (hart'[c].intena <=> hart[c].intena)
      /\ (hart'[c].intr <=> hart[c].noff = 1 /\ hart[c].intena)
  BY <1>1, <1>2, <1>3, PopOffFacts DEF Types, SysUptime, Release
<1>5. /\ owner' = [owner EXCEPT ![tickslock] = NoCpu] /\ lab'[x] = "sysret"
      /\ UNCHANGED <<want, trapped, who, scan>>
  BY <1>1, <1>2, <1>3 DEF Types, SysUptime, Release, Goes, Is
<1>6. Elsewhere(c)
  BY <1>1, <1>2, <1>3 DEF Types, Elsewhere, SysUptime, Release, Goes, Is
<1>7. UNCHANGED <<running, saved>> /\ (\A t \in Tasks : tstate'[t] = tstate[t]) /\ (\A t \in Tasks : t \in due' => t \in due)
  BY <1>2 DEF SysUptime, Release, Goes, Is
<1>8. c = x \/ (lab'[c] = "switched" /\ scan'[c] = x)
  BY <1>1, <1>2, <1>6 DEF PlacedAt, SysUptime, Release, Goes, Is
<1>9. LabelledAt(x)'
  BY <1>1, <1>2, <1>3, <1>5 DEF LabelledAt, Handler, WithTicks, WithOwn, WithScan, LockFree, OnClock, TaskCalls, TaskLabels, CpuLabels
<1>10. Types'
  <2>1. hart' \in [Cpus -> Hart]
    BY <1>1, <1>4 DEF Types
  <2>2. lab' \in [Contexts -> Labels] /\ trapped' \in [Contexts -> Origins]
    BY <1>1, <1>2, <1>9, LabelFacts DEF Types, SysUptime, Release, Goes, Is
  <2> QED
    BY <1>1, <1>2, <1>3, <2>1, <2>2, NextScan DEF Types, NoLock, Tasks, Contexts, Locks, tickslock, SysUptime, Release, Goes, Is
<1>11. CountedAt(c)'
  <2>1. \A l \in Locks : owner'[l] = c <=> Holds(c, l)'
    BY <1>1, <1>2, <1>3, <1>5 DEF Types, CountedAt, Holds, tickslock, Handler, WithTicks, WithOwn, WithScan, LockFree, OnClock, TaskCalls, TaskLabels, CpuLabels
  <2>2. hart'[c].noff = Depth(x)' + (IF want'[x] = NoLock THEN 0 ELSE 1)
    BY <1>1, <1>2, <1>3, <1>4, <1>5 DEF CountedAt, Depth, Handler, WithTicks, WithOwn, WithScan, LockFree, OnClock, TaskCalls, TaskLabels, CpuLabels
  <2>3. want'[x] \in {NoLock, LockAt(c)'}
    BY <1>1, <1>2, <1>3, <1>5 DEF CountedAt, LockAt, NoLock, tickslock
  <2> QED
    BY <1>1, <1>2, <1>3, <1>5, <2>1, <2>2, <2>3 DEF CountedAt, NoLock
<1>12. EnabledAt(c)'
  BY <1>1, <1>2, <1>3, <1>4, <1>5 DEF EnabledAt, CountedAt, Depth, LabelledAt, Handler, WithTicks, WithOwn, WithScan, LockFree, OnClock, TaskCalls, TaskLabels, CpuLabels
<1>13. ClockedAt(c)'
  BY <1>1, <1>2, <1>3, <1>5, <1>7 DEF ClockedAt, Tasks, Handler, WithTicks, WithOwn, WithScan, LockFree, OnClock, TaskCalls, TaskLabels, CpuLabels
<1>14. ~panicked'
  BY <1>1, <1>2, <1>3 DEF SysUptime, Release, Goes, Is, Types, Hart
<1>15. lab'[x] \in {"chan", "sleeping"} => x \notin due'
  BY <1>1, <1>2, <1>3, <1>5, <1>7 DEF Rousing, LabelledAt, Handler, WithTicks, WithOwn, WithScan, LockFree, OnClock, TaskCalls, TaskLabels, CpuLabels
<1>16. lab[x] \in {"wake", "waking"} => lab'[x] \in {"wake", "waking"}
  BY <1>2, <1>3, <1>5 DEF Handler
<1>17. lab'[x] \notin {"back", "woken"}
  BY <1>1, <1>2, <1>3, <1>5 DEF LabelledAt, Handler, WithTicks, WithOwn, WithScan, LockFree, OnClock, TaskCalls, TaskLabels, CpuLabels
<1> QED
  BY <1>10, <1>6, <1>7, <1>8, <1>9, <1>11, <1>12, <1>13, <1>14, <1>15, <1>16, <1>17, CalmSteps

LEMMA ForkretStep ==
  ASSUME Inv, NEW c \in Cpus, NEW x \in Contexts, x = running[c], Forkret(c)
  PROVE  Inv'
<1> USE SetFacts
<1>1. /\ Types /\ Placed /\ PlacedAt(c) /\ Kept /\ Rousing /\ ~panicked
      /\ LabelledAt(x) /\ CountedAt(c) /\ EnabledAt(c) /\ ClockedAt(c)
  BY DEF Inv, Placed, NoTrapPanic
<1>2. lab[x] = "forkret" /\ running' = running
  BY <1>1 DEF Forkret, Is
<1>3. owner[x] = c /\ hart[c].noff >= 1 /\ ~hart[c].intr /\ want[x] = NoLock
  BY <1>1, <1>2 DEF Types, LockAt, NoLock, LabelledAt, CpuLabels, TaskLabels, TaskCalls, OnClock, CountedAt, EnabledAt, Holds, Depth, tickslock, Handler, WithTicks, WithOwn, WithScan, LockFree
<1>4. /\ hart' = [hart EXCEPT ![c] = PopOff(hart[c])] /\ hart[c] \in Hart /\ PopOff(hart[c]) \in Hart
      /\ hart'[c].noff = hart[c].noff - 1 /\ (hart'[c].intena <=> hart[c].intena)
      /\ (hart'[c].intr <=> hart[c].noff = 1 /\ hart[c].intena)
  BY <1>1, <1>2, <1>3, PopOffFacts DEF Types, Forkret, Release
<1>5. /\ owner' = [owner EXCEPT ![x] = NoCpu] /\ lab'[x] = "sysret"
      /\ UNCHANGED <<want, trapped, who, scan>>
  BY <1>1, <1>2, <1>3 DEF Types, Forkret, Release, Goes, Is
<1>6. Elsewhere(c)
  BY <1>1, <1>2, <1>3 DEF Types, Elsewhere, Forkret, Release, Goes, Is
<1>7. UNCHANGED <<running, saved>> /\ (\A t \in Tasks : tstate'[t] = tstate[t]) /\ (\A t \in Tasks : t \in due' => t \in due)
  BY <1>2 DEF Forkret, Release, Goes, Is
<1>8. c = x \/ (lab'[c] = "switched" /\ scan'[c] = x)
  BY <1>1, <1>2, <1>6 DEF PlacedAt, Forkret, Release, Goes, Is
<1>9. LabelledAt(x)'
  BY <1>1, <1>2, <1>3, <1>5 DEF LabelledAt, Handler, WithTicks, WithOwn, WithScan, LockFree, OnClock, TaskCalls, TaskLabels, CpuLabels
<1>10. Types'
  <2>1. hart' \in [Cpus -> Hart]
    BY <1>1, <1>4 DEF Types
  <2>2. lab' \in [Contexts -> Labels] /\ trapped' \in [Contexts -> Origins]
    BY <1>1, <1>2, <1>9, LabelFacts DEF Types, Forkret, Release, Goes, Is
  <2> QED
    BY <1>1, <1>2, <1>3, <2>1, <2>2, NextScan DEF Types, NoLock, Tasks, Contexts, Locks, tickslock, Forkret, Release, Goes, Is
<1>11. CountedAt(c)'
  <2>1. \A l \in Locks : owner'[l] = c <=> Holds(c, l)'
    BY <1>1, <1>2, <1>3, <1>5 DEF Types, CountedAt, Holds, tickslock, Handler, WithTicks, WithOwn, WithScan, LockFree, OnClock, TaskCalls, TaskLabels, CpuLabels
  <2>2. hart'[c].noff = Depth(x)' + (IF want'[x] = NoLock THEN 0 ELSE 1)
    BY <1>1, <1>2, <1>3, <1>4, <1>5 DEF CountedAt, Depth, Handler, WithTicks, WithOwn, WithScan, LockFree, OnClock, TaskCalls, TaskLabels, CpuLabels
  <2>3. want'[x] \in {NoLock, LockAt(c)'}
    BY <1>1, <1>2, <1>3, <1>5 DEF CountedAt, LockAt, NoLock, tickslock
  <2> QED
    BY <1>1, <1>2, <1>3, <1>5, <2>1, <2>2, <2>3 DEF CountedAt, NoLock
<1>12. EnabledAt(c)'
  BY <1>1, <1>2, <1>3, <1>4, <1>5 DEF EnabledAt, CountedAt, Depth, LabelledAt, Handler, WithTicks, WithOwn, WithScan, LockFree, OnClock, TaskCalls, TaskLabels, CpuLabels
<1>13. ClockedAt(c)'
  BY <1>1, <1>2, <1>3, <1>5, <1>7 DEF ClockedAt, Tasks, Handler, WithTicks, WithOwn, WithScan, LockFree, OnClock, TaskCalls, TaskLabels, CpuLabels
<1>14. ~panicked'
  BY <1>1, <1>2, <1>3 DEF Forkret, Release, Goes, Is, Types, Hart
<1>15. lab'[x] \in {"chan", "sleeping"} => x \notin due'
  BY <1>1, <1>2, <1>3, <1>5, <1>7 DEF Rousing, LabelledAt, Handler, WithTicks, WithOwn, WithScan, LockFree, OnClock, TaskCalls, TaskLabels, CpuLabels
<1>16. lab[x] \in {"wake", "waking"} => lab'[x] \in {"wake", "waking"}
  BY <1>2, <1>3, <1>5 DEF Handler
<1>17. lab'[x] \notin {"back", "woken"}
  BY <1>1, <1>2, <1>3, <1>5 DEF LabelledAt, Handler, WithTicks, WithOwn, WithScan, LockFree, OnClock, TaskCalls, TaskLabels, CpuLabels
<1> QED
  BY <1>10, <1>6, <1>7, <1>8, <1>9, <1>11, <1>12, <1>13, <1>14, <1>15, <1>16, <1>17, CalmSteps

LEMMA SyscallTrapStep ==
  ASSUME Inv, NEW c \in Cpus, NEW x \in Contexts, x = running[c], SyscallTrap(c)
  PROVE  Inv'
<1> USE SetFacts
<1>1. /\ Types /\ Placed /\ PlacedAt(c) /\ Kept /\ Rousing /\ ~panicked
      /\ LabelledAt(x) /\ CountedAt(c) /\ EnabledAt(c) /\ ClockedAt(c)
  BY DEF Inv, Placed, NoTrapPanic
<1>2. lab[x] = "user" /\ running' = running
  BY <1>1 DEF SyscallTrap, Is
<1>3. hart' = hart /\ hart[c] \in Hart
  BY <1>1, <1>2 DEF Types, SyscallTrap, Is, Goes
<1>4. lab'[x] \in {"uptime", "sleep"} /\ UNCHANGED <<hart, owner, want, who, scan, trapped>>
  BY <1>1, <1>2 DEF Types, SyscallTrap, Goes
<1>5. Elsewhere(c)
  BY <1>1, <1>2 DEF Types, Elsewhere, SyscallTrap, Is, Goes
<1>6. UNCHANGED <<running, saved>> /\ (\A t \in Tasks : tstate'[t] = tstate[t]) /\ (\A t \in Tasks : t \in due' => t \in due)
  BY <1>2 DEF SyscallTrap, Is, Goes
<1>7. c = x \/ (lab'[c] = "switched" /\ scan'[c] = x)
  BY <1>1, <1>2, <1>5 DEF PlacedAt, SyscallTrap, Is, Goes
<1>8. LabelledAt(x)'
  BY <1>1, <1>2, <1>4 DEF LabelledAt, Handler, WithTicks, WithOwn, WithScan, LockFree, OnClock, TaskCalls, TaskLabels, CpuLabels
<1>9. Types'
  <2>1. hart' \in [Cpus -> Hart]
    BY <1>1, <1>3 DEF Types
  <2>2. lab' \in [Contexts -> Labels] /\ trapped' \in [Contexts -> Origins]
    BY <1>1, <1>2, <1>8, LabelFacts DEF Types, SyscallTrap, Is, Goes
  <2> QED
    BY <1>1, <1>2, <2>1, <2>2, NextScan DEF Types, NoLock, Tasks, Contexts, Locks, tickslock, SyscallTrap, Is, Goes
<1>10. CountedAt(c)'
  <2>1. \A l \in Locks : owner'[l] = c <=> Holds(c, l)'
    BY <1>1, <1>2, <1>4 DEF Types, CountedAt, Holds, tickslock, Handler, WithTicks, WithOwn, WithScan, LockFree, OnClock, TaskCalls, TaskLabels, CpuLabels
  <2>2. hart'[c].noff = Depth(x)' + (IF want'[x] = NoLock THEN 0 ELSE 1)
    BY <1>1, <1>2, <1>3, <1>4 DEF CountedAt, Depth, Handler, WithTicks, WithOwn, WithScan, LockFree, OnClock, TaskCalls, TaskLabels, CpuLabels
  <2>3. want'[x] \in {NoLock, LockAt(c)'}
    BY <1>1, <1>2, <1>4 DEF CountedAt, LockAt, NoLock, tickslock
  <2> QED
    BY <1>1, <1>2, <1>4, <2>1, <2>2, <2>3 DEF CountedAt, NoLock
<1>11. EnabledAt(c)'
  BY <1>1, <1>2, <1>3, <1>4 DEF EnabledAt, CountedAt, Depth, LabelledAt, Handler, WithTicks, WithOwn, WithScan, LockFree, OnClock, TaskCalls, TaskLabels, CpuLabels
<1>12. ClockedAt(c)'
  BY <1>1, <1>2, <1>4, <1>6 DEF ClockedAt, Tasks, Handler, WithTicks, WithOwn, WithScan, LockFree, OnClock, TaskCalls, TaskLabels, CpuLabels
<1>13. ~panicked'
  BY <1>1, <1>2, <1>4 DEF SyscallTrap, Is, Goes
<1>14. lab'[x] \in {"chan", "sleeping"} => x \notin due'
  BY <1>1, <1>2, <1>4, <1>6 DEF Rousing, LabelledAt, Handler, WithTicks, WithOwn, WithScan, LockFree, OnClock, TaskCalls, TaskLabels, CpuLabels
<1>15. lab[x] \in {"wake", "waking"} => lab'[x] \in {"wake", "waking"}
  BY <1>2, <1>4 DEF Handler
<1>16. lab'[x] \notin {"back", "woken"}
  BY <1>1, <1>2, <1>4 DEF LabelledAt, Handler, WithTicks, WithOwn, WithScan, LockFree, OnClock, TaskCalls, TaskLabels, CpuLabels
<1> QED
  BY <1>9, <1>5, <1>6, <1>7, <1>8, <1>10, <1>11, <1>12, <1>13, <1>14, <1>15, <1>16, CalmSteps

LEMMA UsertrapretStep ==
  ASSUME Inv, NEW c \in Cpus, NEW x \in Contexts, x = running[c], Usertrapret(c)
  PROVE  Inv'
<1> USE SetFacts
<1>1. /\ Types /\ Placed /\ PlacedAt(c) /\ Kept /\ Rousing /\ ~panicked
      /\ LabelledAt(x) /\ CountedAt(c) /\ EnabledAt(c) /\ ClockedAt(c)
  BY DEF Inv, Placed, NoTrapPanic
<1>2. lab[x] = "sysret" /\ running' = running /\ x \in Tasks
  BY <1>1 DEF Usertrapret, Is, LabelledAt, CpuLabels, TaskLabels, TaskCalls, OnClock
<1>3. hart[c].noff = 0 /\ want[x] = NoLock /\ trapped[x] = "no"
  BY <1>1, <1>2 DEF CountedAt, Depth, LabelledAt, Handler, LockFree, LockAt, NoLock
<1>4. /\ hart' = [hart EXCEPT ![c] = IntrOn(hart[c])] /\ hart[c] \in Hart /\ hart'[c] \in Hart
      /\ hart'[c].noff = 0 /\ hart'[c].intr /\ (hart'[c].intena <=> hart[c].intena)
  <2>1. hart[c] \in Hart
    BY <1>1 DEF Types
  <2>2. hart' = [hart EXCEPT ![c] = IntrOn(hart[c])]
    BY <2>1, <1>1 DEF Types, IntrOn, IntrOff, Usertrapret
  <2>3. hart'[c] = IntrOn(hart[c])
    BY <1>1, <2>2 DEF Types
  <2>4. hart'[c] \in Hart /\ hart'[c].noff = hart[c].noff /\ (hart'[c].intr <=> TRUE)
    BY <2>1, <2>3, IntrFacts
  <2>5. hart'[c].intena <=> hart[c].intena
    BY <2>1, <2>3, IntrFacts
  <2> QED
    BY <1>2, <1>3, <2>1, <2>2, <2>4, <2>5
<1>5. lab'[x] = "user" /\ UNCHANGED <<owner, want, who, scan, trapped>>
  BY <1>1, <1>2, <1>3 DEF Types, Usertrapret, Goes
<1>6. Elsewhere(c)
  BY <1>1, <1>2, <1>3 DEF Types, Elsewhere, Usertrapret, Is, Goes
<1>7. UNCHANGED <<running, saved>> /\ (\A t \in Tasks : tstate'[t] = tstate[t]) /\ (\A t \in Tasks : t \in due' => t \in due)
  BY <1>2 DEF Usertrapret, Is, Goes
<1>8. c = x \/ (lab'[c] = "switched" /\ scan'[c] = x)
  BY <1>1, <1>2, <1>6 DEF PlacedAt, Usertrapret, Is, Goes
<1>9. LabelledAt(x)'
  BY <1>1, <1>2, <1>3, <1>5 DEF LabelledAt, Handler, WithTicks, WithOwn, WithScan, LockFree, OnClock, TaskCalls, TaskLabels, CpuLabels
<1>10. Types'
  <2>1. hart' \in [Cpus -> Hart]
    BY <1>1, <1>4 DEF Types
  <2>2. lab' \in [Contexts -> Labels] /\ trapped' \in [Contexts -> Origins]
    BY <1>1, <1>2, <1>9, LabelFacts DEF Types, Usertrapret, Is, Goes
  <2> QED
    BY <1>1, <1>2, <1>3, <2>1, <2>2, NextScan DEF Types, NoLock, Tasks, Contexts, Locks, tickslock, Usertrapret, Is, Goes
<1>11. CountedAt(c)'
  <2>1. \A l \in Locks : owner'[l] = c <=> Holds(c, l)'
    BY <1>1, <1>2, <1>3, <1>5 DEF Types, CountedAt, Holds, tickslock, Handler, WithTicks, WithOwn, WithScan, LockFree, OnClock, TaskCalls, TaskLabels, CpuLabels
  <2>2. hart'[c].noff = Depth(x)' + (IF want'[x] = NoLock THEN 0 ELSE 1)
    BY <1>1, <1>2, <1>3, <1>4, <1>5 DEF CountedAt, Depth, Handler, WithTicks, WithOwn, WithScan, LockFree, OnClock, TaskCalls, TaskLabels, CpuLabels
  <2>3. want'[x] \in {NoLock, LockAt(c)'}
    BY <1>1, <1>2, <1>3, <1>5 DEF CountedAt, LockAt, NoLock, tickslock
  <2> QED
    BY <1>1, <1>2, <1>3, <1>5, <2>1, <2>2, <2>3 DEF CountedAt, NoLock
<1>12. EnabledAt(c)'
  BY <1>1, <1>2, <1>3, <1>4, <1>5 DEF EnabledAt, CountedAt, Depth, LabelledAt, Handler, WithTicks, WithOwn, WithScan, LockFree, OnClock, TaskCalls, TaskLabels, CpuLabels
<1>13. ClockedAt(c)'
  BY <1>1, <1>2, <1>3, <1>5, <1>7 DEF ClockedAt, Tasks, Handler, WithTicks, WithOwn, WithScan, LockFree, OnClock, TaskCalls, TaskLabels, CpuLabels
<1>14. ~panicked'
  BY <1>1, <1>2, <1>3, <1>5 DEF Usertrapret, Is, Goes
<1>15. lab'[x] \in {"chan", "sleeping"} => x \notin due'
  BY <1>1, <1>2, <1>3, <1>5, <1>7 DEF Rousing, LabelledAt, Handler, WithTicks, WithOwn, WithScan, LockFree, OnClock, TaskCalls, TaskLabels, CpuLabels
<1>16. lab[x] \in {"wake", "waking"} => lab'[x] \in {"wake", "waking"}
  BY <1>2, <1>3, <1>5 DEF Handler
<1>17. lab'[x] \notin {"back", "woken"}
  BY <1>1, <1>2, <1>3, <1>5 DEF LabelledAt, Handler, WithTicks, WithOwn, WithScan, LockFree, OnClock, TaskCalls, TaskLabels, CpuLabels
<1> QED
  BY <1>10, <1>6, <1>7, <1>8, <1>9, <1>11, <1>12, <1>13, <1>14, <1>15, <1>16, <1>17, CalmSteps

LEMMA SleepStartStep ==
  ASSUME Inv, NEW c \in Cpus, NEW x \in Contexts, x = running[c], SleepStart(c)
  PROVE  Inv'
<1> USE SetFacts
<1>1. /\ Types /\ Placed /\ PlacedAt(c) /\ Kept /\ Rousing /\ ~panicked
      /\ LabelledAt(x) /\ CountedAt(c) /\ EnabledAt(c) /\ ClockedAt(c)
  BY DEF Inv, Placed, NoTrapPanic
<1>2. lab[x] = "start" /\ running' = running
  BY <1>1 DEF SleepStart, Is
<1>3. hart' = hart /\ hart[c] \in Hart
  BY <1>1, <1>2 DEF Types, SleepStart, Is, Goes
<1>4. lab'[x] = "test" /\ x \notin due' /\ UNCHANGED <<hart, owner, want, who, scan, trapped>>
  BY <1>1, <1>2 DEF Types, SleepStart, Goes
<1>5. Elsewhere(c)
  BY <1>1, <1>2 DEF Types, Elsewhere, SleepStart, Is, Goes
<1>6. UNCHANGED <<running, saved>> /\ (\A t \in Tasks : tstate'[t] = tstate[t]) /\ (\A t \in Tasks : t \in due' => t \in due)
  BY <1>2 DEF SleepStart, Is, Goes
<1>7. c = x \/ (lab'[c] = "switched" /\ scan'[c] = x)
  BY <1>1, <1>2, <1>5 DEF PlacedAt, SleepStart, Is, Goes
<1>8. LabelledAt(x)'
  BY <1>1, <1>2, <1>4 DEF LabelledAt, Handler, WithTicks, WithOwn, WithScan, LockFree, OnClock, TaskCalls, TaskLabels, CpuLabels
<1>9. Types'
  <2>1. hart' \in [Cpus -> Hart]
    BY <1>1, <1>3 DEF Types
  <2>2. lab' \in [Contexts -> Labels] /\ trapped' \in [Contexts -> Origins]
    BY <1>1, <1>2, <1>8, LabelFacts DEF Types, SleepStart, Is, Goes
  <2> QED
    BY <1>1, <1>2, <2>1, <2>2, NextScan DEF Types, NoLock, Tasks, Contexts, Locks, tickslock, SleepStart, Is, Goes
<1>10. CountedAt(c)'
  <2>1. \A l \in Locks : owner'[l] = c <=> Holds(c, l)'
    BY <1>1, <1>2, <1>4 DEF Types, CountedAt, Holds, tickslock, Handler, WithTicks, WithOwn, WithScan, LockFree, OnClock, TaskCalls, TaskLabels, CpuLabels
  <2>2. hart'[c].noff = Depth(x)' + (IF want'[x] = NoLock THEN 0 ELSE 1)
    BY <1>1, <1>2, <1>3, <1>4 DEF CountedAt, Depth, Handler, WithTicks, WithOwn, WithScan, LockFree, OnClock, TaskCalls, TaskLabels, CpuLabels
  <2>3. want'[x] \in {NoLock, LockAt(c)'}
    BY <1>1, <1>2, <1>4 DEF CountedAt, LockAt, NoLock, tickslock
  <2> QED
    BY <1>1, <1>2, <1>4, <2>1, <2>2, <2>3 DEF CountedAt, NoLock
<1>11. EnabledAt(c)'
  BY <1>1, <1>2, <1>3, <1>4 DEF EnabledAt, CountedAt, Depth, LabelledAt, Handler, WithTicks, WithOwn, WithScan, LockFree, OnClock, TaskCalls, TaskLabels, CpuLabels
<1>12. ClockedAt(c)'
  BY <1>1, <1>2, <1>4, <1>6 DEF ClockedAt, Tasks, Handler, WithTicks, WithOwn, WithScan, LockFree, OnClock, TaskCalls, TaskLabels, CpuLabels
<1>13. ~panicked'
  BY <1>1, <1>2, <1>4 DEF SleepStart, Is, Goes
<1>14. lab'[x] \in {"chan", "sleeping"} => x \notin due'
  BY <1>1, <1>2, <1>4, <1>6 DEF Rousing, LabelledAt, Handler, WithTicks, WithOwn, WithScan, LockFree, OnClock, TaskCalls, TaskLabels, CpuLabels
<1>15. lab[x] \in {"wake", "waking"} => lab'[x] \in {"wake", "waking"}
  BY <1>2, <1>4 DEF Handler
<1>16. lab'[x] \notin {"back", "woken"}
  BY <1>1, <1>2, <1>4 DEF LabelledAt, Handler, WithTicks, WithOwn, WithScan, LockFree, OnClock, TaskCalls, TaskLabels, CpuLabels
<1> QED
  BY <1>9, <1>5, <1>6, <1>7, <1>8, <1>10, <1>11, <1>12, <1>13, <1>14, <1>15, <1>16, CalmSteps

LEMMA ScheduleRoundStep ==
  ASSUME Inv, NEW c \in Cpus, NEW x \in Contexts, x = running[c], ScheduleRound(c)
  PROVE  Inv'
<1> USE SetFacts
<1>1. /\ Types /\ Placed /\ PlacedAt(c) /\ Kept /\ Rousing /\ ~panicked
      /\ LabelledAt(x) /\ CountedAt(c) /\ EnabledAt(c) /\ ClockedAt(c)
  BY DEF Inv, Placed, NoTrapPanic
<1>2. lab[x] = "loop" /\ running' = running /\ x \in Cpus /\ x = c
  BY <1>1 DEF ScheduleRound, Is, PlacedAt, LabelledAt, CpuLabels, TaskLabels, TaskCalls, OnClock
<1>3. hart[c].noff = 0 /\ want[x] = NoLock /\ trapped[x] = "no"
  BY <1>1, <1>2 DEF CountedAt, Depth, LabelledAt, Handler, LockFree, LockAt, NoLock
<1>4. /\ hart' = [hart EXCEPT ![c] = IntrOn(hart[c])] /\ hart[c] \in Hart /\ hart'[c] \in Hart
      /\ hart'[c].noff = 0 /\ hart'[c].intr /\ (hart'[c].intena <=> hart[c].intena)
  <2>1. hart[c] \in Hart
    BY <1>1 DEF Types
  <2>2. hart' = [hart EXCEPT ![c] = IntrOn(hart[c])]
    BY <2>1, <1>1 DEF Types, IntrOn, IntrOff, ScheduleRound
  <2>3. hart'[c] = IntrOn(hart[c])
    BY <1>1, <2>2 DEF Types
  <2>4. hart'[c] \in Hart /\ hart'[c].noff = hart[c].noff /\ (hart'[c].intr <=> TRUE)
    BY <2>1, <2>3, IntrFacts
  <2>5. hart'[c].intena <=> hart[c].intena
    BY <2>1, <2>3, IntrFacts
  <2> QED
    BY <1>2, <1>3, <2>1, <2>2, <2>4, <2>5
<1>5. lab'[x] = "scan" /\ UNCHANGED <<owner, want, who, scan, trapped>>
  BY <1>1, <1>2, <1>3 DEF Types, ScheduleRound, Goes
<1>6. Elsewhere(c)
  BY <1>1, <1>2, <1>3 DEF Types, Elsewhere, ScheduleRound, Is, Goes
<1>7. UNCHANGED <<running, saved>> /\ (\A t \in Tasks : tstate'[t] = tstate[t]) /\ (\A t \in Tasks : t \in due' => t \in due)
  BY <1>2 DEF ScheduleRound, Is, Goes
<1>8. c = x \/ (lab'[c] = "switched" /\ scan'[c] = x)
  BY <1>1, <1>2, <1>6 DEF PlacedAt, ScheduleRound, Is, Goes
<1>9. LabelledAt(x)'
  BY <1>1, <1>2, <1>3, <1>5 DEF LabelledAt, Handler, WithTicks, WithOwn, WithScan, LockFree, OnClock, TaskCalls, TaskLabels, CpuLabels
<1>10. Types'
  <2>1. hart' \in [Cpus -> Hart]
    BY <1>1, <1>4 DEF Types
  <2>2. lab' \in [Contexts -> Labels] /\ trapped' \in [Contexts -> Origins]
    BY <1>1, <1>2, <1>9, LabelFacts DEF Types, ScheduleRound, Is, Goes
  <2> QED
    BY <1>1, <1>2, <1>3, <2>1, <2>2, NextScan DEF Types, NoLock, Tasks, Contexts, Locks, tickslock, ScheduleRound, Is, Goes
<1>11. CountedAt(c)'
  <2>1. \A l \in Locks : owner'[l] = c <=> Holds(c, l)'
    BY <1>1, <1>2, <1>3, <1>5 DEF Types, CountedAt, Holds, tickslock, Handler, WithTicks, WithOwn, WithScan, LockFree, OnClock, TaskCalls, TaskLabels, CpuLabels
  <2>2. hart'[c].noff = Depth(x)' + (IF want'[x] = NoLock THEN 0 ELSE 1)
    BY <1>1, <1>2, <1>3, <1>4, <1>5 DEF CountedAt, Depth, Handler, WithTicks, WithOwn, WithScan, LockFree, OnClock, TaskCalls, TaskLabels, CpuLabels
  <2>3. want'[x] \in {NoLock, LockAt(c)'}
    BY <1>1, <1>2, <1>3, <1>5 DEF CountedAt, LockAt, NoLock, tickslock
  <2> QED
    BY <1>1, <1>2, <1>3, <1>5, <2>1, <2>2, <2>3 DEF CountedAt, NoLock
<1>12. EnabledAt(c)'
  BY <1>1, <1>2, <1>3, <1>4, <1>5 DEF EnabledAt, CountedAt, Depth, LabelledAt, Handler, WithTicks, WithOwn, WithScan, LockFree, OnClock, TaskCalls, TaskLabels, CpuLabels
<1>13. ClockedAt(c)'
  BY <1>1, <1>2, <1>3, <1>5, <1>7 DEF ClockedAt, Tasks, Handler, WithTicks, WithOwn, WithScan, LockFree, OnClock, TaskCalls, TaskLabels, CpuLabels
<1>14. ~panicked'
  BY <1>1, <1>2, <1>3, <1>5 DEF ScheduleRound, Is, Goes
<1>15. lab'[x] \in {"chan", "sleeping"} => x \notin due'
  BY <1>1, <1>2, <1>3, <1>5, <1>7 DEF Rousing, LabelledAt, Handler, WithTicks, WithOwn, WithScan, LockFree, OnClock, TaskCalls, TaskLabels, CpuLabels
<1>16. lab[x] \in {"wake", "waking"} => lab'[x] \in {"wake", "waking"}
  BY <1>2, <1>3, <1>5 DEF Handler
<1>17. lab'[x] \notin {"back", "woken"}
  BY <1>1, <1>2, <1>3, <1>5 DEF LabelledAt, Handler, WithTicks, WithOwn, WithScan, LockFree, OnClock, TaskCalls, TaskLabels, CpuLabels
<1> QED
  BY <1>10, <1>6, <1>7, <1>8, <1>9, <1>11, <1>12, <1>13, <1>14, <1>15, <1>16, <1>17, CalmSteps

LEMMA HandledTaskStep ==
  ASSUME Inv, NEW c \in Cpus, NEW x \in Contexts, x = running[c], Handled(c), x \in Tasks
  PROVE  Inv'
<1> USE SetFacts
<1>1. /\ Types /\ Placed /\ PlacedAt(c) /\ Kept /\ Rousing /\ ~panicked
      /\ LabelledAt(x) /\ CountedAt(c) /\ EnabledAt(c) /\ ClockedAt(c)
  BY DEF Inv, Placed, NoTrapPanic
<1>2. /\ lab[x] = "handled" /\ lab' = [lab EXCEPT ![x] = "yield"]
      /\ UNCHANGED <<hart, running, owner, want, trapped, saved, who, scan, tstate, due, panicked>>
  BY SetFacts DEF Handled, Goes, Is
<1>3. lab[x] = "handled" /\ running' = running
  BY <1>1, <1>2
<1>4. want[x] = NoLock
  BY <1>1, <1>3 DEF CountedAt, LockAt
<1>5. hart' = hart /\ hart[c] \in Hart
  BY <1>1, <1>3, <1>2 DEF Types
<1>6. lab'[x] = "yield" /\ UNCHANGED <<hart, owner, want, who, scan, trapped>>
  BY <1>1, <1>3, <1>4, <1>2 DEF Types
<1>7. Elsewhere(c)
  BY <1>1, <1>3, <1>4, <1>2 DEF Types, Elsewhere
<1>8. UNCHANGED <<running, saved>> /\ (\A t \in Tasks : tstate'[t] = tstate[t]) /\ (\A t \in Tasks : t \in due' => t \in due)
  BY <1>3, <1>2
<1>9. c = x \/ (lab'[c] = "switched" /\ scan'[c] = x)
  BY <1>1, <1>3, <1>7, <1>2 DEF PlacedAt
<1>10. LabelledAt(x)'
  BY <1>1, <1>3, <1>4, <1>6 DEF LabelledAt, Handler, WithTicks, WithOwn, WithScan, LockFree, OnClock, TaskCalls, TaskLabels, CpuLabels
<1>11. Types'
  <2>1. hart' \in [Cpus -> Hart]
    BY <1>1, <1>5 DEF Types
  <2>2. lab' \in [Contexts -> Labels] /\ trapped' \in [Contexts -> Origins]
    BY <1>1, <1>3, <1>10, LabelFacts, <1>2 DEF Types
  <2> QED
    BY <1>1, <1>3, <1>4, <2>1, <2>2, NextScan, <1>2 DEF Types, NoLock, Tasks, Contexts, Locks, tickslock
<1>12. CountedAt(c)'
  <2>1. \A l \in Locks : owner'[l] = c <=> Holds(c, l)'
    BY <1>1, <1>3, <1>4, <1>6 DEF Types, CountedAt, Holds, tickslock, Handler, WithTicks, WithOwn, WithScan, LockFree, OnClock, TaskCalls, TaskLabels, CpuLabels
  <2>2. hart'[c].noff = Depth(x)' + (IF want'[x] = NoLock THEN 0 ELSE 1)
    BY <1>1, <1>3, <1>4, <1>5, <1>6 DEF CountedAt, Depth, Handler, WithTicks, WithOwn, WithScan, LockFree, OnClock, TaskCalls, TaskLabels, CpuLabels
  <2>3. want'[x] \in {NoLock, LockAt(c)'}
    BY <1>1, <1>3, <1>4, <1>6 DEF CountedAt, LockAt, NoLock, tickslock
  <2> QED
    BY <1>1, <1>3, <1>4, <1>6, <2>1, <2>2, <2>3 DEF CountedAt, NoLock
<1>13. EnabledAt(c)'
  BY <1>1, <1>3, <1>4, <1>5, <1>6 DEF EnabledAt, CountedAt, Depth, LabelledAt, Handler, WithTicks, WithOwn, WithScan, LockFree, OnClock, TaskCalls, TaskLabels, CpuLabels
<1>14. ClockedAt(c)'
  BY <1>1, <1>3, <1>4, <1>6, <1>8 DEF ClockedAt, Tasks, Handler, WithTicks, WithOwn, WithScan, LockFree, OnClock, TaskCalls, TaskLabels, CpuLabels
<1>15. ~panicked'
  BY <1>1, <1>3, <1>4, <1>6, <1>2
<1>16. lab'[x] \in {"chan", "sleeping"} => x \notin due'
  BY <1>1, <1>3, <1>4, <1>6, <1>8 DEF Rousing, LabelledAt, Handler, WithTicks, WithOwn, WithScan, LockFree, OnClock, TaskCalls, TaskLabels, CpuLabels
<1>17. lab[x] \in {"wake", "waking"} => lab'[x] \in {"wake", "waking"}
  BY <1>3, <1>4, <1>6 DEF Handler
<1>18. lab'[x] \notin {"back", "woken"}
  BY <1>1, <1>3, <1>4, <1>6 DEF LabelledAt, Handler, WithTicks, WithOwn, WithScan, LockFree, OnClock, TaskCalls, TaskLabels, CpuLabels
<1> QED
  BY <1>11, <1>7, <1>8, <1>9, <1>10, <1>12, <1>13, <1>14, <1>15, <1>16, <1>17, <1>18, CalmSteps

LEMMA HandledSchedulerStep ==
  ASSUME Inv, NEW c \in Cpus, NEW x \in Contexts, x = running[c], Handled(c), x \notin Tasks
  PROVE  Inv'
<1> USE SetFacts
<1>1. /\ Types /\ Placed /\ PlacedAt(c) /\ Kept /\ Rousing /\ ~panicked
      /\ LabelledAt(x) /\ CountedAt(c) /\ EnabledAt(c) /\ ClockedAt(c)
  BY DEF Inv, Placed, NoTrapPanic
<1>2. /\ lab[x] = "handled" /\ lab' = [lab EXCEPT ![x] = trapped[x]] /\ trapped' = [trapped EXCEPT ![x] = "no"]
      /\ hart' = [hart EXCEPT ![c] = [hart[c] EXCEPT !.intr = TRUE]]
      /\ UNCHANGED <<running, owner, want, saved, who, scan, tstate, due, panicked>>
  BY SetFacts DEF Handled, Sret, Goes, Is
<1>3. lab[x] = "handled" /\ running' = running /\ x = c
  BY <1>1, <1>2 DEF PlacedAt
<1>4. hart[c].noff = 0 /\ want[x] = NoLock /\ trapped[x] \in {"loop", "scan"}
  BY <1>1, <1>3 DEF CountedAt, Depth, LockFree, LockAt, LabelledAt, Handler
<1>5. /\ hart' = [hart EXCEPT ![c] = IntrOn(hart[c])] /\ hart[c] \in Hart /\ hart'[c] \in Hart
      /\ hart'[c].noff = 0 /\ hart'[c].intr /\ (hart'[c].intena <=> hart[c].intena)
  <2>1. hart[c] \in Hart
    BY <1>1 DEF Types
  <2>2. hart' = [hart EXCEPT ![c] = IntrOn(hart[c])]
    BY <2>1, <1>1, <1>2 DEF Types, IntrOn, IntrOff
  <2>3. hart'[c] = IntrOn(hart[c])
    BY <1>1, <2>2 DEF Types
  <2>4. hart'[c] \in Hart /\ hart'[c].noff = hart[c].noff /\ (hart'[c].intr <=> TRUE)
    BY <2>1, <2>3, IntrFacts
  <2>5. hart'[c].intena <=> hart[c].intena
    BY <2>1, <2>3, IntrFacts
  <2> QED
    BY <1>3, <1>4, <2>1, <2>2, <2>4, <2>5
<1>6. lab'[x] = trapped[x] /\ trapped'[x] = "no" /\ UNCHANGED <<owner, want, who, scan>>
  BY <1>1, <1>3, <1>4, <1>2 DEF Types
<1>7. Elsewhere(c)
  BY <1>1, <1>3, <1>4, <1>2 DEF Types, Elsewhere
<1>8. UNCHANGED <<running, saved>> /\ (\A t \in Tasks : tstate'[t] = tstate[t]) /\ (\A t \in Tasks : t \in due' => t \in due)
  BY <1>3, <1>2
<1>9. c = x \/ (lab'[c] = "switched" /\ scan'[c] = x)
  BY <1>1, <1>3, <1>7, <1>2 DEF PlacedAt
<1>10. LabelledAt(x)'
  BY <1>1, <1>3, <1>4, <1>6 DEF LabelledAt, Handler, WithTicks, WithOwn, WithScan, LockFree, OnClock, TaskCalls, TaskLabels, CpuLabels
<1>11. Types'
  <2>1. hart' \in [Cpus -> Hart]
    BY <1>1, <1>5 DEF Types
  <2>2. lab' \in [Contexts -> Labels] /\ trapped' \in [Contexts -> Origins]
    BY <1>1, <1>3, <1>10, LabelFacts, <1>2 DEF Types
  <2> QED
    BY <1>1, <1>3, <1>4, <2>1, <2>2, NextScan, <1>2 DEF Types, NoLock, Tasks, Contexts, Locks, tickslock
<1>12. CountedAt(c)'
  <2>1. \A l \in Locks : owner'[l] = c <=> Holds(c, l)'
    BY <1>1, <1>3, <1>4, <1>6 DEF Types, CountedAt, Holds, tickslock, Handler, WithTicks, WithOwn, WithScan, LockFree, OnClock, TaskCalls, TaskLabels, CpuLabels
  <2>2. hart'[c].noff = Depth(x)' + (IF want'[x] = NoLock THEN 0 ELSE 1)
    BY <1>1, <1>3, <1>4, <1>5, <1>6 DEF CountedAt, Depth, Handler, WithTicks, WithOwn, WithScan, LockFree, OnClock, TaskCalls, TaskLabels, CpuLabels
  <2>3. want'[x] \in {NoLock, LockAt(c)'}
    BY <1>1, <1>3, <1>4, <1>6 DEF CountedAt, LockAt, NoLock, tickslock
  <2> QED
    BY <1>1, <1>3, <1>4, <1>6, <2>1, <2>2, <2>3 DEF CountedAt, NoLock
<1>13. EnabledAt(c)'
  BY <1>1, <1>3, <1>4, <1>5, <1>6 DEF EnabledAt, CountedAt, Depth, LabelledAt, Handler, WithTicks, WithOwn, WithScan, LockFree, OnClock, TaskCalls, TaskLabels, CpuLabels
<1>14. ClockedAt(c)'
  BY <1>1, <1>3, <1>4, <1>6, <1>8 DEF ClockedAt, Tasks, Handler, WithTicks, WithOwn, WithScan, LockFree, OnClock, TaskCalls, TaskLabels, CpuLabels
<1>15. ~panicked'
  BY <1>1, <1>3, <1>4, <1>6, <1>2
<1>16. lab'[x] \in {"chan", "sleeping"} => x \notin due'
  BY <1>1, <1>3, <1>4, <1>6, <1>8 DEF Rousing, LabelledAt, Handler, WithTicks, WithOwn, WithScan, LockFree, OnClock, TaskCalls, TaskLabels, CpuLabels
<1>17. lab[x] \in {"wake", "waking"} => lab'[x] \in {"wake", "waking"}
  BY <1>3, <1>4, <1>6 DEF Handler
<1>18. lab'[x] \notin {"back", "woken"}
  BY <1>1, <1>3, <1>4, <1>6 DEF LabelledAt, Handler, WithTicks, WithOwn, WithScan, LockFree, OnClock, TaskCalls, TaskLabels, CpuLabels
<1> QED
  BY <1>11, <1>7, <1>8, <1>9, <1>10, <1>12, <1>13, <1>14, <1>15, <1>16, <1>17, <1>18, CalmSteps

LEMMA SleepTestReturns ==
  ASSUME Inv, NEW c \in Cpus, NEW x \in Contexts, x = running[c],
         SleepTest(c), Release(c, tickslock, hart[c]), Goes(c, "sysret")
  PROVE  Inv'
<1> USE SetFacts
<1>1. /\ Types /\ Placed /\ PlacedAt(c) /\ Kept /\ Rousing /\ ~panicked
      /\ LabelledAt(x) /\ CountedAt(c) /\ EnabledAt(c) /\ ClockedAt(c)
  BY DEF Inv, Placed, NoTrapPanic
<1>2. /\ lab[x] = "test" /\ lab' = [lab EXCEPT ![x] = "sysret"] /\ owner' = [owner EXCEPT ![tickslock] = NoCpu]
      /\ hart' = [hart EXCEPT ![c] = PopOff(hart[c])]
      /\ panicked' = (panicked \/ owner[tickslock] # c \/ hart[c].noff < 1 \/ hart[c].intr)
      /\ UNCHANGED <<running, want, trapped, saved, who, scan, tstate, due>>
  BY SetFacts DEF SleepTest, Release, Goes, Is
<1>3. lab[x] = "test" /\ running' = running
  BY <1>1, <1>2
<1>4. owner[tickslock] = c /\ hart[c].noff >= 1 /\ ~hart[c].intr /\ want[x] = NoLock
  BY <1>1, <1>3 DEF Types, LockAt, NoLock, LabelledAt, CpuLabels, TaskLabels, TaskCalls, OnClock, CountedAt, EnabledAt, Holds, Depth, tickslock, Handler, WithTicks, WithOwn, WithScan, LockFree
<1>5. /\ hart' = [hart EXCEPT ![c] = PopOff(hart[c])] /\ hart[c] \in Hart /\ PopOff(hart[c]) \in Hart
      /\ hart'[c].noff = hart[c].noff - 1 /\ (hart'[c].intena <=> hart[c].intena)
      /\ (hart'[c].intr <=> hart[c].noff = 1 /\ hart[c].intena)
  BY <1>1, <1>3, <1>4, PopOffFacts, <1>2 DEF Types
<1>6. /\ owner' = [owner EXCEPT ![tickslock] = NoCpu] /\ lab'[x] = "sysret"
      /\ UNCHANGED <<want, trapped, who, scan>>
  BY <1>1, <1>3, <1>4, <1>2 DEF Types
<1>7. Elsewhere(c)
  BY <1>1, <1>3, <1>4, <1>2 DEF Types, Elsewhere
<1>8. UNCHANGED <<running, saved>> /\ (\A t \in Tasks : tstate'[t] = tstate[t]) /\ (\A t \in Tasks : t \in due' => t \in due)
  BY <1>3, <1>2
<1>9. c = x \/ (lab'[c] = "switched" /\ scan'[c] = x)
  BY <1>1, <1>3, <1>7, <1>2 DEF PlacedAt
<1>10. LabelledAt(x)'
  BY <1>1, <1>3, <1>4, <1>6 DEF LabelledAt, Handler, WithTicks, WithOwn, WithScan, LockFree, OnClock, TaskCalls, TaskLabels, CpuLabels
<1>11. Types'
  <2>1. hart' \in [Cpus -> Hart]
    BY <1>1, <1>5 DEF Types
  <2>2. lab' \in [Contexts -> Labels] /\ trapped' \in [Contexts -> Origins]
    BY <1>1, <1>3, <1>10, LabelFacts, <1>2 DEF Types
  <2> QED
    BY <1>1, <1>3, <1>4, <2>1, <2>2, NextScan, <1>2 DEF Types, NoLock, Tasks, Contexts, Locks, tickslock
<1>12. CountedAt(c)'
  <2>1. \A l \in Locks : owner'[l] = c <=> Holds(c, l)'
    BY <1>1, <1>3, <1>4, <1>6 DEF Types, CountedAt, Holds, tickslock, Handler, WithTicks, WithOwn, WithScan, LockFree, OnClock, TaskCalls, TaskLabels, CpuLabels
  <2>2. hart'[c].noff = Depth(x)' + (IF want'[x] = NoLock THEN 0 ELSE 1)
    BY <1>1, <1>3, <1>4, <1>5, <1>6 DEF CountedAt, Depth, Handler, WithTicks, WithOwn, WithScan, LockFree, OnClock, TaskCalls, TaskLabels, CpuLabels
  <2>3. want'[x] \in {NoLock, LockAt(c)'}
    BY <1>1, <1>3, <1>4, <1>6 DEF CountedAt, LockAt, NoLock, tickslock
  <2> QED
    BY <1>1, <1>3, <1>4, <1>6, <2>1, <2>2, <2>3 DEF CountedAt, NoLock
<1>13. EnabledAt(c)'
  BY <1>1, <1>3, <1>4, <1>5, <1>6 DEF EnabledAt, CountedAt, Depth, LabelledAt, Handler, WithTicks, WithOwn, WithScan, LockFree, OnClock, TaskCalls, TaskLabels, CpuLabels
<1>14. ClockedAt(c)'
  BY <1>1, <1>3, <1>4, <1>6, <1>8 DEF ClockedAt, Tasks, Handler, WithTicks, WithOwn, WithScan, LockFree, OnClock, TaskCalls, TaskLabels, CpuLabels
<1>15. ~panicked'
  BY <1>1, <1>3, <1>4, <1>2 DEF Types, Hart
<1>16. lab'[x] \in {"chan", "sleeping"} => x \notin due'
  BY <1>1, <1>3, <1>4, <1>6, <1>8 DEF Rousing, LabelledAt, Handler, WithTicks, WithOwn, WithScan, LockFree, OnClock, TaskCalls, TaskLabels, CpuLabels
<1>17. lab[x] \in {"wake", "waking"} => lab'[x] \in {"wake", "waking"}
  BY <1>3, <1>4, <1>6 DEF Handler
<1>18. lab'[x] \notin {"back", "woken"}
  BY <1>1, <1>3, <1>4, <1>6 DEF LabelledAt, Handler, WithTicks, WithOwn, WithScan, LockFree, OnClock, TaskCalls, TaskLabels, CpuLabels
<1> QED
  BY <1>11, <1>7, <1>8, <1>9, <1>10, <1>12, <1>13, <1>14, <1>15, <1>16, <1>17, <1>18, CalmSteps

LEMMA SleepTestSleeps ==
  ASSUME Inv, NEW c \in Cpus, NEW x \in Contexts, x = running[c],
         SleepTest(c), x \notin due, Goes(c, "chan"), UNCHANGED <<owner, hart, panicked>>
  PROVE  Inv'
<1> USE SetFacts
<1>1. /\ Types /\ Placed /\ PlacedAt(c) /\ Kept /\ Rousing /\ ~panicked
      /\ LabelledAt(x) /\ CountedAt(c) /\ EnabledAt(c) /\ ClockedAt(c)
  BY DEF Inv, Placed, NoTrapPanic
<1>2. /\ lab[x] = "test" /\ lab' = [lab EXCEPT ![x] = "chan"]
      /\ UNCHANGED <<hart, running, owner, want, trapped, saved, who, scan, tstate, due, panicked>>
  BY SetFacts DEF SleepTest, Is, Goes
<1>3. lab[x] = "test" /\ running' = running
  BY <1>1, <1>2
<1>4. want[x] = NoLock
  BY <1>1, <1>3 DEF CountedAt, LockAt
<1>5. hart' = hart /\ hart[c] \in Hart
  BY <1>1, <1>3, <1>2 DEF Types
<1>6. lab'[x] = "chan" /\ x \notin due' /\ UNCHANGED <<hart, owner, want, who, scan, trapped>>
  BY <1>1, <1>3, <1>4, <1>2 DEF Types
<1>7. Elsewhere(c)
  BY <1>1, <1>3, <1>4, <1>2 DEF Types, Elsewhere
<1>8. UNCHANGED <<running, saved>> /\ (\A t \in Tasks : tstate'[t] = tstate[t]) /\ (\A t \in Tasks : t \in due' => t \in due)
  BY <1>3, <1>2
<1>9. c = x \/ (lab'[c] = "switched" /\ scan'[c] = x)
  BY <1>1, <1>3, <1>7, <1>2 DEF PlacedAt
<1>10. LabelledAt(x)'
  BY <1>1, <1>3, <1>4, <1>6 DEF LabelledAt, Handler, WithTicks, WithOwn, WithScan, LockFree, OnClock, TaskCalls, TaskLabels, CpuLabels
<1>11. Types'
  <2>1. hart' \in [Cpus -> Hart]
    BY <1>1, <1>5 DEF Types
  <2>2. lab' \in [Contexts -> Labels] /\ trapped' \in [Contexts -> Origins]
    BY <1>1, <1>3, <1>10, LabelFacts, <1>2 DEF Types
  <2> QED
    BY <1>1, <1>3, <1>4, <2>1, <2>2, NextScan, <1>2 DEF Types, NoLock, Tasks, Contexts, Locks, tickslock
<1>12. CountedAt(c)'
  <2>1. \A l \in Locks : owner'[l] = c <=> Holds(c, l)'
    BY <1>1, <1>3, <1>4, <1>6 DEF Types, CountedAt, Holds, tickslock, Handler, WithTicks, WithOwn, WithScan, LockFree, OnClock, TaskCalls, TaskLabels, CpuLabels
  <2>2. hart'[c].noff = Depth(x)' + (IF want'[x] = NoLock THEN 0 ELSE 1)
    BY <1>1, <1>3, <1>4, <1>5, <1>6 DEF CountedAt, Depth, Handler, WithTicks, WithOwn, WithScan, LockFree, OnClock, TaskCalls, TaskLabels, CpuLabels
  <2>3. want'[x] \in {NoLock, LockAt(c)'}
    BY <1>1, <1>3, <1>4, <1>6 DEF CountedAt, LockAt, NoLock, tickslock
  <2> QED
    BY <1>1, <1>3, <1>4, <1>6, <2>1, <2>2, <2>3 DEF CountedAt, NoLock
<1>13. EnabledAt(c)'
  BY <1>1, <1>3, <1>4, <1>5, <1>6 DEF EnabledAt, CountedAt, Depth, LabelledAt, Handler, WithTicks, WithOwn, WithScan, LockFree, OnClock, TaskCalls, TaskLabels, CpuLabels
<1>14. ClockedAt(c)'
  BY <1>1, <1>3, <1>4, <1>6, <1>8 DEF ClockedAt, Tasks, Handler, WithTicks, WithOwn, WithScan, LockFree, OnClock, TaskCalls, TaskLabels, CpuLabels
<1>15. ~panicked'
  BY <1>1, <1>3, <1>4, <1>6, <1>2
<1>16. lab'[x] \in {"chan", "sleeping"} => x \notin due'
  BY <1>1, <1>3, <1>4, <1>6, <1>8 DEF Rousing, LabelledAt, Handler, WithTicks, WithOwn, WithScan, LockFree, OnClock, TaskCalls, TaskLabels, CpuLabels
<1>17. lab[x] \in {"wake", "waking"} => lab'[x] \in {"wake", "waking"}
  BY <1>3, <1>4, <1>6 DEF Handler
<1>18. lab'[x] \notin {"back", "woken"}
  BY <1>1, <1>3, <1>4, <1>6 DEF LabelledAt, Handler, WithTicks, WithOwn, WithScan, LockFree, OnClock, TaskCalls, TaskLabels, CpuLabels
<1> QED
  BY <1>11, <1>7, <1>8, <1>9, <1>10, <1>12, <1>13, <1>14, <1>15, <1>16, <1>17, <1>18, CalmSteps

LEMMA ScheduleBackStep ==
  ASSUME Inv, NEW c \in Cpus, NEW x \in Contexts, x = running[c], ScheduleBack(c)
  PROVE  Inv'
<1> USE SetFacts
<1>1. /\ Types /\ Placed /\ PlacedAt(c) /\ Kept /\ Rousing /\ ~panicked
      /\ LabelledAt(x) /\ CountedAt(c) /\ EnabledAt(c) /\ ClockedAt(c)
  BY DEF Inv, Placed, NoTrapPanic
<1>2. lab[x] = "switched" /\ running' = running /\ x = c
  BY <1>1 DEF ScheduleBack, Is, PlacedAt, LabelledAt, CpuLabels, TaskLabels, TaskCalls, OnClock
<1>3. /\ owner[scan[c]] = c /\ hart[c].noff = 1 /\ ~hart[c].intr /\ want[x] = NoLock
      /\ scan[c] \in Locks /\ scan[c] # NoLock /\ trapped[x] = "no"
  BY <1>1, <1>2 DEF Types, LockAt, NoLock, LabelledAt, Handler, CountedAt, EnabledAt, Holds, Depth, tickslock, Handler, WithTicks, WithOwn, WithScan, LockFree
<1>4. /\ hart' = [hart EXCEPT ![c] = PopOff(hart[c])] /\ hart[c] \in Hart /\ PopOff(hart[c]) \in Hart
      /\ hart'[c].noff = hart[c].noff - 1 /\ (hart'[c].intena <=> hart[c].intena)
      /\ (hart'[c].intr <=> hart[c].noff = 1 /\ hart[c].intena)
  BY <1>1, <1>2, <1>3, PopOffFacts DEF Types, NextTask, ScheduleBack, Release
<1>5. /\ owner' = [owner EXCEPT ![scan[c]] = NoCpu] /\ lab'[x] \in {"loop", "scan"}
      /\ UNCHANGED <<want, trapped, who>>
  BY <1>1, <1>2, <1>3 DEF Types, ScheduleBack, NextTask, Release, Goes, Is
<1>6. Elsewhere(c)
  BY <1>1, <1>2, <1>3 DEF Types, Elsewhere, ScheduleBack, NextTask, Release, Goes, Is
<1>7. UNCHANGED <<running, saved>> /\ (\A t \in Tasks : tstate'[t] = tstate[t]) /\ (\A t \in Tasks : t \in due' => t \in due)
  BY <1>2 DEF ScheduleBack, NextTask, Release, Goes, Is
<1>8. c = x \/ (lab'[c] = "switched" /\ scan'[c] = x)
  BY <1>1, <1>2, <1>6 DEF PlacedAt, ScheduleBack, NextTask, Release, Goes, Is
<1>9. LabelledAt(x)'
  BY <1>1, <1>2, <1>3, <1>5 DEF LabelledAt, Handler, WithTicks, WithOwn, WithScan, LockFree, OnClock, TaskCalls, TaskLabels, CpuLabels
<1>10. Types'
  <2>1. hart' \in [Cpus -> Hart]
    BY <1>1, <1>4 DEF Types
  <2>2. lab' \in [Contexts -> Labels] /\ trapped' \in [Contexts -> Origins]
    BY <1>1, <1>2, <1>9, LabelFacts DEF Types, ScheduleBack, NextTask, Release, Goes, Is
  <2> QED
    BY <1>1, <1>2, <1>3, <2>1, <2>2, NextScan DEF Types, NoLock, Tasks, Contexts, Locks, tickslock, ScheduleBack, NextTask, Release, Goes, Is
<1>11. CountedAt(c)'
  <2>1. \A l \in Locks : owner'[l] = c <=> Holds(c, l)'
    BY <1>1, <1>2, <1>3, <1>5 DEF Types, CountedAt, Holds, tickslock, Handler, WithTicks, WithOwn, WithScan, LockFree, OnClock, TaskCalls, TaskLabels, CpuLabels
  <2>2. hart'[c].noff = Depth(x)' + (IF want'[x] = NoLock THEN 0 ELSE 1)
    BY <1>1, <1>2, <1>3, <1>4, <1>5 DEF CountedAt, Depth, Handler, WithTicks, WithOwn, WithScan, LockFree, OnClock, TaskCalls, TaskLabels, CpuLabels
  <2>3. want'[x] \in {NoLock, LockAt(c)'}
    BY <1>1, <1>2, <1>3, <1>5 DEF CountedAt, LockAt, NoLock, tickslock
  <2> QED
    BY <1>1, <1>2, <1>3, <1>5, <2>1, <2>2, <2>3 DEF CountedAt, NoLock
<1>12. EnabledAt(c)'
  BY <1>1, <1>2, <1>3, <1>4, <1>5 DEF EnabledAt, CountedAt, Depth, LabelledAt, Handler, WithTicks, WithOwn, WithScan, LockFree, OnClock, TaskCalls, TaskLabels, CpuLabels
<1>13. ClockedAt(c)'
  BY <1>1, <1>2, <1>3, <1>5, <1>7 DEF ClockedAt, Tasks, Handler, WithTicks, WithOwn, WithScan, LockFree, OnClock, TaskCalls, TaskLabels, CpuLabels
<1>14. ~panicked'
  BY <1>1, <1>2, <1>3 DEF ScheduleBack, NextTask, Release, Goes, Is, Types, Hart
<1>15. lab'[x] \in {"chan", "sleeping"} => x \notin due'
  BY <1>1, <1>2, <1>3, <1>5, <1>7 DEF Rousing, LabelledAt, Handler, WithTicks, WithOwn, WithScan, LockFree, OnClock, TaskCalls, TaskLabels, CpuLabels
<1>16. lab[x] \in {"wake", "waking"} => lab'[x] \in {"wake", "waking"}
  BY <1>2, <1>3, <1>5 DEF Handler
<1>17. lab'[x] \notin {"back", "woken"}
  BY <1>1, <1>2, <1>3, <1>5 DEF LabelledAt, Handler, WithTicks, WithOwn, WithScan, LockFree, OnClock, TaskCalls, TaskLabels, CpuLabels
<1> QED
  BY <1>10, <1>6, <1>7, <1>8, <1>9, <1>11, <1>12, <1>13, <1>14, <1>15, <1>16, <1>17, CalmSteps

LEMMA ScheduleSkipStep ==
  ASSUME Inv, NEW c \in Cpus, NEW x \in Contexts, x = running[c], ScheduleScan(c), tstate[scan[c]] # "RUNNABLE"
  PROVE  Inv'
<1> USE SetFacts
<1>1. /\ Types /\ Placed /\ PlacedAt(c) /\ Kept /\ Rousing /\ ~panicked
      /\ LabelledAt(x) /\ CountedAt(c) /\ EnabledAt(c) /\ ClockedAt(c)
  BY DEF Inv, Placed, NoTrapPanic
<1>2. /\ lab[x] = "scanning" /\ lab' = [lab EXCEPT ![x] = IF scan[c] = NTASK THEN "loop" ELSE "scan"]
      /\ owner' = [owner EXCEPT ![scan[c]] = NoCpu] /\ hart' = [hart EXCEPT ![c] = PopOff(hart[c])]
      /\ panicked' = (panicked \/ owner[scan[c]] # c \/ hart[c].noff < 1 \/ hart[c].intr)
      /\ scan' = [scan EXCEPT ![c] = IF scan[c] = NTASK THEN 1 ELSE scan[c] + 1]
      /\ UNCHANGED <<running, want, trapped, saved, who, tstate, due>>
  BY SetFacts DEF ScheduleScan, NextTask, Release, Goes, Is
<1>3. lab[x] = "scanning" /\ running' = running /\ x = c
  BY <1>1, <1>2 DEF PlacedAt, LabelledAt, CpuLabels, TaskLabels, TaskCalls, OnClock
<1>4. /\ owner[scan[c]] = c /\ hart[c].noff = 1 /\ ~hart[c].intr /\ want[x] = NoLock
      /\ scan[c] \in Locks /\ scan[c] # NoLock /\ trapped[x] = "no"
  BY <1>1, <1>3 DEF Types, LockAt, NoLock, LabelledAt, Handler, CountedAt, EnabledAt, Holds, Depth, tickslock, Handler, WithTicks, WithOwn, WithScan, LockFree
<1>5. /\ hart' = [hart EXCEPT ![c] = PopOff(hart[c])] /\ hart[c] \in Hart /\ PopOff(hart[c]) \in Hart
      /\ hart'[c].noff = hart[c].noff - 1 /\ (hart'[c].intena <=> hart[c].intena)
      /\ (hart'[c].intr <=> hart[c].noff = 1 /\ hart[c].intena)
  BY <1>1, <1>3, <1>4, PopOffFacts, <1>2 DEF Types
<1>6. /\ owner' = [owner EXCEPT ![scan[c]] = NoCpu] /\ lab'[x] \in {"loop", "scan"}
      /\ UNCHANGED <<want, trapped, who>>
  BY <1>1, <1>3, <1>4, <1>2 DEF Types
<1>7. Elsewhere(c)
  BY <1>1, <1>3, <1>4, <1>2 DEF Types, Elsewhere
<1>8. UNCHANGED <<running, saved>> /\ (\A t \in Tasks : tstate'[t] = tstate[t]) /\ (\A t \in Tasks : t \in due' => t \in due)
  BY <1>3, <1>2
<1>9. c = x \/ (lab'[c] = "switched" /\ scan'[c] = x)
  BY <1>1, <1>3, <1>7, <1>2 DEF PlacedAt
<1>10. LabelledAt(x)'
  BY <1>1, <1>3, <1>4, <1>6 DEF LabelledAt, Handler, WithTicks, WithOwn, WithScan, LockFree, OnClock, TaskCalls, TaskLabels, CpuLabels
<1>11. Types'
  <2>1. hart' \in [Cpus -> Hart]
    BY <1>1, <1>5 DEF Types
  <2>2. lab' \in [Contexts -> Labels] /\ trapped' \in [Contexts -> Origins]
    BY <1>1, <1>3, <1>10, LabelFacts, <1>2 DEF Types
  <2> QED
    BY <1>1, <1>3, <1>4, <2>1, <2>2, NextScan, <1>2 DEF Types, NoLock, Tasks, Contexts, Locks, tickslock
<1>12. CountedAt(c)'
  <2>1. \A l \in Locks : owner'[l] = c <=> Holds(c, l)'
    BY <1>1, <1>3, <1>4, <1>6 DEF Types, CountedAt, Holds, tickslock, Handler, WithTicks, WithOwn, WithScan, LockFree, OnClock, TaskCalls, TaskLabels, CpuLabels
  <2>2. hart'[c].noff = Depth(x)' + (IF want'[x] = NoLock THEN 0 ELSE 1)
    BY <1>1, <1>3, <1>4, <1>5, <1>6 DEF CountedAt, Depth, Handler, WithTicks, WithOwn, WithScan, LockFree, OnClock, TaskCalls, TaskLabels, CpuLabels
  <2>3. want'[x] \in {NoLock, LockAt(c)'}
    BY <1>1, <1>3, <1>4, <1>6 DEF CountedAt, LockAt, NoLock, tickslock
  <2> QED
    BY <1>1, <1>3, <1>4, <1>6, <2>1, <2>2, <2>3 DEF CountedAt, NoLock
<1>13. EnabledAt(c)'
  BY <1>1, <1>3, <1>4, <1>5, <1>6 DEF EnabledAt, CountedAt, Depth, LabelledAt, Handler, WithTicks, WithOwn, WithScan, LockFree, OnClock, TaskCalls, TaskLabels, CpuLabels
<1>14. ClockedAt(c)'
  BY <1>1, <1>3, <1>4, <1>6, <1>8 DEF ClockedAt, Tasks, Handler, WithTicks, WithOwn, WithScan, LockFree, OnClock, TaskCalls, TaskLabels, CpuLabels
<1>15. ~panicked'
  BY <1>1, <1>3, <1>4, <1>2 DEF Types, Hart
<1>16. lab'[x] \in {"chan", "sleeping"} => x \notin due'
  BY <1>1, <1>3, <1>4, <1>6, <1>8 DEF Rousing, LabelledAt, Handler, WithTicks, WithOwn, WithScan, LockFree, OnClock, TaskCalls, TaskLabels, CpuLabels
<1>17. lab[x] \in {"wake", "waking"} => lab'[x] \in {"wake", "waking"}
  BY <1>3, <1>4, <1>6 DEF Handler
<1>18. lab'[x] \notin {"back", "woken"}
  BY <1>1, <1>3, <1>4, <1>6 DEF LabelledAt, Handler, WithTicks, WithOwn, WithScan, LockFree, OnClock, TaskCalls, TaskLabels, CpuLabels
<1> QED
  BY <1>11, <1>7, <1>8, <1>9, <1>10, <1>12, <1>13, <1>14, <1>15, <1>16, <1>17, <1>18, CalmSteps

LEMMA SleepBackStep ==
  ASSUME Inv, NEW c \in Cpus, NEW x \in Contexts, x = running[c], SleepBack(c)
  PROVE  Inv'
<1> USE SetFacts
<1>1. /\ Types /\ Placed /\ PlacedAt(c) /\ Kept /\ Rousing /\ ~panicked
      /\ LabelledAt(x) /\ CountedAt(c) /\ EnabledAt(c) /\ ClockedAt(c)
  BY DEF Inv, Placed, NoTrapPanic
<1>2. lab[x] = "woken" /\ running' = running /\ x \in Tasks /\ saved[x]
  BY <1>1 DEF SleepBack, Is, Kept, LabelledAt, CpuLabels, TaskLabels, TaskCalls, OnClock
<1>3. /\ owner[x] = c /\ hart[c].noff = 1 /\ ~hart[c].intr /\ want[x] = NoLock /\ trapped[x] = "no"
      /\ Resumed(c) \in Hart /\ Resumed(c).noff = 1 /\ Resumed(c).intena /\ ~Resumed(c).intr
  <2>1. owner[x] = c /\ hart[c].noff = 1 /\ ~hart[c].intr /\ want[x] = NoLock
    BY <1>1, <1>2 DEF Types, LockAt, NoLock, LabelledAt, Handler, Kept, CountedAt, EnabledAt, Holds, Depth, tickslock, Handler, WithTicks, WithOwn, WithScan, LockFree, LabelledAt, CpuLabels, TaskLabels, TaskCalls, OnClock
  <2>2. trapped[x] = "no" <=> lab[x] \notin Handler
    BY <1>1 DEF LabelledAt
  <2> QED
    BY <1>1, <1>2, <2>1, <2>2, ResumedFacts DEF Handler
<1>4. /\ hart' = [hart EXCEPT ![c] = PopOff(Resumed(c))] /\ PopOff(Resumed(c)) \in Hart
      /\ hart'[c].noff = 0 /\ hart'[c].intr
  BY <1>1, <1>2, <1>3, PopOffFacts DEF Types, SleepBack, Release
<1>5. /\ owner' = [owner EXCEPT ![x] = NoCpu] /\ lab'[x] = "again" /\ UNCHANGED <<want, trapped, who, scan>>
  BY <1>1, <1>2, <1>3 DEF Types, SleepBack, Release, Goes
<1>6. Elsewhere(c)
  BY <1>1, <1>2, <1>3 DEF Types, Elsewhere, SleepBack, Release, Goes, Is
<1>7. UNCHANGED <<running, saved>> /\ (\A t \in Tasks : tstate'[t] = tstate[t]) /\ (\A t \in Tasks : t \in due' => t \in due)
  BY <1>2 DEF SleepBack, Release, Goes, Is
<1>8. c = x \/ (lab'[c] = "switched" /\ scan'[c] = x)
  BY <1>1, <1>2, <1>6 DEF PlacedAt, SleepBack, Release, Goes, Is
<1>9. LabelledAt(x)'
  BY <1>1, <1>2, <1>3, <1>5 DEF LabelledAt, Handler, WithTicks, WithOwn, WithScan, LockFree, OnClock, TaskCalls, TaskLabels, CpuLabels
<1>10. Types'
  <2>1. hart' \in [Cpus -> Hart]
    BY <1>1, <1>4 DEF Types
  <2>2. lab' \in [Contexts -> Labels] /\ trapped' \in [Contexts -> Origins]
    BY <1>1, <1>2, <1>9, LabelFacts DEF Types, SleepBack, Release, Goes, Is
  <2> QED
    BY <1>1, <1>2, <1>3, <2>1, <2>2, NextScan DEF Types, NoLock, Tasks, Contexts, Locks, tickslock, SleepBack, Release, Goes, Is
<1>11. CountedAt(c)'
  <2>1. \A l \in Locks : owner'[l] = c <=> Holds(c, l)'
    BY <1>1, <1>2, <1>3, <1>5 DEF Types, CountedAt, Holds, tickslock, Handler, WithTicks, WithOwn, WithScan, LockFree, OnClock, TaskCalls, TaskLabels, CpuLabels
  <2>2. hart'[c].noff = Depth(x)' + (IF want'[x] = NoLock THEN 0 ELSE 1)
    BY <1>1, <1>2, <1>3, <1>4, <1>5 DEF CountedAt, Depth, Handler, WithTicks, WithOwn, WithScan, LockFree, OnClock, TaskCalls, TaskLabels, CpuLabels
  <2>3. want'[x] \in {NoLock, LockAt(c)'}
    BY <1>1, <1>2, <1>3, <1>5 DEF CountedAt, LockAt, NoLock, tickslock
  <2> QED
    BY <1>1, <1>2, <1>3, <1>5, <2>1, <2>2, <2>3 DEF CountedAt, NoLock
<1>12. EnabledAt(c)'
  BY <1>1, <1>2, <1>3, <1>4, <1>5 DEF EnabledAt, CountedAt, Depth, LabelledAt, Handler, WithTicks, WithOwn, WithScan, LockFree, OnClock, TaskCalls, TaskLabels, CpuLabels
<1>13. ClockedAt(c)'
  BY <1>1, <1>2, <1>3, <1>5, <1>7 DEF ClockedAt, Tasks, Handler, WithTicks, WithOwn, WithScan, LockFree, OnClock, TaskCalls, TaskLabels, CpuLabels
<1>14. ~panicked'
  BY <1>1, <1>2, <1>3 DEF SleepBack, Release, Types
<1>15. lab'[x] \in {"chan", "sleeping"} => x \notin due'
  BY <1>1, <1>2, <1>3, <1>5, <1>7 DEF Rousing, LabelledAt, Handler, WithTicks, WithOwn, WithScan, LockFree, OnClock, TaskCalls, TaskLabels, CpuLabels
<1>16. lab[x] \in {"wake", "waking"} => lab'[x] \in {"wake", "waking"}
  BY <1>2, <1>3, <1>5 DEF Handler
<1>17. lab'[x] \notin {"back", "woken"}
  BY <1>1, <1>2, <1>3, <1>5 DEF LabelledAt, Handler, WithTicks, WithOwn, WithScan, LockFree, OnClock, TaskCalls, TaskLabels, CpuLabels
<1> QED
  BY <1>10, <1>6, <1>7, <1>8, <1>9, <1>11, <1>12, <1>13, <1>14, <1>15, <1>16, <1>17, CalmSteps

LEMMA YieldBackStep ==
  ASSUME Inv, NEW c \in Cpus, NEW x \in Contexts, x = running[c], YieldBack(c)
  PROVE  Inv'
<1> USE SetFacts
<1>1. /\ Types /\ Placed /\ PlacedAt(c) /\ Kept /\ Rousing /\ ~panicked
      /\ LabelledAt(x) /\ CountedAt(c) /\ EnabledAt(c) /\ ClockedAt(c)
  BY DEF Inv, Placed, NoTrapPanic
<1>2. lab[x] = "back" /\ running' = running /\ x \in Tasks /\ ~saved[x] /\ trapped[x] \in TaskCalls
  BY <1>1 DEF YieldBack, Is, Kept, Handler, LabelledAt, CpuLabels, TaskLabels, TaskCalls, OnClock
<1>3. /\ owner[x] = c /\ hart[c].noff = 1 /\ ~hart[c].intr /\ want[x] = NoLock
      /\ Resumed(c) \in Hart /\ Resumed(c).noff = 1 /\ ~Resumed(c).intena /\ ~Resumed(c).intr
  <2>1. owner[x] = c /\ hart[c].noff = 1 /\ ~hart[c].intr /\ want[x] = NoLock
    BY <1>1, <1>2 DEF Types, LockAt, NoLock, LabelledAt, Handler, Kept, CountedAt, EnabledAt, Holds, Depth, tickslock, Handler, WithTicks, WithOwn, WithScan, LockFree, LabelledAt, CpuLabels, TaskLabels, TaskCalls, OnClock
  <2>2. trapped[x] = "no" <=> lab[x] \notin Handler
    BY <1>1 DEF LabelledAt
  <2> QED
    BY <1>1, <1>2, <2>1, <2>2, ResumedFacts DEF Handler
<1>4. /\ hart' = [hart EXCEPT ![c] = IntrOn(PopOff(Resumed(c)))] /\ IntrOn(PopOff(Resumed(c))) \in Hart
      /\ hart'[c].noff = 0 /\ hart'[c].intr
  <2>1. PopOff(Resumed(c)) \in Hart /\ PopOff(Resumed(c)).noff = 0
    BY <1>3, PopOffFacts
  <2>2. hart[c] \in Hart /\ hart' = [hart EXCEPT ![c] = IntrOn(PopOff(Resumed(c)))]
    BY <1>1 DEF Types, YieldBack, Sret, IntrOn
  <2>3. hart'[c] = IntrOn(PopOff(Resumed(c)))
    BY <1>1, <2>2 DEF Types
  <2> QED
    BY <2>1, <2>2, <2>3, IntrFacts
<1>5. /\ owner' = [owner EXCEPT ![x] = NoCpu] /\ lab'[x] = trapped[x] /\ trapped'[x] = "no" /\ UNCHANGED <<want, who, scan>>
  BY <1>1, <1>2, <1>3 DEF Types, YieldBack, Sret, Goes
<1>6. Elsewhere(c)
  BY <1>1, <1>2, <1>3 DEF Types, Elsewhere, YieldBack, Sret, Goes, Is
<1>7. UNCHANGED <<running, saved>> /\ (\A t \in Tasks : tstate'[t] = tstate[t]) /\ (\A t \in Tasks : t \in due' => t \in due)
  BY <1>2 DEF YieldBack, Sret, Goes, Is
<1>8. c = x \/ (lab'[c] = "switched" /\ scan'[c] = x)
  BY <1>1, <1>2, <1>6 DEF PlacedAt, YieldBack, Sret, Goes, Is
<1>9. LabelledAt(x)'
  BY <1>1, <1>2, <1>3, <1>5 DEF LabelledAt, Handler, WithTicks, WithOwn, WithScan, LockFree, OnClock, TaskCalls, TaskLabels, CpuLabels
<1>10. Types'
  <2>1. hart' \in [Cpus -> Hart]
    BY <1>1, <1>4 DEF Types
  <2>2. lab' \in [Contexts -> Labels] /\ trapped' \in [Contexts -> Origins]
    BY <1>1, <1>2, <1>9, LabelFacts DEF Types, YieldBack, Sret, Goes, Is
  <2> QED
    BY <1>1, <1>2, <1>3, <2>1, <2>2, NextScan DEF Types, NoLock, Tasks, Contexts, Locks, tickslock, YieldBack, Sret, Goes, Is
<1>11. CountedAt(c)'
  <2>1. \A l \in Locks : owner'[l] = c <=> Holds(c, l)'
    BY <1>1, <1>2, <1>3, <1>5 DEF Types, CountedAt, Holds, tickslock, Handler, WithTicks, WithOwn, WithScan, LockFree, OnClock, TaskCalls, TaskLabels, CpuLabels
  <2>2. hart'[c].noff = Depth(x)' + (IF want'[x] = NoLock THEN 0 ELSE 1)
    BY <1>1, <1>2, <1>3, <1>4, <1>5 DEF CountedAt, Depth, Handler, WithTicks, WithOwn, WithScan, LockFree, OnClock, TaskCalls, TaskLabels, CpuLabels
  <2>3. want'[x] \in {NoLock, LockAt(c)'}
    BY <1>1, <1>2, <1>3, <1>5 DEF CountedAt, LockAt, NoLock, tickslock
  <2> QED
    BY <1>1, <1>2, <1>3, <1>5, <2>1, <2>2, <2>3 DEF CountedAt, NoLock
<1>12. EnabledAt(c)'
  BY <1>1, <1>2, <1>3, <1>4, <1>5 DEF EnabledAt, CountedAt, Depth, LabelledAt, Handler, WithTicks, WithOwn, WithScan, LockFree, OnClock, TaskCalls, TaskLabels, CpuLabels
<1>13. ClockedAt(c)'
  BY <1>1, <1>2, <1>3, <1>5, <1>7 DEF ClockedAt, Tasks, Handler, WithTicks, WithOwn, WithScan, LockFree, OnClock, TaskCalls, TaskLabels, CpuLabels
<1>14. ~panicked'
  BY <1>1, <1>2, <1>3, PopOffFacts DEF YieldBack, Types
<1>15. lab'[x] \in {"chan", "sleeping"} => x \notin due'
  BY <1>1, <1>2, <1>3, <1>5, <1>7 DEF Rousing, LabelledAt, Handler, WithTicks, WithOwn, WithScan, LockFree, OnClock, TaskCalls, TaskLabels, CpuLabels
<1>16. lab[x] \in {"wake", "waking"} => lab'[x] \in {"wake", "waking"}
  BY <1>2, <1>3, <1>5 DEF Handler
<1>17. lab'[x] \notin {"back", "woken"}
  BY <1>1, <1>2, <1>3, <1>5 DEF LabelledAt, Handler, WithTicks, WithOwn, WithScan, LockFree, OnClock, TaskCalls, TaskLabels, CpuLabels
<1> QED
  BY <1>10, <1>6, <1>7, <1>8, <1>9, <1>11, <1>12, <1>13, <1>14, <1>15, <1>16, <1>17, CalmSteps

-----------------------------------------------------------------------------
(* wakeup(&ticks): the round of the clock over the tasks. *)

LEMMA NextOtherFacts ==
  ASSUME Types, NEW c \in Cpus, NEW x \in Contexts, x = running[c], NEW n \in Nat, NextOther(c, n)
  PROVE  \/ /\ lab' = [lab EXCEPT ![x] = "ticked"] /\ who' = who
            /\ \A t \in Tasks : t >= n => t = x
         \/ /\ lab' = [lab EXCEPT ![x] = "wake"]
            /\ \E m \in Tasks : /\ who' = [who EXCEPT ![x] = m]
                                /\ \A t \in Tasks : t >= n /\ t < m => t = x
<1> DEFINE S == Others(c, n)
<1>1. S \subseteq Tasks /\ S \subseteq Nat /\ \A t \in Tasks : t >= n /\ t # x => t \in S
  BY TrapCpus DEF Others, Tasks
<1>2. CASE S = {}
  BY <1>1, <1>2 DEF NextOther, Goes
<1>3. CASE S # {}
  <2> DEFINE m == CHOOSE t \in S : \A u \in S : t <= u
  <2>1. \E t \in S : \A u \in S : t <= u
    <3>1. \E t \in S : \A u \in S : <<u, t>> \notin OpToRel(<, Nat)
      BY <1>1, <1>3, NatLessThanWellFounded, WFMin
    <3>2. \A t, u \in Nat : <<u, t>> \notin OpToRel(<, Nat) => t <= u
      BY DEF OpToRel
    <3> QED
      BY <1>1, <3>1, <3>2
  <2>2. m \in S /\ \A u \in S : m <= u
    BY <2>1
  <2>3. lab' = [lab EXCEPT ![x] = "wake"] /\ who' = [who EXCEPT ![x] = m]
    BY <1>3 DEF NextOther, Goes
  <2>4. \A t \in Tasks : t >= n /\ t < m => t = x
    BY <1>1, <2>2 DEF Tasks
  <2> HIDE DEF S, m
  <2> QED
    BY <1>1, <2>2, <2>3, <2>4
<1> QED
  BY <1>2, <1>3

LEMMA AwakeRunning ==
  ASSUME Placed, NEW c \in Cpus, NEW x \in Tasks, x = running[c]
  PROVE  tstate[x] = "RUNNING"
BY SetFacts DEF Placed, PlacedAt

LEMMA ClockintrStep ==
  ASSUME Inv, NEW c \in Cpus, NEW x \in Contexts, x = running[c], Clockintr(c)
  PROVE  Inv'
<1> USE SetFacts
<1>0. /\ Types /\ Placed /\ PlacedAt(c) /\ Kept /\ Rousing /\ ~panicked
      /\ LabelledAt(x) /\ CountedAt(c) /\ EnabledAt(c) /\ ClockedAt(c)
  BY DEF Inv, Placed, NoTrapPanic
<1>1. /\ lab[x] = "ticking" /\ NextOther(c, 1) /\ (\E S \in SUBSET Tasks : due' = due \cup S)
      /\ UNCHANGED <<hart, running, owner, want, trapped, saved, scan, tstate, panicked>>
  BY DEF Clockintr, Is
<1>2. /\ c = BootCpu /\ want[x] = NoLock /\ owner[tickslock] = c
      /\ (trapped'[x] = "no" <=> trapped[x] = "no") /\ trapped[x] # "no"
  BY <1>0, <1>1 DEF ClockedAt, CountedAt, LockAt, Holds, OnClock, WithTicks, LabelledAt, Handler
<1>3. \/ /\ lab' = [lab EXCEPT ![x] = "ticked"] /\ who' = who
         /\ \A t \in Tasks : t >= 1 => t = x
      \/ /\ lab' = [lab EXCEPT ![x] = "wake"]
         /\ \E m \in Tasks : /\ who' = [who EXCEPT ![x] = m]
                             /\ \A t \in Tasks : t >= 1 /\ t < m => t = x
  BY <1>0, <1>1, NextOtherFacts
<1>4. lab'[x] \in {"ticked", "wake"} /\ who' \in [Contexts -> Tasks]
  BY <1>0, <1>3 DEF Types
<1>5. LabelledAt(x)'
  BY <1>0, <1>1, <1>2, <1>4 DEF LabelledAt, Handler, TaskLabels, TaskCalls, OnClock, CpuLabels
<1>6. Types'
  <2>1. lab' \in [Contexts -> Labels]
    BY <1>0, <1>3, <1>5, LabelFacts DEF Types
  <2> QED
    BY <1>0, <1>1, <1>4, <2>1 DEF Types, NoLock, Contexts, Tasks, Locks
<1>7. Elsewhere(c)
  BY <1>0, <1>1, <1>3 DEF Types, Elsewhere
<1>8. CountedAt(c)'
  BY <1>0, <1>1, <1>2, <1>4 DEF CountedAt, Holds, Depth, LockAt, tickslock, NoLock, LockFree, WithTicks, WithOwn, WithScan
<1>9. EnabledAt(c)'
  BY <1>0, <1>1, <1>2, <1>4 DEF EnabledAt
<1>10. x \in Tasks => tstate[x] # "SLEEPING"
  BY <1>0, AwakeRunning
<1>11. \A t \in Tasks : t >= 1
  BY TrapCpus DEF Tasks
<1>12. ClockedAt(c)'
  <2>1. \A t \in Tasks : t = x => tstate'[t] # "SLEEPING"
    BY <1>1, <1>10
  <2>2. lab'[x] = "ticked" => \A t \in Tasks : tstate'[t] # "SLEEPING"
    BY <1>0, <1>3, <1>11, <2>1 DEF Types
  <2>3. lab'[x] = "wake" => \A t \in Tasks : t < who'[x] => tstate'[t] # "SLEEPING"
    BY <1>0, <1>3, <1>11, <2>1 DEF Types
  <2> QED
    BY <1>1, <1>2, <1>4, <2>2, <2>3 DEF ClockedAt, Tasks
<1>13. Rousing'
  <2>1. ASSUME NEW t \in Tasks, lab'[t] \in {"chan", "sleeping"} PROVE FALSE
    <3>1. t # x /\ lab[t] = lab'[t]
      BY <1>4, <1>7, <2>1 DEF Elsewhere
    <3>2. PICK d \in Cpus : running[d] = t
      BY <1>0, <2>1, <3>1 DEF Placed
    <3>3. CountedAt(d) /\ lab[t] \in WithTicks
      BY <2>1, <3>1 DEF Inv, WithTicks
    <3>4. owner[tickslock] = d
      BY <3>2, <3>3 DEF CountedAt, Holds
    <3> QED
      BY <1>2, <3>1, <3>2, <3>4
  <2>2. ASSUME NEW t \in Tasks, tstate'[t] = "SLEEPING" PROVE Waking'
    BY <1>1, <1>2, <1>4, <1>12, <2>2 DEF ClockedAt, Waking, Tasks
  <2> QED
    BY <2>1, <2>2 DEF Rousing, Tasks
<1>14. c = x \/ (lab'[c] = "switched" /\ scan'[c] = x)
  BY <1>0, <1>1, <1>7 DEF PlacedAt, Elsewhere
<1> QED
  BY <1>0, <1>1, <1>4, <1>5, <1>6, <1>7, <1>8, <1>9, <1>12, <1>13, <1>14, Gather

LEMMA WakeupOneStep ==
  ASSUME Inv, NEW c \in Cpus, NEW x \in Contexts, x = running[c], NEW n \in Tasks, n = who[x], WakeupOne(c)
  PROVE  Inv'
<1> USE SetFacts
<1>1. /\ Types /\ Placed /\ PlacedAt(c) /\ Kept /\ Rousing /\ ~panicked
      /\ LabelledAt(x) /\ CountedAt(c) /\ EnabledAt(c) /\ ClockedAt(c)
  BY DEF Inv, Placed, NoTrapPanic
<1>2. /\ lab[x] = "waking" /\ NextOther(c, n + 1)
      /\ tstate' = [tstate EXCEPT ![n] = IF tstate[n] = "SLEEPING" THEN "RUNNABLE" ELSE tstate[n]]
      /\ owner' = [owner EXCEPT ![n] = NoCpu] /\ hart' = [hart EXCEPT ![c] = PopOff(hart[c])]
      /\ panicked' = (panicked \/ owner[n] # c \/ hart[c].noff < 1 \/ hart[c].intr)
      /\ UNCHANGED <<running, want, trapped, saved, scan, due>>
  BY DEF WakeupOne, Is, Release
<1>3. /\ c = BootCpu /\ want[x] = NoLock /\ hart[c].noff = 2 /\ ~hart[c].intr
      /\ trapped[x] # "no"
  BY <1>1, <1>2 DEF ClockedAt, CountedAt, EnabledAt, LockAt, Depth, LockFree, OnClock, LabelledAt, Handler
<1>4. \A l \in Locks : owner[l] = c <=> l \in {tickslock, n}
  BY <1>1, <1>2 DEF CountedAt, Holds, WithTicks, WithOwn, WithScan
<1>5. /\ hart[c] \in Hart /\ PopOff(hart[c]) \in Hart
      /\ hart'[c].noff = 1 /\ ~hart'[c].intr /\ (hart'[c].intena <=> hart[c].intena)
  BY <1>1, <1>2, <1>3, PopOffFacts DEF Types
<1>6. \/ /\ lab' = [lab EXCEPT ![x] = "ticked"] /\ who' = who
         /\ \A t \in Tasks : t >= n + 1 => t = x
      \/ /\ lab' = [lab EXCEPT ![x] = "wake"]
         /\ \E m \in Tasks : /\ who' = [who EXCEPT ![x] = m]
                             /\ \A t \in Tasks : t >= n + 1 /\ t < m => t = x
  <2>1. n + 1 \in Nat
    BY TrapCpus DEF Tasks
  <2> QED
    BY <1>1, <1>2, <2>1, NextOtherFacts
<1>7. lab'[x] \in {"ticked", "wake"} /\ who' \in [Contexts -> Tasks]
  <2>1. lab \in [Contexts -> Labels] /\ who \in [Contexts -> Tasks]
    BY <1>1 DEF Types
  <2> QED
    BY ONLY <1>6, <2>1, x \in Contexts
<1>8. LabelledAt(x)'
  BY <1>1, <1>2, <1>3, <1>7 DEF LabelledAt, Handler, TaskLabels, TaskCalls, OnClock, CpuLabels
<1>9. Types'
  <2>1. lab' \in [Contexts -> Labels]
    BY <1>1, <1>6, <1>8, LabelFacts DEF Types
  <2>2. hart' \in [Cpus -> Hart]
    BY <1>1, <1>2, <1>5 DEF Types
  <2>3. owner' \in [Locks -> Cpus \cup {NoCpu}] /\ tstate' \in [Tasks -> {"RUNNABLE", "RUNNING", "SLEEPING"}]
    BY <1>1, <1>2 DEF Types
  <2> QED
    BY <1>1, <1>2, <1>7, <2>1, <2>2, <2>3 DEF Types, NoLock, Contexts, Tasks, Locks
<1>10. Elsewhere(c)
  BY <1>1, <1>2, <1>4, <1>6 DEF Types, Elsewhere
<1>11. CountedAt(c)'
  <2>1. \A l \in Locks : owner'[l] = c <=> l = tickslock
    BY <1>1, <1>2, <1>4 DEF Types
  <2>2. \A l \in Locks : Holds(c, l)' <=> l = tickslock
    BY <1>2, <1>7 DEF Holds, WithTicks, WithOwn, WithScan, tickslock
  <2> QED
    BY <1>2, <1>3, <1>7, <1>5, <2>1, <2>2 DEF CountedAt, Depth, LockAt, tickslock, NoLock, LockFree
<1>12. EnabledAt(c)'
  BY <1>1, <1>2, <1>3, <1>7, <1>5 DEF EnabledAt
<1>13. x \in Tasks => tstate[x] # "SLEEPING"
  BY <1>1, AwakeRunning
<1>14. \A t \in Tasks : t <= n => tstate'[t] # "SLEEPING"
  BY <1>1, <1>2 DEF ClockedAt, Types, Tasks
<1>15. \A t \in Tasks : (tstate'[t] = "SLEEPING" => tstate[t] = "SLEEPING") /\ (tstate'[t] = "RUNNING" <=> tstate[t] = "RUNNING")
  BY <1>1, <1>2 DEF Types
<1>16. ClockedAt(c)'
  <2>1. \A t \in Tasks : t = x => tstate'[t] # "SLEEPING"
    BY <1>13, <1>15
  <2>2. \A t, m \in Tasks : t >= n + 1 \/ t <= n
    BY DEF Tasks
  <2>3. lab'[x] = "ticked" => \A t \in Tasks : tstate'[t] # "SLEEPING"
    BY <1>1, <1>6, <1>14, <2>1, <2>2 DEF Types
  <2>4. lab'[x] = "wake" => \A t \in Tasks : t < who'[x] => tstate'[t] # "SLEEPING"
    BY <1>1, <1>6, <1>14, <2>1, <2>2 DEF Types
  <2> QED
    BY <1>2, <1>3, <1>7, <2>3, <2>4 DEF ClockedAt, Tasks
<1>17. Rousing'
  <2>1. ASSUME NEW t \in Tasks, lab'[t] \in {"chan", "sleeping"} PROVE t \notin due'
    BY <1>1, <1>2, <1>7, <1>10, <2>1 DEF Elsewhere, Rousing
  <2>2. ASSUME NEW t \in Tasks, tstate'[t] = "SLEEPING" PROVE Waking'
    BY <1>2, <1>3, <1>7, <1>16, <2>2 DEF ClockedAt, Waking, Tasks
  <2> QED
    BY <2>1, <2>2 DEF Rousing, Tasks
<1>18. c = x \/ (lab'[c] = "switched" /\ scan'[c] = x)
  BY <1>1, <1>2, <1>10 DEF PlacedAt, Elsewhere
<1>19. ~panicked'
  <2>1. owner[n] = c /\ ~(hart[c].noff < 1)
    BY <1>3, <1>4
  <2> QED
    BY <1>1, <1>2, <1>3, <2>1
<1> QED
  BY <1>1, <1>2, <1>7, <1>8, <1>9, <1>10, <1>11, <1>12, <1>15, <1>16, <1>17, <1>18, <1>19, Gather

-----------------------------------------------------------------------------
(* sched() and scheduler(): a processor goes from one context to another. *)

\* What is left to show of a step in which the task x leaves c to its scheduler.
LEMMA Leaves ==
  ASSUME Inv, NEW c \in Cpus, NEW x \in Tasks, x = running[c], Elsewhere(c), Types',
         running' = [running EXCEPT ![c] = c], scan' = scan,
         NEW s, tstate' = [tstate EXCEPT ![x] = s], s # "RUNNING",
         lab'[x] \in {"back", "woken"}, want[x] = NoLock, want' = want, trapped' = trapped,
         LabelledAt(x)', CountedAt(c)', EnabledAt(c)', ~panicked',
         \A d \in Cpus \ {c} : ClockedAt(d)', Kept', Rousing'
  PROVE  Inv'
<1> USE SetFacts
<1>0. /\ Types /\ Placed /\ PlacedAt(c)
      /\ \A y \in Contexts : LabelledAt(y)
      /\ \A d \in Cpus : CountedAt(d) /\ EnabledAt(d) /\ ClockedAt(d)
  BY DEF Inv, Placed
<1>1. \A y \in Contexts : LabelledAt(y)'
  BY <1>0 DEF LabelledAt, Elsewhere, Tasks
<1>2. \A d \in Cpus : CountedAt(d)' /\ EnabledAt(d)'
  BY <1>0, OthersKept
<1>3. lab'[c] = "switched" /\ running'[c] = c
  BY <1>0 DEF PlacedAt, Elsewhere, Types
<1>4. ClockedAt(c)'
  BY <1>3 DEF ClockedAt, OnClock
<1>5. ASSUME NEW d \in Cpus PROVE PlacedAt(d)'
  <2>1. CASE d = c
    BY <1>3, <2>1 DEF PlacedAt
  <2>2. CASE d # c
    <3>1. running'[d] = running[d] /\ running[d] # x /\ running[d] \in Contexts /\ lab'[d] = lab[d]
      BY <1>0, <2>2 DEF Placed, Types, Elsewhere
    <3>2. running[d] \in Tasks => tstate'[running[d]] = tstate[running[d]]
      BY <1>0, <3>1 DEF Types
    <3>3. PlacedAt(d)
      BY <1>0 DEF Placed
    <3> QED
      BY <3>1, <3>2, <3>3 DEF PlacedAt, NoLock, Tasks
  <2> QED
    BY <2>1, <2>2
<1>6. ASSUME NEW d \in Cpus, NEW e \in Cpus, running'[d] = running'[e] PROVE d = e
  <2>1. \A f \in Cpus \ {c} : running[f] # c
    BY <1>0 DEF Placed, PlacedAt
  <2> QED
    BY <1>0, <1>6, <2>1 DEF Types, Placed
<1>7. ASSUME NEW t \in Tasks, \A d \in Cpus : running'[d] # t
      PROVE  lab'[t] \in {"forkret", "back", "woken"} /\ want'[t] = NoLock /\ tstate'[t] # "RUNNING"
  <2>1. CASE t = x
    BY <1>0, <2>1 DEF Types
  <2>2. CASE t # x
    <3>1. \A d \in Cpus : running[d] # t
      BY <1>0, <1>7, <2>2 DEF Types
    <3> QED
      BY <1>0, <2>2, <3>1 DEF Placed, Elsewhere, Types
  <2> QED
    BY <2>1, <2>2
<1>8. Placed'
  BY <1>5, <1>6, <1>7 DEF Placed, NoLock, Tasks
<1> QED
  BY <1>1, <1>2, <1>4, <1>8 DEF Inv, NoTrapPanic, Contexts, Tasks

LEMMA YieldSchedStep ==
  ASSUME Inv, NEW c \in Cpus, NEW x \in Contexts, x = running[c], YieldSched(c)
  PROVE  Inv'
<1> USE SetFacts
<1>0. /\ Types /\ Placed /\ PlacedAt(c) /\ Kept /\ Rousing /\ ~panicked
      /\ LabelledAt(x) /\ CountedAt(c) /\ EnabledAt(c)
      /\ \A d \in Cpus : ClockedAt(d)
  BY DEF Inv, Placed, NoTrapPanic
<1>1. /\ lab[x] = "yielding" /\ lab' = [lab EXCEPT ![x] = "back"]
      /\ tstate' = [tstate EXCEPT ![x] = "RUNNABLE"] /\ saved' = [saved EXCEPT ![x] = hart[c].intena]
      /\ running' = [running EXCEPT ![c] = c] /\ hart' = [hart EXCEPT ![c] = hart[c]]
      /\ panicked' = (panicked \/ owner[x] # c \/ hart[c].noff # 1 \/ "RUNNABLE" = "RUNNING" \/ hart[c].intr)
      /\ UNCHANGED <<owner, want, trapped, who, scan, due>>
  BY DEF YieldSched, Sched, Is, Goes
<1>2. x \in Tasks /\ trapped[x] \in TaskCalls /\ trapped[x] # "no"
  BY <1>0, <1>1 DEF LabelledAt, CpuLabels, OnClock, Handler
<1>3. /\ lab[c] = "switched" /\ scan[c] = x /\ want[c] = NoLock /\ trapped[c] = "no"
  BY <1>0, <1>2 DEF PlacedAt, Inv, LabelledAt, Handler
<1>4. /\ want[x] = NoLock /\ hart[c].noff = 1 /\ ~hart[c].intr /\ ~hart[c].intena /\ hart[c] \in Hart
      /\ \A l \in Locks : owner[l] = c <=> l = x
  BY <1>0, <1>1, <1>2 DEF CountedAt, EnabledAt, LockAt, Depth, Holds, LockFree, WithTicks, WithOwn, WithScan, Types
<1>5. running'[c] = c /\ lab'[x] = "back" /\ lab'[c] = "switched" /\ hart' = hart
  BY <1>0, <1>1, <1>2, <1>3 DEF Types
<1>6. LabelledAt(x)'
  BY <1>1, <1>2, <1>5 DEF LabelledAt, Handler, TaskLabels
<1>7. Types'
  <2>1. lab' \in [Contexts -> Labels]
    BY <1>0, <1>1, <1>6, LabelFacts DEF Types
  <2>2. saved' \in [Tasks -> BOOLEAN]
    BY <1>0, <1>1, <1>4 DEF Types, Hart
  <2>3. tstate' \in [Tasks -> {"RUNNABLE", "RUNNING", "SLEEPING"}] /\ running' \in [Cpus -> Contexts]
    BY <1>0, <1>1 DEF Types
  <2>4. panicked' \in BOOLEAN
    BY <1>1
  <2>5. hart' \in [Cpus -> Hart] /\ owner' \in [Locks -> Cpus \cup {NoCpu}]
    BY <1>0, <1>1, <1>5 DEF Types
  <2> QED
    BY <1>0, <1>1, <2>1, <2>2, <2>3, <2>4, <2>5 DEF Types, NoLock, Contexts, Tasks, Locks
<1>8. Elsewhere(c)
  BY <1>0, <1>1, <1>5 DEF Types, Elsewhere
<1>9. CountedAt(c)'
  BY <1>1, <1>2, <1>3, <1>4, <1>5 DEF CountedAt, Holds, Depth, LockAt, tickslock, NoLock, LockFree, WithTicks, WithOwn, WithScan
<1>10. EnabledAt(c)'
  BY <1>1, <1>3, <1>4, <1>5 DEF EnabledAt
<1>11. ~panicked'
  BY <1>0, <1>1, <1>2, <1>4
<1>12. \A t \in Tasks : tstate'[t] = "SLEEPING" => tstate[t] = "SLEEPING"
  BY <1>0, <1>1 DEF Types
<1>13. \A d \in Cpus \ {c} : ClockedAt(d)'
  BY <1>0, <1>8, <1>12, OtherClocks
<1>14. Kept'
  BY <1>0, <1>1, <1>4, <1>5 DEF Kept, Types, Tasks
<1>15. Waking => Waking'
  BY <1>0, <1>1, <1>8 DEF Waking, Elsewhere, Types, Placed
<1>16. Rousing'
  BY <1>0, <1>1, <1>5, <1>8, <1>12, <1>15 DEF Rousing, Elsewhere, Tasks
<1> QED
  BY <1>1, <1>2, <1>4, <1>5, <1>6, <1>7, <1>8, <1>9, <1>10, <1>11, <1>13, <1>14, <1>16, Leaves

LEMMA SleepSchedStep ==
  ASSUME Inv, NEW c \in Cpus, NEW x \in Contexts, x = running[c], SleepSched(c)
  PROVE  Inv'
<1> USE SetFacts
<1>1. /\ Types /\ Placed /\ PlacedAt(c) /\ Kept /\ Rousing /\ ~panicked
      /\ LabelledAt(x) /\ CountedAt(c) /\ EnabledAt(c)
      /\ \A d \in Cpus : ClockedAt(d)
  BY DEF Inv, Placed, NoTrapPanic
<1>2. /\ lab[x] = "sleeping" /\ lab' = [lab EXCEPT ![x] = "woken"]
      /\ tstate' = [tstate EXCEPT ![x] = "SLEEPING"] /\ saved' = [saved EXCEPT ![x] = PopOff(hart[c]).intena]
      /\ running' = [running EXCEPT ![c] = c] /\ hart' = [hart EXCEPT ![c] = PopOff(hart[c])]
      /\ owner' = [owner EXCEPT ![tickslock] = NoCpu]
      /\ panicked' = (panicked \/ owner[x] # c \/ PopOff(hart[c]).noff # 1 \/ "SLEEPING" = "RUNNING" \/ PopOff(hart[c]).intr)
      /\ UNCHANGED <<want, trapped, who, scan, due>>
  BY DEF SleepSched, Sched, Is, Goes
<1>3. x \in Tasks /\ trapped[x] = "no"
  BY <1>1, <1>2 DEF LabelledAt, CpuLabels, OnClock, Handler
<1>4. /\ lab[c] = "switched" /\ scan[c] = x /\ want[c] = NoLock /\ trapped[c] = "no"
  BY <1>1, <1>3 DEF PlacedAt, Inv, LabelledAt, Handler
<1>5. /\ want[x] = NoLock /\ hart[c].noff = 2 /\ ~hart[c].intr /\ hart[c].intena /\ hart[c] \in Hart
      /\ \A l \in Locks : owner[l] = c <=> l \in {tickslock, x}
  BY <1>1, <1>2, <1>3 DEF CountedAt, EnabledAt, LockAt, Depth, Holds, LockFree, WithTicks, WithOwn, WithScan, Types
<1>6. /\ PopOff(hart[c]) \in Hart /\ PopOff(hart[c]).noff = 1 /\ PopOff(hart[c]).intena /\ ~PopOff(hart[c]).intr
  BY <1>5, PopOffFacts
<1>7. running'[c] = c /\ lab'[x] = "woken" /\ lab'[c] = "switched" /\ hart'[c] = PopOff(hart[c])
  BY <1>1, <1>2, <1>3, <1>4 DEF Types
<1>8. \A l \in Locks : owner'[l] = c <=> l = x
  BY <1>1, <1>2, <1>3, <1>5 DEF Types
<1>9. LabelledAt(x)'
  BY <1>2, <1>3, <1>7 DEF LabelledAt, Handler, TaskLabels
<1>10. Types'
  <2>1. lab' \in [Contexts -> Labels]
    BY <1>1, <1>2, <1>9, LabelFacts DEF Types
  <2>2. saved' \in [Tasks -> BOOLEAN]
    BY <1>1, <1>2, <1>6 DEF Types, Hart
  <2>3. tstate' \in [Tasks -> {"RUNNABLE", "RUNNING", "SLEEPING"}] /\ running' \in [Cpus -> Contexts]
    BY <1>1, <1>2 DEF Types
  <2>4. hart' \in [Cpus -> Hart] /\ owner' \in [Locks -> Cpus \cup {NoCpu}]
    BY <1>1, <1>2, <1>6 DEF Types
  <2>5. panicked' \in BOOLEAN
    BY <1>2
  <2> QED
    BY <1>1, <1>2, <1>7, <2>1, <2>2, <2>3, <2>4, <2>5 DEF Types, NoLock, Contexts, Tasks, Locks
<1>11. Elsewhere(c)
  BY <1>1, <1>2, <1>5 DEF Types, Elsewhere
<1>12. CountedAt(c)'
  BY <1>2, <1>3, <1>4, <1>8, <1>6, <1>7 DEF CountedAt, Holds, Depth, LockAt, tickslock, NoLock, LockFree, WithTicks, WithOwn, WithScan
<1>13. EnabledAt(c)'
  BY <1>2, <1>4, <1>6, <1>7 DEF EnabledAt
<1>14. ~panicked'
  BY <1>1, <1>2, <1>3, <1>5, <1>6
<1>15. \A t \in Tasks : tstate'[t] = "SLEEPING" => tstate[t] = "SLEEPING" \/ t = x
  BY <1>1, <1>2 DEF Types
<1>16. ASSUME NEW d \in Cpus \ {c} PROVE ClockedAt(d)'
  <2>1. running[d] # x /\ running[d] \in Contexts /\ running'[d] = running[d] /\ lab'[running[d]] = lab[running[d]]
    BY <1>1, <1>11 DEF Types, Placed, Elsewhere
  <2>2. CountedAt(d) /\ ClockedAt(d)
    BY DEF Inv
  <2>3. lab[running[d]] \notin {"ticked", "wake", "waking"}
    BY <1>5, <2>2 DEF CountedAt, Holds, WithTicks
  <2> QED
    BY <2>1, <2>2, <2>3 DEF ClockedAt, Tasks
<1>17. Kept'
  BY <1>1, <1>2, <1>6, <1>7 DEF Kept, Types, Tasks
<1>18. Waking => Waking'
  BY <1>1, <1>2, <1>11 DEF Waking, Elsewhere, Types, Placed
<1>19. x \notin due
  BY <1>1, <1>2, <1>3 DEF Rousing
<1>20. Rousing'
  BY <1>1, <1>2, <1>7, <1>11, <1>15, <1>18, <1>19 DEF Rousing, Elsewhere, Tasks
<1> QED
  BY <1>2, <1>3, <1>5, <1>7, <1>9, <1>10, <1>11, <1>12, <1>13, <1>14, <1>16, <1>17, <1>20, Leaves

LEMMA ScheduleTakeStep ==
  ASSUME Inv, NEW c \in Cpus, NEW x \in Contexts, x = running[c], NEW t \in Tasks, t = scan[c],
         ScheduleScan(c), tstate[t] = "RUNNABLE"
  PROVE  Inv'
<1> USE SetFacts
<1>0. /\ Types /\ Placed /\ PlacedAt(c) /\ Kept /\ Rousing /\ ~panicked
      /\ \A y \in Contexts : LabelledAt(y)
      /\ \A d \in Cpus : PlacedAt(d) /\ CountedAt(d) /\ EnabledAt(d) /\ ClockedAt(d)
  BY DEF Inv, Placed, NoTrapPanic
<1>1. /\ lab[x] = "scanning" /\ lab' = [lab EXCEPT ![x] = "switched"]
      /\ tstate' = [tstate EXCEPT ![t] = "RUNNING"] /\ running' = [running EXCEPT ![c] = t]
      /\ UNCHANGED <<owner, hart, panicked, scan, want, trapped, saved, who, due>>
  BY DEF ScheduleScan, Is, Goes
<1>2. x = c
  BY <1>0, <1>1 DEF PlacedAt, LabelledAt, TaskLabels, TaskCalls, OnClock
<1>3. running'[c] = t /\ lab'[c] = "switched" /\ tstate'[t] = "RUNNING" /\ lab'[t] = lab[t]
  BY <1>0, <1>1, <1>2 DEF Types
<1>4. \A d \in Cpus : running[d] # t
  BY <1>0 DEF PlacedAt
<1>5. lab[t] \in {"forkret", "back", "woken"} /\ want[t] = NoLock
  BY <1>0, <1>4 DEF Placed
<1>6. /\ want[c] = NoLock /\ hart[c].noff = 1 /\ ~hart[c].intr
      /\ \A l \in Locks : owner[l] = c <=> l = t
  <2>1. \A l \in Locks : Holds(c, l) <=> l = t
    BY <1>1, <1>2 DEF Holds, WithTicks, WithOwn, WithScan
  <2>2. LockAt(c) = NoLock /\ Depth(x) = 1
    BY <1>1 DEF LockAt, Depth, LockFree
  <2> QED
    <3>0. CountedAt(c) /\ running[c] = x /\ x = c
      BY <1>0, <1>2
    <3>1. want[c] = NoLock /\ hart[c].noff = 1
      <4>1. want[running[c]] = NoLock
        BY <2>2, <3>0 DEF CountedAt
      <4>2. hart[c].noff = Depth(running[c]) + 0
        BY <3>0, <4>1 DEF CountedAt
      <4> QED
        BY <2>2, <3>0, <4>1, <4>2
    <3>2. ~hart[c].intr
      BY <1>0, <3>1 DEF EnabledAt
    <3> QED
      BY <1>0, <2>1, <3>1, <3>2 DEF CountedAt
<1>7. ASSUME NEW y \in Contexts PROVE LabelledAt(y)'
  <2>1. LabelledAt(y) /\ (y # c => lab'[y] = lab[y])
    BY <1>0, <1>1, <1>2 DEF Types
  <2> QED
    BY <1>1, <1>2, <1>3, <2>1 DEF LabelledAt, Handler, CpuLabels, Tasks
<1>8. Types'
  <2>1. lab' \in [Contexts -> Labels]
    BY <1>0, <1>1, <1>7, LabelFacts DEF Types
  <2>2. tstate' \in [Tasks -> {"RUNNABLE", "RUNNING", "SLEEPING"}] /\ running' \in [Cpus -> Contexts]
    BY <1>0, <1>1 DEF Types
  <2> QED
    BY <1>0, <1>1, <2>1, <2>2 DEF Types, NoLock, Contexts, Tasks, Locks
<1>9. Elsewhere(c)
  BY <1>0, <1>1, <1>2 DEF Types, Elsewhere
<1>10. CountedAt(c)'
  BY <1>1, <1>3, <1>5, <1>6 DEF CountedAt, Holds, Depth, LockAt, tickslock, NoLock, LockFree, WithTicks, WithOwn, WithScan
<1>11. EnabledAt(c)'
  <2>1. trapped[t] # "no" <=> lab[t] = "back"
    BY <1>0, <1>5 DEF LabelledAt, Handler
  <2> QED
    BY <1>1, <1>3, <1>5, <1>6, <2>1 DEF EnabledAt
<1>12. \A d \in Cpus : CountedAt(d)' /\ EnabledAt(d)'
  BY <1>0, <1>9, <1>10, <1>11, OthersKept
<1>13. \A u \in Tasks : tstate'[u] = "SLEEPING" => tstate[u] = "SLEEPING"
  BY <1>0, <1>1 DEF Types
<1>14. ClockedAt(c)'
  BY <1>3, <1>5 DEF ClockedAt, OnClock
<1>15. \A d \in Cpus : ClockedAt(d)'
  BY <1>0, <1>9, <1>13, <1>14, OtherClocks
<1>16. ASSUME NEW d \in Cpus PROVE PlacedAt(d)'
  <2>1. CASE d = c
    BY <1>1, <1>3, <1>6, <2>1 DEF PlacedAt, NoLock, Tasks
  <2>2. CASE d # c
    <3>1. running'[d] = running[d] /\ running[d] # t /\ running[d] \in Contexts /\ lab'[d] = lab[d]
      BY <1>0, <1>1, <1>2, <1>4, <2>2 DEF Types
    <3>2. running[d] \in Tasks => tstate'[running[d]] = tstate[running[d]]
      BY <1>0, <1>1, <3>1 DEF Types
    <3>3. PlacedAt(d)
      BY <1>0
    <3> QED
      BY <1>1, <3>1, <3>2, <3>3 DEF PlacedAt, NoLock, Tasks
  <2> QED
    BY <2>1, <2>2
<1>17. ASSUME NEW d \in Cpus, NEW e \in Cpus, running'[d] = running'[e] PROVE d = e
  BY <1>0, <1>1, <1>4, <1>17 DEF Types, Placed
<1>18. ASSUME NEW u \in Tasks, \A d \in Cpus : running'[d] # u
       PROVE  lab'[u] \in {"forkret", "back", "woken"} /\ want'[u] = NoLock /\ tstate'[u] # "RUNNING"
  <2>1. u # t /\ u # c
    BY <1>3, <1>18
  <2>2. \A d \in Cpus : running[d] # u
    BY <1>0, <1>1, <1>2, <1>18, <2>1 DEF Types
  <2> QED
    BY <1>0, <1>1, <1>2, <2>1, <2>2 DEF Placed, Types
<1>19. Placed'
  BY <1>16, <1>17, <1>18 DEF Placed, NoLock, Tasks
<1>20. Kept'
  BY <1>0, <1>1, <1>2 DEF Kept, Types, Tasks
<1>21. Waking => Waking'
  <2>1. CASE BootCpu = c
    BY <1>1, <2>1 DEF Waking
  <2>2. CASE BootCpu # c
    BY <1>0, <1>1, <1>2, <2>2 DEF Waking, Types, Placed
  <2> QED
    BY <2>1, <2>2
<1>22. Rousing'
  BY <1>0, <1>1, <1>2, <1>13, <1>21 DEF Rousing, Types, Tasks
<1> QED
  BY <1>0, <1>1, <1>7, <1>8, <1>12, <1>15, <1>19, <1>20, <1>22 DEF Inv, NoTrapPanic, Contexts, Tasks

-----------------------------------------------------------------------------
(* The specification. *)

LEMMA InitInv == TrapInit => Inv
<1> SUFFICES ASSUME TrapInit PROVE Inv
  OBVIOUS
<1> USE SetFacts DEF TrapInit
<1>1. \A x \in Contexts : /\ lab[x] = (IF x \in Cpus THEN "loop" ELSE "forkret")
                          /\ trapped[x] = "no" /\ want[x] = NoLock
  OBVIOUS
<1>2. \A x \in Contexts : LabelledAt(x)
  BY <1>1 DEF LabelledAt, TaskLabels, TaskCalls, CpuLabels, Handler
<1>3. Types
  <2>1. lab \in [Contexts -> Labels] /\ trapped \in [Contexts -> Origins]
    BY <1>2, LabelFacts
  <2>2. hart \in [Cpus -> Hart]
    BY DEF Hart
  <2> QED
    BY <2>1, <2>2 DEF Types
<1>4. \A c \in Cpus : running[c] = c /\ lab[c] = "loop" /\ hart[c].noff = 0 /\ ~hart[c].intr /\ c # NoCpu
  BY <1>1
<1>5. Placed
  BY <1>1, <1>4 DEF Placed, PlacedAt
<1>6. Kept /\ Rousing /\ NoTrapPanic
  BY <1>1 DEF Kept, Rousing, NoTrapPanic
<1>7. ASSUME NEW c \in Cpus PROVE CountedAt(c)
  BY <1>1, <1>4 DEF CountedAt, Holds, Depth, LockAt, LockFree, WithTicks, WithOwn, WithScan
<1>8. ASSUME NEW c \in Cpus PROVE EnabledAt(c) /\ ClockedAt(c)
  BY <1>1, <1>4 DEF EnabledAt, ClockedAt, OnClock
<1> QED
  BY <1>2, <1>3, <1>5, <1>6, <1>7, <1>8 DEF Inv

LEMMA NextInv == Inv /\ [TrapNext]_tvars => Inv'
<1> SUFFICES ASSUME Inv, [TrapNext]_tvars PROVE Inv'
  OBVIOUS
<1>0. Types
  BY DEF Inv
<1>1. ASSUME NEW c \in Cpus,
             \/ AcquirePush(c) \/ AcquireSwap(c) \/ Interrupt(c) \/ Clockintr(c) \/ WakeupOne(c) \/ ClockEnd(c)
             \/ Handled(c) \/ SyscallTrap(c) \/ Usertrapret(c) \/ SysUptime(c) \/ SleepStart(c) \/ SleepTest(c)
             \/ YieldSched(c) \/ SleepSched(c) \/ YieldBack(c) \/ SleepBack(c) \/ Forkret(c)
             \/ ScheduleRound(c) \/ ScheduleScan(c) \/ ScheduleBack(c)
      PROVE Inv'
  <2> DEFINE x == running[c]
  <2>0. x \in Contexts /\ who[x] \in Tasks /\ scan[c] \in Tasks
    BY <1>0 DEF Types
  <2>1. CASE AcquirePush(c)
    BY <2>0, <2>1, AcquirePushStep
  <2>2. CASE AcquireSwap(c)
    BY <2>0, <2>2, AcquireSwapStep
  <2>3. CASE Interrupt(c)
    BY <2>0, <2>3, InterruptStep
  <2>4. CASE Clockintr(c)
    BY <2>0, <2>4, ClockintrStep
  <2>5. CASE WakeupOne(c)
    BY <2>0, <2>5, WakeupOneStep
  <2>6. CASE ClockEnd(c)
    BY <2>0, <2>6, ClockEndStep
  <2>7. CASE Handled(c)
    BY <2>0, <2>7, HandledTaskStep, HandledSchedulerStep
  <2>8. CASE SyscallTrap(c)
    BY <2>0, <2>8, SyscallTrapStep
  <2>9. CASE Usertrapret(c)
    BY <2>0, <2>9, UsertrapretStep
  <2>10. CASE SysUptime(c)
    BY <2>0, <2>10, SysUptimeStep
  <2>11. CASE SleepStart(c)
    BY <2>0, <2>11, SleepStartStep
  <2>12. CASE SleepTest(c)
    BY <2>0, <2>12, SleepTestReturns, SleepTestSleeps DEF SleepTest
  <2>13. CASE YieldSched(c)
    BY <2>0, <2>13, YieldSchedStep
  <2>14. CASE SleepSched(c)
    BY <2>0, <2>14, SleepSchedStep
  <2>15. CASE YieldBack(c)
    BY <2>0, <2>15, YieldBackStep
  <2>16. CASE SleepBack(c)
    BY <2>0, <2>16, SleepBackStep
  <2>17. CASE Forkret(c)
    BY <2>0, <2>17, ForkretStep
  <2>18. CASE ScheduleRound(c)
    BY <2>0, <2>18, ScheduleRoundStep
  <2>19. CASE ScheduleScan(c)
    BY <2>0, <2>19, ScheduleTakeStep, ScheduleSkipStep
  <2>20. CASE ScheduleBack(c)
    BY <2>0, <2>20, ScheduleBackStep
  <2> QED
    BY <1>1, <2>1, <2>2, <2>3, <2>4, <2>5, <2>6, <2>7, <2>8, <2>9, <2>10, <2>11, <2>12, <2>13, <2>14,
       <2>15, <2>16, <2>17, <2>18, <2>19, <2>20
<1>2. CASE UNCHANGED tvars
  BY <1>2 DEF tvars, Inv, Types, Placed, PlacedAt, Kept, Rousing, Waking, NoTrapPanic, LabelledAt, CountedAt,
     EnabledAt, ClockedAt, Holds, Depth, LockAt
<1> QED
  BY <1>1, <1>2 DEF TrapNext

\* None of the panics of acquire(), release(), pop_off(), sched() and kerneltrap()
\* is met, whatever the numbers of processors and tasks.
THEOREM NobodyPanics == TrapSpec => []NoTrapPanic
<1>1. TrapSpec => []Inv
  BY InitInv, NextInv, PTL DEF TrapSpec
<1>2. Inv => NoTrapPanic
  BY DEF Inv
<1> QED
  BY <1>1, <1>2, PTL

\* The locks that a processor holds are as many as its Depth says.
LEMMA HeldIsDepth ==
  ASSUME Inv, NEW c \in Cpus
  PROVE  Cardinality({l \in Locks : owner[l] = c}) = Depth(running[c])
<1> USE SetFacts
<1> DEFINE x == running[c]
           H == {l \in Locks : owner[l] = c}
<1>0. Types /\ PlacedAt(c) /\ LabelledAt(x) /\ CountedAt(c)
  BY DEF Inv, Types, Placed
<1>1. H = {l \in Locks : Holds(c, l)}
  BY <1>0 DEF CountedAt
<1>2. CASE lab[x] \in LockFree
  <2>1. H = {}
    BY <1>1, <1>2 DEF Holds, LockFree, WithTicks, WithOwn, WithScan
  <2> QED
    BY <1>2, <2>1, FS_EmptySet DEF Depth
<1>3. CASE lab[x] \in {"waking", "sleeping"}
  <2>1. x \in Contexts /\ who[x] \in Tasks /\ (lab[x] = "sleeping" => x \in Tasks)
    BY <1>0 DEF Types, LabelledAt, CpuLabels, OnClock
  <2>2. PICK t \in Tasks : H = {tickslock, t}
    <3>1. CASE lab[x] = "waking"
      <4>1. H = {tickslock, who[x]}
        BY <1>1, <2>1, <3>1 DEF Holds, WithTicks, WithOwn, WithScan
      <4> QED
        BY <2>1, <4>1
    <3>2. CASE lab[x] = "sleeping"
      <4>1. H = {tickslock, x}
        BY <1>1, <2>1, <3>2 DEF Holds, WithTicks, WithOwn, WithScan
      <4> QED
        BY <2>1, <3>2, <4>1
    <3> QED
      BY <1>3, <3>1, <3>2
  <2>3. IsFiniteSet({t}) /\ Cardinality({t}) = 1 /\ tickslock \notin {t} /\ H = {t} \cup {tickslock}
    BY <2>2, FS_Singleton
  <2>4. Cardinality(H) = 2
    <3> HIDE DEF H
    <3>1. Cardinality({t} \cup {tickslock}) = Cardinality({t}) + 1
      BY <2>3, FS_AddElement
    <3> QED
      BY <2>3, <3>1
  <2> QED
    BY <1>3, <2>4 DEF Depth, LockFree
<1>4. CASE lab[x] \notin LockFree \cup {"waking", "sleeping"}
  <2>1. PICK l \in Locks : H = {l}
    <3>1. x \in Contexts /\ scan[c] \in Tasks
      BY <1>0 DEF Types
    <3>2. CASE lab[x] \in WithTicks
      <4>1. H = {tickslock}
        BY <1>1, <1>4, <3>2 DEF Holds, WithTicks, WithOwn, WithScan
      <4> QED
        BY <4>1
    <3>3. CASE lab[x] \in WithOwn
      <4>1. x \in Tasks
        BY <1>0, <3>1, <3>3 DEF LabelledAt, WithOwn, CpuLabels, OnClock
      <4>2. H = {x}
        BY <1>1, <1>4, <3>3, <4>1 DEF Holds, WithTicks, WithOwn, WithScan
      <4> QED
        BY <4>1, <4>2
    <3>4. CASE lab[x] \in WithScan
      <4>1. H = {scan[c]}
        BY <1>1, <1>4, <3>1, <3>4 DEF Holds, WithTicks, WithOwn, WithScan
      <4> QED
        BY <3>1, <4>1
    <3>5. lab[x] \in WithTicks \cup WithOwn \cup WithScan
      BY <1>0, <1>4, <3>1 DEF LabelledAt, TaskLabels, TaskCalls, CpuLabels, OnClock, LockFree, WithTicks, WithOwn, WithScan
    <3> QED
      BY <3>2, <3>3, <3>4, <3>5
  <2> QED
    BY <1>4, <2>1, FS_Singleton DEF Depth
<1> QED
  BY <1>2, <1>3, <1>4

\* A thread has its interrupts on exactly when it is in no critical section and in
\* no handler, noff counts its critical sections, and who sleeps for a tick that
\* has come has the clock on its way.
THEOREM InterruptsComeBack == TrapSpec => []InterruptsRestored
<1>1. TrapSpec => []Inv
  BY InitInv, NextInv, PTL DEF TrapSpec
<1>2. ASSUME Inv PROVE InterruptsRestored
  <2>1. ASSUME NEW c \in Cpus
        PROVE LET x == running[c]
                  held == Cardinality({l \in Locks : owner[l] = c})
              IN
              /\ hart[c].noff = held + (IF want[x] = NoLock THEN 0 ELSE 1)
              /\ hart[c].intr => hart[c].noff = 0 /\ trapped[x] = "no"
              /\ x \in Tasks /\ hart[c].noff = 0 /\ trapped[x] = "no" /\ lab[x] # "sysret" => hart[c].intr
    <3>1. CountedAt(c) /\ EnabledAt(c)
      BY <1>2 DEF Inv
    <3>2. Cardinality({l \in Locks : owner[l] = c}) = Depth(running[c])
      BY <1>2, HeldIsDepth
    <3> QED
      BY <3>1, <3>2 DEF CountedAt, EnabledAt
  <2>2. ASSUME NEW t \in Tasks, tstate[t] = "SLEEPING", t \in due PROVE owner[tickslock] = BootCpu
    <3>1. Waking /\ CountedAt(BootCpu)
      BY <1>2, <2>2, SetFacts DEF Inv, Rousing
    <3> QED
      BY <3>1, SetFacts DEF Waking, CountedAt, Holds, WithTicks
  <2> QED
    BY <2>1, <2>2 DEF InterruptsRestored
<1> QED
  BY <1>1, <1>2, PTL
=============================================================================
