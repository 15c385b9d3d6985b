-------------------------------- MODULE Log --------------------------------
(***************************************************************************)
(* The write-ahead log of xv6 (kernel/log.c), with the part of the buffer  *)
(* cache it leans on (bread, bwrite, bpin, bunpin of kernel/bio.c).        *)
(* File system calls run concurrently between begin_op() and end_op(); the *)
(* last one to leave commits for all of them; the machine may lose power   *)
(* between any two disk writes, and recovery itself may be cut short.      *)
(* A critical section under log.lock is one step, and so is one bwrite.    *)
(***************************************************************************)
EXTENDS Integers, Sequences, FiniteSets

CONSTANTS
  Procs,        \* the processes that make file system calls
  Blocks,       \* home block numbers
  Vals,         \* what a block may contain
  InitVal,      \* what mkfs left in every block
  NoBlock,      \* "no buffer held"
  NoBuf,        \* "not in the buffer cache"
  LOGSIZE,      \* param.h: capacity of the in-memory header
  NLOG,         \* sb->nlog: blocks of the on-disk log, its header included
  MAXOPBLOCKS,  \* param.h: blocks an operation reserves
  OPBLOCKS      \* the most distinct blocks an operation really writes

ASSUME LogSizes ==
  /\ LOGSIZE \in Nat \ {0}
  /\ NLOG \in Nat
  /\ MAXOPBLOCKS \in Nat \ {0}
  /\ OPBLOCKS \in 0..MAXOPBLOCKS

ASSUME LogData ==
  /\ InitVal \in Vals
  /\ NoBuf \notin Vals
  /\ NoBlock \notin Blocks
  /\ IsFiniteSet(Procs)
  /\ IsFiniteSet(Blocks)

VARIABLES
  home,         \* on disk: the blocks at their home locations
  logblk,       \* on disk: the blocks log.start+1, log.start+2, ...
  hdr,          \* on disk: the header block, as the sequence block[0..n-1]
  lh,           \* log.lh, as a sequence
  outstanding,  \* log.outstanding
  committing,   \* log.committing
  cache,        \* the cached contents of each home block
  pins,         \* the references bpin took on each block
  held,         \* the buffer whose sleep lock a process holds
  wrote,        \* the blocks a process has logged in its current call
  pc,           \* where each process is with respect to its call
  phase,        \* where commit() or recover_from_log() is
  tail,         \* the loop index of write_log() and install_trans(), from 1
  panicked      \* panic() was called, and log.lock is held for ever

disk == <<home, logblk, hdr>>
counters == <<lh, outstanding, committing>>
bufs == <<cache, pins, held>>
vars == <<disk, counters, bufs, wrote, pc, phase, tail, panicked>>

Recovering == phase \in {"read_head", "r_install", "r_clear"}
Logged == {lh[i] : i \in 1..Len(lh)}

\* No process holds the sleep lock of b.
Free(b) == \A p \in Procs : held[p] # b

\* What bread(b) returns.
Content(b) == IF cache[b] = NoBuf THEN home[b] ELSE cache[b]

\* Boot from a disk that mkfs wrote.
Init ==
  /\ home = [b \in Blocks |-> InitVal]
  /\ logblk = [i \in 1..LOGSIZE |-> InitVal]
  /\ hdr = <<>>
  /\ lh = <<>>
  /\ outstanding = 0
  /\ committing = FALSE
  /\ cache = [b \in Blocks |-> NoBuf]
  /\ pins = [b \in Blocks |-> 0]
  /\ held = [p \in Procs |-> NoBlock]
  /\ wrote = [p \in Procs |-> {}]
  /\ pc = [p \in Procs |-> "out"]
  /\ phase = "read_head"
  /\ tail = 1
  /\ panicked = FALSE

----------------------------------------------------------------------------
(* begin_op() and end_op(). *)

\* Mutant: the call that asks is not counted among those with a reservation.
MutHasSpace == Len(lh) + outstanding * MAXOPBLOCKS <= LOGSIZE

HasSpace == Len(lh) + (outstanding + 1) * MAXOPBLOCKS <= LOGSIZE

\* wakeup(&log): every sleeper goes round the loop of begin_op() again.
Woken(f) == [p \in Procs |-> IF f[p] = "sleep" THEN "begin" ELSE f[p]]

InBeginOp(p) ==
  /\ ~panicked
  /\ ~Recovering
  /\ pc[p] \in {"out", "begin"}

\* Mutant: begin_op() does not look at log.committing.
MutBeginOp(p) ==
  /\ InBeginOp(p)
  /\ HasSpace
  /\ outstanding' = outstanding + 1
  /\ pc' = [pc EXCEPT ![p] = "in"]
  /\ wrote' = [wrote EXCEPT ![p] = {}]
  /\ UNCHANGED <<disk, lh, committing, bufs, phase, tail, panicked>>

BeginOp(p) ==
  /\ InBeginOp(p)
  /\ ~committing /\ HasSpace
  /\ outstanding' = outstanding + 1
  /\ pc' = [pc EXCEPT ![p] = "in"]
  /\ wrote' = [wrote EXCEPT ![p] = {}]
  /\ UNCHANGED <<disk, lh, committing, bufs, phase, tail, panicked>>

BeginOpSleep(p) ==
  /\ InBeginOp(p)
  /\ committing \/ ~HasSpace
  /\ pc' = [pc EXCEPT ![p] = "sleep"]
  /\ UNCHANGED <<disk, counters, bufs, wrote, phase, tail, panicked>>

EndOp(p) ==
  /\ ~panicked
  /\ pc[p] = "in" /\ held[p] = NoBlock
  /\ outstanding' = outstanding - 1
  /\ panicked' = committing
  /\ IF outstanding' = 0
     THEN /\ committing' = TRUE
          /\ phase' = IF lh = <<>> THEN "finish" ELSE "write_log"
          /\ tail' = 1
          /\ pc' = [pc EXCEPT ![p] = "commit"]
     ELSE /\ pc' = Woken([pc EXCEPT ![p] = "out"])
          /\ UNCHANGED <<committing, phase, tail>>
  /\ UNCHANGED <<disk, lh, bufs, wrote>>

----------------------------------------------------------------------------
(* A file system call at work: bread(), a change of b->data, log_write(),  *)
(* brelse().                                                               *)

Modify(p, b, v) ==
  /\ pc[p] = "in" /\ held[p] = NoBlock /\ Free(b)
  /\ Cardinality(wrote[p] \union {b}) <= OPBLOCKS
  /\ cache' = [cache EXCEPT ![b] = v]
  /\ held' = [held EXCEPT ![p] = b]
  /\ UNCHANGED <<disk, counters, pins, wrote, pc, phase, tail, panicked>>

\* The two panics of log_write().
LogWritePanics ==
  \/ Len(lh) >= LOGSIZE
  \/ Len(lh) >= NLOG - 1
  \/ outstanding < 1

\* Mutant: log_write() pins the buffer also when it absorbs the write.
MutLogWrite(p) ==
  /\ ~panicked
  /\ held[p] # NoBlock
  /\ panicked' = LogWritePanics
  /\ IF panicked'
     THEN UNCHANGED <<lh, pins, wrote, held>>
     ELSE /\ lh' = IF held[p] \in Logged THEN lh ELSE Append(lh, held[p])
          /\ pins' = [pins EXCEPT ![held[p]] = @ + 1]
          /\ wrote' = [wrote EXCEPT ![p] = @ \union {held[p]}]
          /\ held' = [held EXCEPT ![p] = NoBlock]
  /\ UNCHANGED <<disk, outstanding, committing, cache, pc, phase, tail>>

LogWrite(p) ==
  /\ ~panicked
  /\ held[p] # NoBlock
  /\ panicked' = LogWritePanics
  /\ IF panicked'
     THEN UNCHANGED <<lh, pins, wrote, held>>
     ELSE /\ IF held[p] \in Logged
             THEN UNCHANGED <<lh, pins>>                 \* log absorption
             ELSE /\ lh' = Append(lh, held[p])
                  /\ pins' = [pins EXCEPT ![held[p]] = @ + 1]
          /\ wrote' = [wrote EXCEPT ![p] = @ \union {held[p]}]
          /\ held' = [held EXCEPT ![p] = NoBlock]
  /\ UNCHANGED <<disk, outstanding, committing, cache, pc, phase, tail>>

----------------------------------------------------------------------------
(* commit(), by the process whose end_op() was the last. *)

\* One round of the loop of write_log().
WriteLog ==
  /\ phase = "write_log" /\ Free(lh[tail])
  /\ logblk' = [logblk EXCEPT ![tail] = Content(lh[tail])]
  /\ cache' = [cache EXCEPT ![lh[tail]] = Content(lh[tail])]
  /\ IF tail = Len(lh) THEN phase' = "write_head" /\ tail' = 1
                       ELSE phase' = phase /\ tail' = tail + 1
  /\ UNCHANGED <<home, hdr, counters, pins, held, wrote, pc, panicked>>

\* write_head(): the true point at which the transaction commits.
WriteHead ==
  /\ phase = "write_head"
  /\ hdr' = lh
  /\ phase' = "install"
  /\ UNCHANGED <<home, logblk, counters, bufs, wrote, pc, tail, panicked>>

\* Mutant: install_trans() unpins in recovery too.
MutInstall ==
  /\ phase \in {"install", "r_install"} /\ Free(lh[tail])
  /\ home' = [home EXCEPT ![lh[tail]] = logblk[tail]]
  /\ cache' = [cache EXCEPT ![lh[tail]] = logblk[tail]]
  /\ pins' = [pins EXCEPT ![lh[tail]] = @ - 1]
  /\ IF tail = Len(lh)
     THEN phase' = (IF phase = "install" THEN "clear" ELSE "r_clear") /\ tail' = 1
     ELSE phase' = phase /\ tail' = tail + 1
  /\ UNCHANGED <<logblk, hdr, counters, held, wrote, pc, panicked>>

\* One round of the loop of install_trans(recovering).
Install ==
  /\ phase \in {"install", "r_install"} /\ Free(lh[tail])
  /\ home' = [home EXCEPT ![lh[tail]] = logblk[tail]]
  /\ cache' = [cache EXCEPT ![lh[tail]] = logblk[tail]]
  /\ pins' = IF phase = "install" THEN [pins EXCEPT ![lh[tail]] = @ - 1] ELSE pins
  /\ IF tail = Len(lh)
     THEN phase' = (IF phase = "install" THEN "clear" ELSE "r_clear") /\ tail' = 1
     ELSE phase' = phase /\ tail' = tail + 1
  /\ UNCHANGED <<logblk, hdr, counters, held, wrote, pc, panicked>>

\* log.lh.n = 0; write_head(): erase the transaction from the log.
ClearHead ==
  /\ phase \in {"clear", "r_clear"}
  /\ lh' = <<>>
  /\ hdr' = <<>>
  /\ phase' = IF phase = "clear" THEN "finish" ELSE "idle"
  /\ UNCHANGED <<home, logblk, outstanding, committing, bufs, wrote, pc, tail, panicked>>

\* Mutant: end_op() does not wake the waiters after its commit.
MutFinish(p) ==
  /\ ~panicked
  /\ pc[p] = "commit" /\ phase = "finish"
  /\ committing' = FALSE
  /\ phase' = "idle"
  /\ pc' = [pc EXCEPT ![p] = "out"]
  /\ UNCHANGED <<disk, lh, outstanding, bufs, wrote, tail, panicked>>

\* The end of end_op() in the process that committed.
Finish(p) ==
  /\ ~panicked
  /\ pc[p] = "commit" /\ phase = "finish"
  /\ committing' = FALSE
  /\ phase' = "idle"
  /\ pc' = Woken([pc EXCEPT ![p] = "out"])
  /\ UNCHANGED <<disk, lh, outstanding, bufs, wrote, tail, panicked>>

----------------------------------------------------------------------------
(* Recovery, the rest of the buffer cache's life, and power loss. *)

\* read_head() in recover_from_log().
ReadHead ==
  /\ phase = "read_head"
  /\ lh' = hdr
  /\ phase' = IF hdr = <<>> THEN "r_clear" ELSE "r_install"
  /\ tail' = 1
  /\ UNCHANGED <<disk, outstanding, committing, bufs, wrote, pc, panicked>>

\* A call that only reads, inside or outside of a transaction, reads b.
Load(b) ==
  /\ ~Recovering /\ Free(b)
  /\ cache[b] = NoBuf
  /\ cache' = [cache EXCEPT ![b] = home[b]]
  /\ UNCHANGED <<disk, counters, pins, held, wrote, pc, phase, tail, panicked>>

\* Mutant: the pin is not counted in the buffer's references.
MutRecycle(b) ==
  /\ cache[b] # NoBuf /\ Free(b)
  /\ cache' = [cache EXCEPT ![b] = NoBuf]
  /\ UNCHANGED <<disk, counters, pins, held, wrote, pc, phase, tail, panicked>>

\* bget() recycles the buffer of b for some other block.
Recycle(b) ==
  /\ cache[b] # NoBuf /\ pins[b] = 0 /\ Free(b)
  /\ cache' = [cache EXCEPT ![b] = NoBuf]
  /\ UNCHANGED <<disk, counters, pins, held, wrote, pc, phase, tail, panicked>>

\* Only the disk survives; initlog() starts over.
Crash ==
  /\ lh' = <<>>
  /\ outstanding' = 0
  /\ committing' = FALSE
  /\ cache' = [b \in Blocks |-> NoBuf]
  /\ pins' = [b \in Blocks |-> 0]
  /\ held' = [p \in Procs |-> NoBlock]
  /\ wrote' = [p \in Procs |-> {}]
  /\ pc' = [p \in Procs |-> "out"]
  /\ phase' = "read_head"
  /\ tail' = 1
  /\ panicked' = FALSE
  /\ UNCHANGED disk

----------------------------------------------------------------------------
Commit ==
  \/ WriteLog
  \/ WriteHead
  \/ Install
  \/ ClearHead
  \/ \E p \in Procs : Finish(p)

Next ==
  \/ \E p \in Procs : BeginOp(p)
  \/ \E p \in Procs : BeginOpSleep(p)
  \/ \E p \in Procs : EndOp(p)
  \/ \E p \in Procs, b \in Blocks, v \in Vals : Modify(p, b, v)
  \/ \E p \in Procs : LogWrite(p)
  \/ Commit
  \/ ReadHead
  \/ \E b \in Blocks : Load(b)
  \/ \E b \in Blocks : Recycle(b)
  \/ Crash

\* A runnable process runs, the disk answers, and the code of a system call
\* between begin_op() and end_op() is finite: whatever it locks and logs in
\* between, it comes to its end_op().
Fairness ==
  /\ WF_vars(Commit \/ ReadHead)
  /\ \A p \in Procs : WF_vars(LogWrite(p)) /\ SF_vars(EndOp(p))

Spec == Init /\ [][Next]_vars /\ Fairness

----------------------------------------------------------------------------
(* Properties. *)

Phases == {"idle", "read_head", "r_install", "r_clear",
           "write_log", "write_head", "install", "clear", "finish"}

\* The type invariant: the in-memory and the on-disk header fit their arrays.
TypeOK ==
  /\ home \in [Blocks -> Vals]
  /\ logblk \in [1..LOGSIZE -> Vals]
  /\ hdr \in Seq(Blocks) /\ Len(hdr) <= LOGSIZE
  /\ lh \in Seq(Blocks) /\ Len(lh) <= LOGSIZE
  /\ outstanding \in Nat
  /\ committing \in BOOLEAN
  /\ cache \in [Blocks -> Vals \union {NoBuf}]
  /\ pins \in [Blocks -> Nat]
  /\ held \in [Procs -> Blocks \union {NoBlock}]
  /\ wrote \in [Procs -> SUBSET Blocks]
  /\ pc \in [Procs -> {"out", "begin", "sleep", "in", "commit"}]
  /\ phase \in Phases
  /\ tail \in 1..LOGSIZE
  /\ panicked \in BOOLEAN

\* The log slots that the calls in progress may still use up: one for each
\* block a call has reserved in begin_op() and not yet logged.
Unspent == {s \in Procs \X (1..MAXOPBLOCKS) :
              pc[s[1]] = "in" /\ s[2] > Cardinality(wrote[s[1]])}

\* begin_op() admits a call only if the log has room for everything the calls
\* in progress may still write, whatever was logged, absorbed and left behind
\* by calls that came and went since the last commit.
LogSpaceReserved == Len(lh) + Cardinality(Unspent) <= LOGSIZE

\* The on-disk log holds what begin_op() admits: an operation really writes
\* few enough blocks less than it reserves.  log_write() panics on a full log
\* even when the block would be absorbed, hence the strict comparisons.
LogFits ==
  /\ OPBLOCKS < MAXOPBLOCKS
  /\ LOGSIZE + OPBLOCKS < (NLOG - 1) + MAXOPBLOCKS

\* No call meets the panics of log_write() and end_op().
NoPanic == ~panicked

\* A block whose cached contents are newer than its home is never one that
\* bget() may recycle: log_write()'s bpin() lasts until install_trans() has
\* written the block, and not one reference longer.
DirtyIsPinned ==
  ~Recovering => \A b \in Blocks :
     /\ cache[b] \notin {NoBuf, home[b]} => pins[b] > 0 \/ ~Free(b)
     /\ pins[b] > 0 => b \in Logged

\* A process asleep in begin_op() is woken: the commit or the end_op() it
\* waits for does not forget it.
SleepersWake == \A p \in Procs : pc[p] = "sleep" ~> pc[p] # "sleep"

\* What the disk would hold if the power failed now and recovery ran.
Recovered == [b \in Blocks |->
  IF \E i \in 1..Len(hdr) : hdr[i] = b
  THEN logblk[CHOOSE i \in 1..Len(hdr) : hdr[i] = b]
  ELSE home[b]]

\* What a call would read, once recovery is over.
Visible == [b \in Blocks |-> IF Recovering THEN Recovered[b] ELSE Content(b)]

Disk == INSTANCE AtomicDisk WITH
  mem <- Visible, durable <- Recovered, active <- {p \in Procs : pc[p] \in {"in", "commit"}}

\* The log implements the atomic disk: calls are durable all together or not
\* at all, in whatever step of a commit or of a recovery the power fails.
AtomicDiskSpec == Disk!Spec
============================================================================
