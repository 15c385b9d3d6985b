-------------------------------- MODULE Pipe --------------------------------
(* Pipes and the counts of the open file table: pipe.c, file.c and what of    *)
(* sysfile.c and proc.c works on them.  Assignment2's copy; the other one     *)
(* has the same text.                                                         *)
(*                                                                            *)
(* A section under ftable.lock is one step.  pi->lock is held over many steps  *)
(* by pipewrite() and piperead(), which go byte by byte, so that a kill can    *)
(* come between any two bytes.  sleep() gives pi->lock up and registers the    *)
(* sleeper in one step, because wakeup() needs the sleeper's p->lock.         *)
EXTENDS Naturals, Sequences, FiniteSets, FiniteSetsExt

CONSTANTS Procs, NoProc, First,   \* First: the process that is there from the start
          NFILE,      \* entries of the file table
          NOFILE,     \* descriptors of a process
          Pages,      \* what kalloc() can give: a pipe takes a page
          PIPESIZE,
          Wrap,       \* nread and nwrite count modulo Wrap (2^32)
          Bytes,
          Counts      \* the lengths that read() and write() are asked for

ASSUME PipeSizes == /\ PIPESIZE \in Nat \ {0} /\ Wrap \in Nat
                    /\ Wrap > PIPESIZE /\ Wrap % PIPESIZE = 0
                    /\ NFILE \in Nat /\ NOFILE \in Nat /\ Counts \subseteq Nat
                    /\ Bytes \subseteq Nat /\ Bytes # {} /\ 0 \notin Pages
                    /\ IsFiniteSet(Procs) /\ First \in Procs /\ NoProc \notin Procs

VARIABLES
  ftable,   \* ftable[f]: ref, type, writable and pipe of a struct file
  ofile,    \* ofile[p][fd]: a file, or 0
  pipe,     \* pipe[k]: the struct pipe in page k
  kmem,     \* the free pages
  pilock,   \* pilock[k]: who holds pi->lock
  pc,       \* pc[p]: where p is
  loc,      \* loc[p]: the local variables of the call p is in
  killed,   \* the processes with p->killed set
  got,      \* ch of piperead(): the byte that was read last, by any process
  silent    \* the pipes that have bytes nobody was woken for, left by a killed writer

pvars == <<ftable, ofile, pipe, kmem, pilock, pc, loc, killed, got, silent>>

Files == 1..NFILE
NoFile == [ref |-> 0, type |-> "none", writable |-> FALSE, page |-> 0]
NoFds == [d \in 1..NOFILE |-> 0]
\* kalloc() and kfree() fill the page with junk.
Junk == [readopen |-> FALSE, writeopen |-> FALSE, nread |-> 0, nwrite |-> 0,
         data |-> [j \in 0..(PIPESIZE - 1) |-> Min(Bytes)]]
NewPipe == [Junk EXCEPT !.readopen = TRUE, !.writeopen = TRUE, !.nread = 0, !.nwrite = 0]

\* f0, f1: files that the call is making or has to put; k, w: the pipe and side that
\* are being closed; i of n: the bytes done; then: where p goes when all is put.
NoLoc == [f0 |-> 0, f1 |-> 0, k |-> 0, w |-> FALSE, i |-> 0, n |-> 0, then |-> "user"]

Goto(p, l) == pc' = [pc EXCEPT ![p] = l]

\* p puts the files that r has left, and then goes on.
PutRest(p, next, r) ==
  LET done == r.f0 = 0 /\ r.f1 = 0 IN
  /\ loc' = [loc EXCEPT ![p] = IF done THEN NoLoc ELSE r]
  /\ pc' = [next EXCEPT ![p] = IF done THEN r.then ELSE "closing"]

\* wakeup(): the processes asleep at label l in pipe k go for the lock again.
Woken(k, l) == [q \in Procs |-> IF pc[q] = l /\ loc[q].k = k
                                THEN IF l = "wsleep" THEN "wlock" ELSE "rlock" ELSE pc[q]]

InWrite == {"wtest", "wfull"}
InRead == {"rtest", "rempty", "rcopy"}
InCall == InWrite \cup InRead \cup {"wlock", "wsleep", "rlock", "rsleep"}

PipeInit ==
  /\ ftable = [f \in Files |-> NoFile]
  /\ ofile = [p \in Procs |-> NoFds]
  /\ pipe = [k \in Pages |-> Junk]
  /\ kmem = Pages
  /\ pilock = [k \in Pages |-> NoProc]
  /\ pc = [p \in Procs |-> IF p = First THEN "user" ELSE "unused"]
  /\ loc = [p \in Procs |-> NoLoc]
  /\ killed = {} /\ silent = {}
  /\ got = Min(Bytes)

----------------------------------------------------------------------------
(* pipe(), dup(), close(), fork(), exit(), kill(). *)

\* A process that has been killed enters no call: usertrap() lets it exit.
Ready(p) == pc[p] = "user" /\ p \notin killed

\* filealloc(), called twice by pipealloc(); the type is not set here.
Filealloc(p) ==
  LET free == {f \in Files : ftable[f].ref = 0}
      f == Min(free)
  IN
  /\ Ready(p) \/ pc[p] = "pipe2"
  /\ \/ free = {} /\ PutRest(p, pc, loc[p]) /\ UNCHANGED ftable
     \/ /\ free # {}
        /\ ftable' = [ftable EXCEPT ![f].ref = 1]
        /\ \/ pc[p] = "user" /\ loc' = [loc EXCEPT ![p].f0 = f] /\ Goto(p, "pipe2")
           \/ pc[p] = "pipe2" /\ loc' = [loc EXCEPT ![p].f1 = f] /\ Goto(p, "pipe3")
  /\ UNCHANGED <<ofile, pipe, kmem, pilock, killed, got, silent>>

\* The page, without which both files are given back: kalloc() may fail at any
\* time, for all of the kernel takes pages from it.
Pipealloc(p) ==
  /\ pc[p] = "pipe3"
  /\ \/ /\ Goto(p, "closing")
        /\ UNCHANGED <<ftable, pipe, kmem>>
     \/ \E k \in kmem :
        /\ kmem' = kmem \ {k}
        /\ pipe' = [pipe EXCEPT ![k] = NewPipe]
        /\ ftable' = [f \in Files |->
             IF f \in {loc[p].f0, loc[p].f1}
             THEN [ref |-> ftable[f].ref, type |-> "pipe", writable |-> f = loc[p].f1, page |-> k]
             ELSE ftable[f]]
        /\ Goto(p, "pipe4")
  /\ UNCHANGED <<ofile, pilock, loc, killed, got, silent>>

\* Two descriptors and copyout(): if one of them fails, neither stays.
SysPipe(p) ==
  LET free == {d \in 1..NOFILE : ofile[p][d] = 0}
      fd0 == Min(free)
      fd1 == Min(free \ {fd0})
  IN
  /\ pc[p] = "pipe4"
  /\ \/ /\ Goto(p, "closing")
        /\ UNCHANGED <<ofile, loc>>
     \/ /\ Cardinality(free) >= 2
        /\ ofile' = [ofile EXCEPT ![p] = [@ EXCEPT ![fd0] = loc[p].f0, ![fd1] = loc[p].f1]]
        /\ loc' = [loc EXCEPT ![p] = NoLoc]
        /\ Goto(p, "user")
  /\ UNCHANGED <<ftable, pipe, kmem, pilock, killed, got, silent>>

SysDup(p) == \E d \in 1..NOFILE :
  LET f == ofile[p][d]
      free == {e \in 1..NOFILE : ofile[p][e] = 0}
  IN
  /\ Ready(p) /\ f # 0 /\ free # {}
  /\ ofile' = [ofile EXCEPT ![p][Min(free)] = f]
  /\ ftable' = [ftable EXCEPT ![f].ref = @ + 1]
  /\ UNCHANGED <<pipe, kmem, pilock, pc, loc, killed, got, silent>>

SysClose(p) == \E d \in 1..NOFILE :
  /\ Ready(p) /\ ofile[p][d] # 0
  /\ ofile' = [ofile EXCEPT ![p][d] = 0]
  /\ PutRest(p, pc, [NoLoc EXCEPT !.f0 = ofile[p][d]])
  /\ UNCHANGED <<ftable, pipe, kmem, pilock, killed, got, silent>>

\* fileclose(): the count goes down under ftable.lock; what the last reference
\* stood for is closed later, from the copy ff.
Fileclose(p, f, rest) ==
  LET ff == ftable[f] IN
  /\ pc[p] = "closing"
  /\ ftable' = [ftable EXCEPT ![f] = IF ff.ref = 1 THEN NoFile ELSE [ff EXCEPT !.ref = @ - 1]]
  /\ IF ff.ref = 1 /\ ff.type = "pipe"
     THEN /\ loc' = [loc EXCEPT ![p] = [rest EXCEPT !.k = ff.page, !.w = ff.writable]]
          /\ Goto(p, "pclose")
     ELSE PutRest(p, pc, rest)
  /\ UNCHANGED <<ofile, pipe, kmem, pilock, killed, got, silent>>

\* pipeclose(): kfree() comes after release(), when nobody can reach the pipe.
MutLastSide(q, w) == TRUE
LastSide(q, w) == ~(IF w THEN q.readopen ELSE q.writeopen)

Pipeclose(p) ==
  LET k == loc[p].k
      w == loc[p].w
  IN
  /\ pc[p] = "pclose" /\ pilock[k] = NoProc
  /\ pipe' = [pipe EXCEPT ![k] = IF LastSide(pipe[k], w) THEN Junk
                                 ELSE IF w THEN [pipe[k] EXCEPT !.writeopen = FALSE]
                                      ELSE [pipe[k] EXCEPT !.readopen = FALSE]]
  /\ PutRest(p, Woken(k, IF w THEN "rsleep" ELSE "wsleep"), [loc[p] EXCEPT !.k = 0, !.w = FALSE])
  /\ kmem' = IF LastSide(pipe[k], w) THEN kmem \cup {k} ELSE kmem
  /\ silent' = IF w \/ k \in kmem' THEN silent \ {k} ELSE silent
  /\ UNCHANGED <<ftable, ofile, pilock, killed, got>>

\* fork() as far as files go: the child is not visible before it has them all.
MutCopies(p, f) == IF \E d \in 1..NOFILE : ofile[p][d] = f THEN 1 ELSE 0
Copies(p, f) == Cardinality({d \in 1..NOFILE : ofile[p][d] = f})

Fork(p) == \E c \in Procs :
  /\ Ready(p) /\ pc[c] = "unused"
  /\ ofile' = [ofile EXCEPT ![c] = ofile[p]]
  /\ ftable' = [f \in Files |-> [ftable[f] EXCEPT !.ref = @ + Copies(p, f)]]
  /\ Goto(c, "user")
  /\ UNCHANGED <<pipe, kmem, pilock, loc, killed, got, silent>>

\* exit(): the files are put one by one.  The slot can be used again when the parent
\* has waited for p.
Exit(p) ==
  LET open == {d \in 1..NOFILE : ofile[p][d] # 0}
      d == Min(open)
  IN
  /\ pc[p] \in {"user", "exiting"} /\ p # First
  /\ \/ /\ open # {}
        /\ ofile' = [ofile EXCEPT ![p][d] = 0]
        /\ PutRest(p, pc, [NoLoc EXCEPT !.f0 = ofile[p][d], !.then = "exiting"])
        /\ UNCHANGED killed
     \/ /\ open = {}
        /\ Goto(p, "unused")
        /\ killed' = killed \ {p}
        /\ UNCHANGED <<ofile, loc>>
  /\ UNCHANGED <<ftable, pipe, kmem, pilock, got, silent>>

\* kill() also wakes the victim, wherever it sleeps.  Outside of a read or a write
\* it makes the victim exit soon, which the victim may do anyway.
Kill(p) ==
  /\ pc[p] \in InCall /\ p # First /\ p \notin killed
  /\ killed' = killed \cup {p}
  /\ Goto(p, IF pc[p] = "rsleep" THEN "rlock" ELSE IF pc[p] = "wsleep" THEN "wlock" ELSE pc[p])
  /\ UNCHANGED <<ftable, ofile, pipe, kmem, pilock, loc, got, silent>>

----------------------------------------------------------------------------
(* read() and write(). *)

Empty(q) == q.nread = q.nwrite
MutFullLate(q) == q.nwrite = (q.nread + PIPESIZE + 1) % Wrap
MutFull(q) == q.nwrite = q.nread + PIPESIZE
Full(q) == q.nwrite = (q.nread + PIPESIZE) % Wrap
Stored(q, b) == [q EXCEPT !.data[q.nwrite % PIPESIZE] = b, !.nwrite = (@ + 1) % Wrap]
Taken(q) == [q EXCEPT !.nread = (@ + 1) % Wrap]

\* sys_read() or sys_write() of n bytes, up to the point where it has the lock.
Begin(p, w, next) == \E d \in 1..NOFILE, n \in Counts :
  LET f == ofile[p][d]
      k == ftable[f].page
  IN
  /\ Ready(p) /\ f # 0
  /\ ftable[f].writable = w /\ pilock[k] = NoProc
  /\ pilock' = [pilock EXCEPT ![k] = p]
  /\ loc' = [loc EXCEPT ![p] = [NoLoc EXCEPT !.k = k, !.n = n]]
  /\ Goto(p, next)
  /\ UNCHANGED <<ftable, ofile, pipe, kmem, killed, got, silent>>

\* acquire(lk) at the end of sleep().
Wake(p, l, next) ==
  /\ pc[p] = l /\ pilock[loc[p].k] = NoProc
  /\ pilock' = [pilock EXCEPT ![loc[p].k] = p]
  /\ Goto(p, next)
  /\ UNCHANGED <<ftable, ofile, pipe, kmem, loc, killed, got, silent>>

\* release(&pi->lock) and back to user space, after a wakeup of those at label l.
Leave(p, l) ==
  /\ pilock' = [pilock EXCEPT ![loc[p].k] = NoProc]
  /\ pc' = [Woken(loc[p].k, l) EXCEPT ![p] = "user"]
  /\ loc' = [loc EXCEPT ![p] = NoLoc]
  /\ silent' = IF l = "rsleep" THEN silent \ {loc[p].k} ELSE silent

\* The same without a wakeup, for a process that has been killed, or a writer
\* that nobody reads: what it has written may lie there with readers asleep.
GiveUp(p) ==
  LET k == loc[p].k IN
  /\ pilock' = [pilock EXCEPT ![k] = NoProc]
  /\ Goto(p, "user")
  /\ loc' = [loc EXCEPT ![p] = NoLoc]
  /\ silent' = IF ~Empty(pipe[k]) /\ \E q \in Procs : pc[q] = "rsleep" /\ loc[q].k = k
               THEN silent \cup {k} ELSE silent

\* sleep(): the caller has said at which label p waits, without the lock.
Sleep(p) ==
  /\ pilock' = [pilock EXCEPT ![loc[p].k] = NoProc]
  /\ UNCHANGED <<ftable, ofile, pipe, kmem, loc, killed, got>>

Pipewrite(p) ==
  LET k == loc[p].k
      q == pipe[k]
      more == loc[p].i < loc[p].n
      stop == ~q.readopen \/ p \in killed
  IN
  /\ pc[p] = "wtest"
  /\ \/ ~more /\ Leave(p, "rsleep") /\ UNCHANGED pipe
     \/ more /\ stop /\ GiveUp(p) /\ UNCHANGED pipe
     \/ more /\ ~stop /\ Full(q) /\ Goto(p, "wfull") /\ UNCHANGED <<pipe, pilock, loc, silent>>
     \/ /\ more /\ ~stop /\ ~Full(q)
        /\ \/ Leave(p, "rsleep") /\ UNCHANGED pipe                    \* copyin() fails
           \/ /\ \E b \in Bytes : pipe' = [pipe EXCEPT ![k] = Stored(q, b)]
              /\ loc' = [loc EXCEPT ![p].i = @ + 1]
              /\ UNCHANGED <<pilock, pc, silent>>
  /\ UNCHANGED <<ftable, ofile, kmem, killed, got>>

\* A full pipe; a kill since the test of killed() is not seen before the next one.
MutWriteSleep(p) ==
  /\ pc[p] = "wfull" /\ Goto(p, "wsleep") /\ Sleep(p) /\ UNCHANGED silent
WriteSleep(p) ==
  /\ pc[p] = "wfull"
  /\ pc' = [Woken(loc[p].k, "rsleep") EXCEPT ![p] = "wsleep"]
  /\ silent' = silent \ {loc[p].k}
  /\ Sleep(p)

Piperead(p) ==
  LET k == loc[p].k
      q == pipe[k]
      wait == Empty(q) /\ q.writeopen
  IN
  /\ pc[p] = "rtest"
  /\ \/ wait /\ p \in killed /\ GiveUp(p)
     \/ wait /\ p \notin killed /\ Goto(p, "rempty") /\ UNCHANGED <<pilock, loc, silent>>
     \/ ~wait /\ Goto(p, "rcopy") /\ UNCHANGED <<pilock, loc, silent>>
  /\ UNCHANGED <<ftable, ofile, pipe, kmem, killed, got>>

ReadSleep(p) ==
  /\ pc[p] = "rempty"
  /\ Goto(p, "rsleep")
  /\ Sleep(p)
  /\ UNCHANGED silent

\* A byte for which copyout() fails has left the pipe all the same.
PipereadCopy(p) ==
  LET k == loc[p].k
      q == pipe[k]
      done == loc[p].i = loc[p].n \/ Empty(q)
  IN
  /\ pc[p] = "rcopy"
  /\ \/ done /\ Leave(p, "wsleep") /\ UNCHANGED <<pipe, got>>
     \/ /\ ~done
        /\ got' = q.data[q.nread % PIPESIZE]
        /\ pipe' = [pipe EXCEPT ![k] = Taken(q)]
        /\ \/ Leave(p, "wsleep")                                      \* copyout() fails
           \/ loc' = [loc EXCEPT ![p].i = @ + 1] /\ UNCHANGED <<pilock, pc, silent>>
  /\ UNCHANGED <<ftable, ofile, kmem, killed>>

----------------------------------------------------------------------------

PipeStep(p) ==
  \/ Filealloc(p) \/ Pipealloc(p) \/ SysPipe(p) \/ SysDup(p) \/ SysClose(p)
  \/ loc[p].f0 # 0 /\ Fileclose(p, loc[p].f0, [loc[p] EXCEPT !.f0 = 0])
  \/ loc[p].f0 = 0 /\ Fileclose(p, loc[p].f1, [loc[p] EXCEPT !.f1 = 0])
  \/ Pipeclose(p) \/ Fork(p) \/ Exit(p) \/ Kill(p)
  \/ Begin(p, TRUE, "wtest") \/ Begin(p, FALSE, "rtest")
  \/ Wake(p, "wlock", "wtest") \/ Wake(p, "rlock", "rtest")
  \/ Pipewrite(p) \/ WriteSleep(p) \/ Piperead(p) \/ ReadSleep(p) \/ PipereadCopy(p)

PipeNext == \E p \in Procs : PipeStep(p)

PipeSpec == PipeInit /\ [][PipeNext]_pvars

----------------------------------------------------------------------------
(* Properties. *)

Fill(q) == (q.nwrite + Wrap - q.nread) % Wrap
Labels == InCall \cup {"unused", "user", "exiting", "pipe2", "pipe3", "pipe4", "closing", "pclose"}
\* Types; the window between nread and nwrite, which wrap around separately, is
\* never wider than the ring; who is in a section of pipe.c has its lock.
PipeTypeOK ==
  /\ ftable \in [Files -> [ref : Nat, type : {"none", "pipe"}, writable : BOOLEAN,
                           page : Pages \cup {0}]]
  /\ ofile \in [Procs -> [1..NOFILE -> {0} \cup Files]]
  /\ pipe \in [Pages -> [readopen : BOOLEAN, writeopen : BOOLEAN, nread : 0..(Wrap - 1),
                         nwrite : 0..(Wrap - 1), data : [0..(PIPESIZE - 1) -> Bytes]]]
  /\ kmem \subseteq Pages /\ killed \subseteq Procs /\ silent \subseteq Pages
  /\ pc \in [Procs -> Labels] /\ got \in Bytes
  /\ loc \in [Procs -> [f0 : {0} \cup Files, f1 : {0} \cup Files, k : {0} \cup Pages, w : BOOLEAN,
                        i : Nat, n : Nat, then : {"user", "exiting"}]]
  /\ \A k \in Pages : Fill(pipe[k]) <= PIPESIZE
  /\ \A p \in Procs, k \in Pages : pilock[k] = p <=> pc[p] \in InWrite \cup InRead /\ loc[p].k = k

\* f->ref counts the descriptors of all processes, the files a call is making
\* and those that close() or exit() has still to put.
RefsCounted == \A f \in Files :
  ftable[f].ref = Cardinality({x \in Procs \X (1..NOFILE) : ofile[x[1]][x[2]] = f})
                  + Cardinality({p \in Procs : loc[p].f0 = f})
                  + Cardinality({p \in Procs : loc[p].f1 = f})

\* The page of a pipe is in use exactly as long as a file or a closing process
\* stands for one of its sides, and a side is open as long as one stands for it:
\* it is freed once, and never under a process that reads or writes; for that, the
\* references to files are counted exactly.
Side(k, w) ==
  \/ \E f \in Files : ftable[f] = [ref |-> ftable[f].ref, type |-> "pipe", writable |-> w, page |-> k]
  \/ \E p \in Procs : pc[p] = "pclose" /\ loc[p].k = k /\ loc[p].w = w

PipeLives == RefsCounted /\ \A k \in Pages :
  /\ k \in kmem <=> ~Side(k, TRUE) /\ ~Side(k, FALSE)
  /\ k \notin kmem => /\ pipe[k].readopen <=> Side(k, FALSE)
                      /\ pipe[k].writeopen <=> Side(k, TRUE)
  /\ \A p \in Procs : pc[p] \notin {"unused", "user", "exiting"} /\ loc[p].k = k => k \notin kmem

\* Nobody sleeps in a pipe that has what it sleeps for, once the lock is free,
\* but for bytes that a killed writer has left without a wakeup.
NoSleeperForgotten == \A p \in Procs :
  LET q == pipe[loc[p].k] IN
  /\ pc[p] = "rsleep" /\ pilock[loc[p].k] = NoProc =>
       (Empty(q) /\ q.writeopen) \/ loc[p].k \in silent
  /\ pc[p] = "wsleep" /\ pilock[loc[p].k] = NoProc => Full(q) /\ q.readopen

\* The pipe is a FIFO of bytes: what is between nread and nwrite, in ring order.
Queue(k) == IF k \in kmem THEN <<>>
            ELSE [j \in 1..Fill(pipe[k]) |-> pipe[k].data[(pipe[k].nread + j - 1) % PIPESIZE]]

Stream == INSTANCE ByteStream WITH queue <- [k \in Pages |-> Queue(k)], Capacity <- PIPESIZE
StreamSpec == Stream!StreamSpec
=============================================================================
