----------------------------- MODULE MCKernel -----------------------------
(* Five components of the kernel that share no state, in one run.  part says   *)
(* which of them moves.                                                        *)
EXTENDS Pipe, Disk, Memory, Tty, UserCopy

CONSTANT Watched
VARIABLE part

allvars == <<part, pvars, dvars, mvars, ttyvars, cvars>>

Init ==
  /\ part \in {"pipe", "disk", "memory", "tty", "copy"}
  /\ UserCopyInit /\ (part # "copy" => usz = 0)
  /\ PipeInit /\ DiskInit /\ MemInit /\ TtyInit
  /\ part # "disk" => Cardinality(freeDescs) = Min(NUMs)

Next ==
  /\ UNCHANGED part
  /\ \/ part = "pipe" /\ PipeNext /\ UNCHANGED <<dvars, mvars, ttyvars, cvars>>
     \/ part = "disk" /\ DiskNext /\ UNCHANGED <<pvars, mvars, ttyvars, cvars>>
     \/ part = "memory" /\ MemNext /\ UNCHANGED <<pvars, dvars, ttyvars, cvars>>
     \/ part = "tty" /\ TtyNext /\ UNCHANGED <<pvars, dvars, mvars, cvars>>
     \/ part = "copy" /\ UserCopyNext /\ UNCHANGED <<pvars, dvars, mvars, ttyvars>>

Spec == Init /\ [][Next]_allvars

----------------------------------------------------------------------------
(* Bounds. *)

\* pipe.c never looks at a byte: let each be the number it is written under.
NumberedBytes == \A k \in Pages : \A j \in 1..Len(Queue(k)) :
  Queue(k)[j] = (pipe[k].nread + j - 1) % Wrap

\* The driver and bio.c never look at a block: only one has contents that change.
OneBlock == \A n \in Blknos \ {Watched} :
  stored[n] = 0 /\ n \notin pins /\ \A b \in Cached(n) : buf[b].valid => buf[b].data = 0

\* With descriptors for both threads at once, two blocks are enough, unpinned.
TwoBlocks == Cardinality(Descs) > Min(NUMs) =>
  pins = {} /\ \E b \in Bufs : buf[b].blockno = NoBlkno

\* While somebody writes to the console nobody reads from it, and no line is ended:
\* they meet in the UART only, which the echo of what is typed uses all the time.
InOrOut == tx > 0 \/ (\E p \in Writers : wr[p] # "user") =>
  cons.r = cons.w /\ rx # "kill" /\ \A p \in Readers : rd[p] = "user"

Bounded == NumberedBytes /\ OneBlock /\ TwoBlocks /\ InOrOut

----------------------------------------------------------------------------
(* States that differ only in what no step looks at are taken together. *)

\* got, and data outside of the queue.
PipeView == <<ftable, ofile, [k \in Pages |-> [pipe[k] EXCEPT !.data = Queue(k)]],
              kmem, pilock, pc, loc, killed, silent>>

\* The numbers of the blocks other than Watched, and which of the two threads is which.
Number(b) == IF buf[b].blockno \in {NoBlkno, Watched} THEN buf[b].blockno
             ELSE Min(Cached(buf[b].blockno))
Local(t) == <<at[t], my[t], other[t], {b \in Bufs : buf[b].lock = t}>>
DiskView == <<[b \in Bufs |-> [buf[b] EXCEPT !.blockno = Number(b), !.lock = NoThread]],
              {Local(t) : t \in Threads},
              lru, pins, freeDescs, info, avail, used, irq, intr, stored>>

\* Which page is where.
Shape(x) == <<{n \in Nodes : pt[x].node[n] # 0}, {v \in Pages8 : pt[x].leaf[v] # 0}>>
MemView == <<[x \in Slots \cup {0} |-> Shape(x)], {p \in Slots : tf[p] # 0}, psz, status,
             bad, failed, Cardinality(freelist), PagesOwnedOnce>>

\* taken, the buffer outside of the two lines, and the handler's character at its end.
HcIsRead == h \in {"char", "echo_put", "thr_put", "put"}
TtyView == <<cons.r, EndedLines, TypedLine,
             cons.lock, rd, left, doomed, outputs, rx, uirq, h, IF HcIsRead THEN hc ELSE "none">>

\* call, which no step looks at.
CopyView == <<usz, perm, umem>>

\* The type invariants of the parts.
KernelTypeOK ==
  CASE part = "pipe" -> PipeTypeOK [] part = "disk" -> DiskTypeOK
    [] part = "memory" -> MemTypeOK [] part = "tty" -> TtyTypeOK
    [] part = "copy" -> CopyTypeOK

View == <<part, CASE part = "pipe" -> PipeView [] part = "disk" -> DiskView
                  [] part = "memory" -> MemView
                  [] part = "tty" -> TtyView [] part = "copy" -> CopyView>>

MCOver == {<<m, n>> \in Blknos \X Blknos : m # n /\ Watched \in {m, n}}
MCDeltas == {<<TRUE, 1>>, <<TRUE, 4>>, <<FALSE, 1>>, <<FALSE, 3>>}
MCSources == {<<1>>, <<1, 0>>, <<0, 1, 1>>, <<1, 1, 0, 1, 1>>}
MCPrograms == {<<3, 1>>, <<1, 4>>}
=============================================================================
