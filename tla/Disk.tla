-------------------------------- MODULE Disk --------------------------------
(* The buffer cache over sleep locks and the virtio disk driver: bio.c,       *)
(* sleeplock.c, virtio_disk.c.  Assignment2's copy; the other has the same    *)
(* text.                                                                      *)
(*                                                                            *)
(* A section under bcache.lock, under the spinlock of a sleep lock or under   *)
(* vdisk_lock is one step, but for the interrupt handler: the device adds to   *)
(* the used ring while it runs.  A thread asleep for a sleep lock or for its    *)
(* request is one whose next step has to wait; the sleepers on disk.free[0]    *)
(* are told apart, because they are woken for less than they sleep for.        *)
EXTENDS Naturals, Sequences, FiniteSets, FiniteSetsExt, SequencesExt

CONSTANTS Threads, NoThread, Blknos, NoBlkno, Vals,
          NBUF,        \* buffers
          NUMs,        \* numbers of descriptors: what NUM may be
          MaxPins,     \* blocks the log keeps pinned at a time
          Over         \* <<m, n>>: some caller reads block n while it has block m

ASSUME DiskSizes == /\ NUMs \subseteq Nat /\ \A n \in NUMs : n >= 3
                    /\ IsFiniteSet(Threads) /\ NoThread \notin Threads /\ NoBlkno \notin Blknos
                    /\ MaxPins \in Nat /\ NBUF \in Nat \ {0}
                    /\ Over \subseteq Blknos \X Blknos /\ \A n \in Blknos : <<n, n>> \notin Over

VARIABLES
  buf,     \* buf[b]: blockno, valid, refcnt, data, disk, and lock: who has b->lock
  lru,     \* the list of buffers, most recently used first
  pins,    \* the blocks that were pinned and not unpinned
  freeDescs, \* the free descriptors
  info,    \* info[d]: the request of the chain that starts with d
  avail,   \* the chains given to the device and not done
  used,    \* the chains the device is done with and the driver has not seen
  irq,     \* an interrupt is pending
  intr,    \* virtio_disk_intr() runs, with vdisk_lock
  stored,  \* the blocks on the disk
  at,      \* at[t]: where thread t is
  my,      \* my[t]: its buffer, the descriptors it took and what it asks for
  other    \* other[t]: the second buffer it has locked, or 0

dvars == <<buf, lru, pins, freeDescs, info, avail, used, irq, intr, stored, at, my, other>>

Bufs == 1..NBUF
Descs == DOMAIN info
NoRequest == [b |-> 0, write |-> FALSE]
Nothing == [b |-> 0, idx |-> {}, write |-> FALSE]

DiskInit ==
  /\ \E v \in Vals :
       /\ buf = [b \in Bufs |-> [blockno |-> NoBlkno, valid |-> FALSE, refcnt |-> 0, data |-> v,
                                 disk |-> FALSE, lock |-> NoThread]]
       /\ stored = [m \in Blknos |-> v]
  /\ lru = [i \in Bufs |-> NBUF + 1 - i]
  /\ pins = {}
  /\ \E n \in NUMs : freeDescs = 0..(n - 1) /\ info = [d \in freeDescs |-> NoRequest]
  /\ avail = {} /\ used = <<>> /\ irq = FALSE /\ intr = FALSE
  /\ at = [t \in Threads |-> "idle"] /\ my = [t \in Threads |-> Nothing]
  /\ other = [t \in Threads |-> 0]

Moves(t, l) == at' = [at EXCEPT ![t] = l]
driver == <<freeDescs, info, avail, used, irq, intr, stored>>

----------------------------------------------------------------------------
(* bio.c and sleeplock.c *)

Cached(n) == {b \in Bufs : buf[b].blockno = n}
Unused == {i \in Bufs : buf[lru[i]].refcnt = 0}

MutRecycled == lru[Max({i \in Bufs : buf[lru[i]].lock = NoThread})]
Recycled == lru[Max(Unused)]

\* bget(): a cached block, or the buffer that has been unused for longest.  Without
\* an unused buffer it panics, and t stops here.  The caller has no other block, or
\* one: bmap() that of the addresses, log.c that of the log.
MayGet(t, n) ==
  \/ at[t] = "idle"
  \/ at[t] = "have" /\ other[t] = 0 /\ <<buf[my[t].b].blockno, n>> \in Over

Bget(t, n) ==
  /\ MayGet(t, n)
  /\ other' = [other EXCEPT ![t] = my[t].b]
  /\ \/ \E b \in Cached(n) :
          /\ buf' = [buf EXCEPT ![b].refcnt = @ + 1]
          /\ my' = [my EXCEPT ![t] = [Nothing EXCEPT !.b = b]]
     \/ /\ Cached(n) = {} /\ Unused # {}
        /\ buf' = [buf EXCEPT ![Recycled] = [@ EXCEPT !.blockno = n, !.valid = FALSE, !.refcnt = 1]]
        /\ my' = [my EXCEPT ![t] = [Nothing EXCEPT !.b = Recycled]]
  /\ Moves(t, "lock")
  /\ UNCHANGED <<lru, pins, driver>>

\* acquiresleep(), and then bread() reads what is not there yet.
Acquiresleep(t) ==
  LET b == my[t].b IN
  /\ at[t] = "lock" /\ buf[b].lock = NoThread
  /\ buf' = [buf EXCEPT ![b].lock = t]
  /\ Moves(t, IF buf[b].valid THEN "have" ELSE "rw")
  /\ UNCHANGED <<lru, pins, driver, my, other>>

\* What the callers do with a locked buffer: change it, bwrite() it, and, as
\* log.c does, bpin() or bunpin() it.
Modify(t, v) ==
  /\ at[t] = "have"
  /\ buf' = [buf EXCEPT ![my[t].b].data = v]
  /\ UNCHANGED <<lru, pins, driver, at, my, other>>

Bwrite(t) ==
  /\ at[t] = "have"
  /\ my' = [my EXCEPT ![t].write = TRUE]
  /\ Moves(t, "rw")
  /\ UNCHANGED <<buf, lru, pins, driver, other>>

Bpin(t) ==
  LET b == my[t].b
      n == buf[b].blockno
  IN
  /\ at[t] = "have" /\ n \notin pins /\ Cardinality(pins) < MaxPins
  /\ pins' = pins \cup {n}
  /\ buf' = [buf EXCEPT ![b].refcnt = @ + 1]
  /\ UNCHANGED <<lru, driver, at, my, other>>

Bunpin(t) ==
  LET b == my[t].b
      n == buf[b].blockno
  IN
  /\ at[t] = "have" /\ n \in pins
  /\ pins' = pins \ {n}
  /\ buf' = [buf EXCEPT ![b].refcnt = @ - 1]
  /\ UNCHANGED <<lru, driver, at, my, other>>

\* log.c turns back to the block that it read first: it writes and releases the
\* two in either order.
Swap(t) ==
  /\ at[t] = "have" /\ other[t] # 0
  /\ my' = [my EXCEPT ![t].b = other[t]]
  /\ other' = [other EXCEPT ![t] = my[t].b]
  /\ UNCHANGED <<buf, lru, pins, driver, at>>

\* brelse(): first the sleep lock, then the count, and the place in the list.
Releasesleep(t) ==
  /\ at[t] = "have"
  /\ buf' = [buf EXCEPT ![my[t].b].lock = NoThread]
  /\ Moves(t, "rel")
  /\ UNCHANGED <<lru, pins, driver, my, other>>

\* b is moved to the front of the list.
ToFront(b) ==
  LET p == CHOOSE i \in Bufs : lru[i] = b IN
  [i \in Bufs |-> IF i = 1 THEN b ELSE IF i <= p THEN lru[i - 1] ELSE lru[i]]

Brelse(t) ==
  LET b == my[t].b IN
  /\ at[t] = "rel"
  /\ buf' = [buf EXCEPT ![b].refcnt = @ - 1]
  /\ lru' = IF buf[b].refcnt = 1 THEN ToFront(b) ELSE lru
  /\ my' = [my EXCEPT ![t] = [Nothing EXCEPT !.b = other[t]]]
  /\ other' = [other EXCEPT ![t] = 0]
  /\ Moves(t, IF other[t] = 0 THEN "idle" ELSE "have")
  /\ UNCHANGED <<pins, driver>>

----------------------------------------------------------------------------
(* virtio_disk.c *)

\* wakeup(&disk.free[0]), if one was freed: the sleepers, all but thread t, try again.
Retry(t, l, freed) ==
  at' = [s \in Threads |-> IF s = t THEN l ELSE IF at[s] = "nodesc" /\ freed THEN "rw" ELSE at[s]]

\* alloc3_desc(): the three lowest free descriptors; the first leads the chain.
Lead(D) == Min(D)
Three == {d \in freeDescs : Cardinality({e \in freeDescs : e < d}) < 3}

VirtioDiskRw(t) ==
  LET b == my[t].b IN
  /\ at[t] = "rw" /\ ~intr /\ Cardinality(freeDescs) >= 3
  /\ freeDescs' = freeDescs \ Three
  /\ buf' = [buf EXCEPT ![b].disk = TRUE]
  /\ info' = [info EXCEPT ![Lead(Three)] = [b |-> b, write |-> my[t].write]]
  /\ avail' = avail \cup {Lead(Three)}
  /\ my' = [my EXCEPT ![t].idx = Three]
  /\ Moves(t, "io")
  /\ UNCHANGED <<lru, pins, used, irq, intr, stored, other>>

\* Too few: those that were taken are given back, which wakes the others.
NoDesc(t) ==
  /\ at[t] = "rw" /\ ~intr /\ Cardinality(freeDescs) < 3
  /\ Retry(t, "nodesc", freeDescs # {})
  /\ UNCHANGED <<buf, lru, pins, driver, my, other>>

\* The request is done: free_chain() wakes who sleeps for descriptors.
MutFreeChain(t) == my[t].idx \ {Lead(my[t].idx)}
FreeChain(t) == my[t].idx

Finish(t) ==
  /\ at[t] = "io" /\ ~intr /\ ~buf[my[t].b].disk
  /\ info' = [info EXCEPT ![Lead(my[t].idx)] = NoRequest]
  /\ freeDescs' = freeDescs \cup FreeChain(t)
  /\ Retry(t, "have", TRUE)
  /\ buf' = [buf EXCEPT ![my[t].b].valid = TRUE]
  /\ my' = [my EXCEPT ![t] = [Nothing EXCEPT !.b = my[t].b]]
  /\ UNCHANGED <<lru, pins, avail, used, irq, intr, stored, other>>

\* The device: serves any of the requests, then tells.
Device == \E d \in avail :
  LET b == info[d].b
      n == buf[b].blockno
  IN
  /\ IF info[d].write
     THEN stored' = [stored EXCEPT ![n] = buf[b].data] /\ UNCHANGED buf
     ELSE buf' = [buf EXCEPT ![b].data = stored[n]] /\ UNCHANGED stored
  /\ avail' = avail \ {d}
  /\ used' = Append(used, d)
  /\ irq' = TRUE
  /\ UNCHANGED <<lru, pins, freeDescs, info, intr, at, my, other>>

\* virtio_disk_intr(): acknowledges first, and then empties the used ring.
IntrAck ==
  /\ irq /\ ~intr
  /\ irq' = FALSE /\ intr' = TRUE
  /\ UNCHANGED <<buf, lru, pins, freeDescs, info, avail, used, stored, at, my, other>>

IntrUsed ==
  /\ intr /\ used # <<>>
  /\ buf' = [buf EXCEPT ![info[Head(used)].b].disk = FALSE]
  /\ used' = Tail(used)
  /\ UNCHANGED <<lru, pins, freeDescs, info, avail, irq, intr, stored, at, my, other>>

IntrEnd ==
  /\ intr /\ used = <<>>
  /\ intr' = FALSE
  /\ UNCHANGED <<buf, lru, pins, freeDescs, info, avail, used, irq, stored, at, my, other>>

DiskNext ==
  \/ \E t \in Threads :
       \/ \E n \in Blknos : Bget(t, n)
       \/ \E v \in Vals : Modify(t, v)
       \/ Acquiresleep(t) \/ Bwrite(t) \/ Bpin(t) \/ Bunpin(t) \/ Swap(t)
       \/ Releasesleep(t) \/ Brelse(t) \/ VirtioDiskRw(t) \/ NoDesc(t) \/ Finish(t)
  \/ Device \/ IntrAck \/ IntrUsed \/ IntrEnd

DiskSpec == DiskInit /\ [][DiskNext]_dvars

----------------------------------------------------------------------------
(* Properties. *)

DiskTypeOK ==
  /\ buf \in [Bufs -> [blockno : Blknos \cup {NoBlkno}, valid : BOOLEAN, refcnt : Nat, data : Vals,
                       disk : BOOLEAN, lock : Threads \cup {NoThread}]]
  /\ lru \in [Bufs -> Bufs] /\ {lru[i] : i \in Bufs} = Bufs
  /\ pins \subseteq Blknos /\ freeDescs \subseteq Descs /\ avail \subseteq Descs
  /\ used \in Seq(Descs) /\ irq \in BOOLEAN /\ intr \in BOOLEAN
  /\ info \in [Descs -> [b : Bufs \cup {0}, write : BOOLEAN]]
  /\ stored \in [Blknos -> Vals]
  /\ at \in [Threads -> {"idle", "lock", "have", "rel", "rw", "nodesc", "io"}]
  /\ my \in [Threads -> [b : Bufs \cup {0}, idx : SUBSET Descs, write : BOOLEAN]]
  /\ other \in [Threads -> Bufs \cup {0}]

\* A block is in one buffer at most; b->refcnt counts the threads between bget()
\* and the end of brelse() of the buffer and the pin.
BuffersCounted ==
  /\ \A b, c \in Bufs : buf[b].blockno = buf[c].blockno /\ b # c => buf[b].blockno = NoBlkno
  /\ \A b \in Bufs : buf[b].refcnt =
       Cardinality({t \in Threads : b \in {my[t].b, other[t]}})
       + (IF buf[b].blockno \in pins THEN 1 ELSE 0)

\* bget() finds a buffer for every block that is asked for, when there are two for
\* every thread and one for every pinned block (param.h: NBUF is 30, for 64
\* processes and 30 blocks of the log, so the kernel can come to the panic).
BuffersSuffice == NBUF >= 2 * Cardinality(Threads) + MaxPins
BuffersFound == \A t \in Threads, n \in Blknos : MayGet(t, n) => Cached(n) # {} \/ Unused # {}

\* The descriptors that are not free are those of the requests under way, three
\* each; the device works only on a buffer whose lock the waiting thread has; and
\* nobody who sleeps for descriptors, and no request
\* that the device is done with, is overlooked.
ChainsOwned ==
  /\ \A s, t \in Threads : s # t => my[s].idx \cap my[t].idx = {}
  /\ freeDescs = Descs \ UNION {my[t].idx : t \in Threads}
  /\ \A d \in avail \cup ToSet(used) : \E t \in Threads :
       /\ at[t] = "io" /\ d = Lead(my[t].idx)
       /\ info[d].b = my[t].b /\ buf[my[t].b].lock = t /\ buf[my[t].b].disk
  /\ (\E t \in Threads : at[t] = "nodesc") => Cardinality(freeDescs) < 3
  /\ used # <<>> => irq \/ intr

\* Together they are a store of blocks.
Has(n) == {b \in Cached(n) : buf[b].valid}
Store == INSTANCE BlockStore WITH
  content <- [n \in Blknos |-> IF Has(n) = {} THEN stored[n] ELSE buf[CHOOSE b \in Has(n) : TRUE].data],
  held <- {<<buf[b].blockno, buf[b].lock>> : b \in {b \in Bufs : buf[b].lock # NoThread}},
  pinned <- pins
BlockStoreSpec == Store!StoreSpec
=============================================================================
