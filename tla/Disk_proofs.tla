---------------------------- MODULE Disk_proofs ----------------------------
(***************************************************************************)
(* Proofs about the buffer cache and the disk driver: a block is in one    *)
(* buffer at most, b->refcnt counts who uses it, bget() finds a buffer     *)
(* when there are enough, and the descriptors and requests of the device   *)
(* are those of the threads that wait for them.                            *)
(***************************************************************************)
EXTENDS Disk, Integers, FiniteSetTheorems, FunctionTheorems, WellFoundedInduction, TLAPS

Buffer == [blockno : Blknos \cup {NoBlkno}, valid : BOOLEAN, refcnt : Int, data : Vals,
           disk : BOOLEAN, lock : Threads \cup {NoThread}]
Request == [b : Bufs \cup {0}, write : BOOLEAN]
Places == {"idle", "lock", "have", "rel", "rw", "nodesc", "io"}
\* Where a thread has the sleep lock of its buffer.
Locked == {"have", "rw", "nodesc", "io"}
Mine == [b : Bufs \cup {0}, idx : SUBSET Descs, write : BOOLEAN]

Types ==
  /\ buf \in [Bufs -> Buffer]
  /\ lru \in [Bufs -> Bufs] /\ \A b \in Bufs : \E i \in Bufs : lru[i] = b
  /\ pins \subseteq Blknos /\ IsFiniteSet(pins) /\ Cardinality(pins) <= MaxPins
  /\ Descs \subseteq Nat /\ IsFiniteSet(Descs) /\ freeDescs \subseteq Descs /\ avail \subseteq Descs
  /\ used \in Seq(Descs) /\ irq \in BOOLEAN /\ intr \in BOOLEAN
  /\ info \in [Descs -> Request]
  /\ stored \in [Blknos -> Vals]
  /\ at \in [Threads -> Places]
  /\ my \in [Threads -> Mine]
  /\ other \in [Threads -> Bufs \cup {0}]

\* What a thread has, by where it is.
ThreadAt(t) ==
  /\ at[t] = "idle" <=> my[t].b = 0
  /\ at[t] \in Locked => buf[my[t].b].lock = t
  /\ at[t] # "io" => my[t].idx = {}
  /\ at[t] = "io" => Lead(my[t].idx) \in my[t].idx
  /\ other[t] # 0 => at[t] # "idle" /\ other[t] # my[t].b /\ buf[other[t]].lock = t

\* Who has a sleep lock is a thread that got the buffer, and no other.
Holds(t, b) == other[t] = b \/ (my[t].b = b /\ at[t] \in Locked)
LockOf(b) == buf[b].lock \in Threads => Holds(buf[b].lock, b)

\* b->refcnt: the threads that have got b, and the pin.
Users(b) == {t \in Threads : b \in {my[t].b, other[t]}}
Pin(b) == IF buf[b].blockno \in pins THEN 1 ELSE 0
Counts ==
  /\ \A b, c \in Bufs : buf[b].blockno = buf[c].blockno /\ b # c => buf[b].blockno = NoBlkno
  /\ \A t \in Threads : \A b \in {my[t].b, other[t]} : b # 0 => buf[b].blockno # NoBlkno
  /\ \A b \in Bufs : buf[b].refcnt = Cardinality(Users(b)) + Pin(b)
  /\ \A n \in pins : \E b \in Bufs : buf[b].blockno = n

\* The descriptors of the requests under way.
Chains ==
  /\ \A s, t \in Threads : s # t => my[s].idx \cap my[t].idx = {}
  /\ \A d \in Descs : d \in freeDescs <=> \A t \in Threads : d \notin my[t].idx

\* The request that leads with d waits for the device; none is given or done twice.
Serves(t, d) ==
  /\ at[t] = "io" /\ d = Lead(my[t].idx)
  /\ info[d].b = my[t].b /\ buf[my[t].b].lock = t /\ buf[my[t].b].disk
Pending == avail \cup {used[i] : i \in 1..Len(used)}
Requests ==
  /\ \A d \in Pending : \E t \in Threads : Serves(t, d)
  /\ \A i, j \in 1..Len(used) : used[i] = used[j] => i = j
  /\ \A i \in 1..Len(used) : used[i] \notin avail

\* Who sleeps for descriptors is woken when there are enough, and the interrupt
\* handler when the device is done with something.
Awaited ==
  /\ (\E t \in Threads : at[t] = "nodesc") => Cardinality(freeDescs) < 3
  /\ used # <<>> => irq \/ intr

Inv ==
  /\ Types /\ Counts /\ Chains /\ Requests /\ Awaited
  /\ \A t \in Threads : ThreadAt(t)
  /\ \A b \in Bufs : LockOf(b)

-----------------------------------------------------------------------------
(* What an assignment to a field changes, and what it leaves. *)

LEMMA Constants == 0 \notin Bufs /\ NoThread \notin Threads /\ NoBlkno \notin Blknos /\ IsFiniteSet(Threads)
BY DiskSizes DEF Bufs

LEMMA SetRefcnt ==
  ASSUME Types, NEW b \in Bufs, NEW n \in Int, buf' = [buf EXCEPT ![b].refcnt = n]
  PROVE  /\ buf' \in [Bufs -> Buffer] /\ buf'[b].refcnt = n
         /\ \A c \in Bufs \ {b} : buf'[c] = buf[c]
         /\ buf'[b].blockno = buf[b].blockno /\ buf'[b].valid = buf[b].valid /\ buf'[b].data = buf[b].data
         /\ buf'[b].disk = buf[b].disk /\ buf'[b].lock = buf[b].lock
<1> DEFINE s == [buf[b] EXCEPT !.refcnt = n]
<1>1. buf \in [Bufs -> Buffer] /\ buf[b] \in Buffer
  BY DEF Types
<1>2. s \in Buffer
  BY <1>1 DEF Buffer
<1>3. /\ s.refcnt = n
      /\ s.blockno = buf[b].blockno /\ s.valid = buf[b].valid /\ s.data = buf[b].data
      /\ s.disk = buf[b].disk /\ s.lock = buf[b].lock
  BY <1>1 DEF Buffer
<1>4. buf' = [buf EXCEPT ![b] = s]
  OBVIOUS
<1> HIDE DEF s
<1>5. buf' \in [Bufs -> Buffer] /\ buf'[b] = s /\ \A c \in Bufs \ {b} : buf'[c] = buf[c]
  BY <1>1, <1>2, <1>4
<1> QED
  BY <1>3, <1>5

LEMMA SetLock ==
  ASSUME Types, NEW b \in Bufs, NEW t \in Threads \cup {NoThread}, buf' = [buf EXCEPT ![b].lock = t]
  PROVE  /\ buf' \in [Bufs -> Buffer] /\ buf'[b].lock = t
         /\ \A c \in Bufs \ {b} : buf'[c] = buf[c]
         /\ buf'[b].blockno = buf[b].blockno /\ buf'[b].valid = buf[b].valid /\ buf'[b].refcnt = buf[b].refcnt
         /\ buf'[b].data = buf[b].data /\ buf'[b].disk = buf[b].disk
<1> DEFINE s == [buf[b] EXCEPT !.lock = t]
<1>1. buf \in [Bufs -> Buffer] /\ buf[b] \in Buffer
  BY DEF Types
<1>2. s \in Buffer
  BY <1>1 DEF Buffer
<1>3. /\ s.lock = t
      /\ s.blockno = buf[b].blockno /\ s.valid = buf[b].valid /\ s.refcnt = buf[b].refcnt
      /\ s.data = buf[b].data /\ s.disk = buf[b].disk
  BY <1>1 DEF Buffer
<1>4. buf' = [buf EXCEPT ![b] = s]
  OBVIOUS
<1> HIDE DEF s
<1>5. buf' \in [Bufs -> Buffer] /\ buf'[b] = s /\ \A c \in Bufs \ {b} : buf'[c] = buf[c]
  BY <1>1, <1>2, <1>4
<1> QED
  BY <1>3, <1>5

LEMMA SetData ==
  ASSUME Types, NEW b \in Bufs, NEW v \in Vals, buf' = [buf EXCEPT ![b].data = v]
  PROVE  /\ buf' \in [Bufs -> Buffer] /\ buf'[b].data = v
         /\ \A c \in Bufs \ {b} : buf'[c] = buf[c]
         /\ buf'[b].blockno = buf[b].blockno /\ buf'[b].valid = buf[b].valid /\ buf'[b].refcnt = buf[b].refcnt
         /\ buf'[b].disk = buf[b].disk /\ buf'[b].lock = buf[b].lock
<1> DEFINE s == [buf[b] EXCEPT !.data = v]
<1>1. buf \in [Bufs -> Buffer] /\ buf[b] \in Buffer
  BY DEF Types
<1>2. s \in Buffer
  BY <1>1 DEF Buffer
<1>3. /\ s.data = v
      /\ s.blockno = buf[b].blockno /\ s.valid = buf[b].valid /\ s.refcnt = buf[b].refcnt
      /\ s.disk = buf[b].disk /\ s.lock = buf[b].lock
  BY <1>1 DEF Buffer
<1>4. buf' = [buf EXCEPT ![b] = s]
  OBVIOUS
<1> HIDE DEF s
<1>5. buf' \in [Bufs -> Buffer] /\ buf'[b] = s /\ \A c \in Bufs \ {b} : buf'[c] = buf[c]
  BY <1>1, <1>2, <1>4
<1> QED
  BY <1>3, <1>5

LEMMA DiskOn ==
  ASSUME Types, NEW b \in Bufs, buf' = [buf EXCEPT ![b].disk = TRUE]
  PROVE  /\ buf' \in [Bufs -> Buffer] /\ buf'[b].disk
         /\ \A c \in Bufs \ {b} : buf'[c] = buf[c]
         /\ buf'[b].blockno = buf[b].blockno /\ buf'[b].valid = buf[b].valid /\ buf'[b].refcnt = buf[b].refcnt
         /\ buf'[b].data = buf[b].data /\ buf'[b].lock = buf[b].lock
<1> DEFINE s == [buf[b] EXCEPT !.disk = TRUE]
<1>1. buf \in [Bufs -> Buffer] /\ buf[b] \in Buffer
  BY DEF Types
<1>2. s \in Buffer
  BY <1>1 DEF Buffer
<1>3. /\ s.disk
      /\ s.blockno = buf[b].blockno /\ s.valid = buf[b].valid /\ s.refcnt = buf[b].refcnt
      /\ s.data = buf[b].data /\ s.lock = buf[b].lock
  BY <1>1 DEF Buffer
<1>4. buf' = [buf EXCEPT ![b] = s]
  OBVIOUS
<1> HIDE DEF s
<1>5. buf' \in [Bufs -> Buffer] /\ buf'[b] = s /\ \A c \in Bufs \ {b} : buf'[c] = buf[c]
  BY <1>1, <1>2, <1>4
<1> QED
  BY <1>3, <1>5

LEMMA DiskOff ==
  ASSUME Types, NEW b \in Bufs, buf' = [buf EXCEPT ![b].disk = FALSE]
  PROVE  /\ buf' \in [Bufs -> Buffer] /\ ~buf'[b].disk
         /\ \A c \in Bufs \ {b} : buf'[c] = buf[c]
         /\ buf'[b].blockno = buf[b].blockno /\ buf'[b].valid = buf[b].valid /\ buf'[b].refcnt = buf[b].refcnt
         /\ buf'[b].data = buf[b].data /\ buf'[b].lock = buf[b].lock
<1> DEFINE s == [buf[b] EXCEPT !.disk = FALSE]
<1>1. buf \in [Bufs -> Buffer] /\ buf[b] \in Buffer
  BY DEF Types
<1>2. s \in Buffer
  BY <1>1 DEF Buffer
<1>3. /\ ~s.disk
      /\ s.blockno = buf[b].blockno /\ s.valid = buf[b].valid /\ s.refcnt = buf[b].refcnt
      /\ s.data = buf[b].data /\ s.lock = buf[b].lock
  BY <1>1 DEF Buffer
<1>4. buf' = [buf EXCEPT ![b] = s]
  OBVIOUS
<1> HIDE DEF s
<1>5. buf' \in [Bufs -> Buffer] /\ buf'[b] = s /\ \A c \in Bufs \ {b} : buf'[c] = buf[c]
  BY <1>1, <1>2, <1>4
<1> QED
  BY <1>3, <1>5

LEMMA ValidOn ==
  ASSUME Types, NEW b \in Bufs, buf' = [buf EXCEPT ![b].valid = TRUE]
  PROVE  /\ buf' \in [Bufs -> Buffer] /\ buf'[b].valid
         /\ \A c \in Bufs \ {b} : buf'[c] = buf[c]
         /\ buf'[b].blockno = buf[b].blockno /\ buf'[b].refcnt = buf[b].refcnt /\ buf'[b].data = buf[b].data
         /\ buf'[b].disk = buf[b].disk /\ buf'[b].lock = buf[b].lock
<1> DEFINE s == [buf[b] EXCEPT !.valid = TRUE]
<1>1. buf \in [Bufs -> Buffer] /\ buf[b] \in Buffer
  BY DEF Types
<1>2. s \in Buffer
  BY <1>1 DEF Buffer
<1>3. /\ s.valid
      /\ s.blockno = buf[b].blockno /\ s.refcnt = buf[b].refcnt /\ s.data = buf[b].data
      /\ s.disk = buf[b].disk /\ s.lock = buf[b].lock
  BY <1>1 DEF Buffer
<1>4. buf' = [buf EXCEPT ![b] = s]
  OBVIOUS
<1> HIDE DEF s
<1>5. buf' \in [Bufs -> Buffer] /\ buf'[b] = s /\ \A c \in Bufs \ {b} : buf'[c] = buf[c]
  BY <1>1, <1>2, <1>4
<1> QED
  BY <1>3, <1>5

LEMMA SetBlock ==
  ASSUME Types, NEW b \in Bufs, NEW n \in Blknos,
         buf' = [buf EXCEPT ![b] = [@ EXCEPT !.blockno = n, !.valid = FALSE, !.refcnt = 1]]
  PROVE  /\ buf' \in [Bufs -> Buffer]
         /\ \A c \in Bufs \ {b} : buf'[c] = buf[c]
         /\ buf'[b].blockno = n /\ ~buf'[b].valid /\ buf'[b].refcnt = 1
         /\ buf'[b].data = buf[b].data /\ buf'[b].disk = buf[b].disk /\ buf'[b].lock = buf[b].lock
<1> DEFINE p == [buf[b] EXCEPT !.blockno = n]
           q == [p EXCEPT !.valid = FALSE]
           s == [q EXCEPT !.refcnt = 1]
<1>1. buf \in [Bufs -> Buffer] /\ buf[b] \in Buffer
  BY DEF Types
<1>2. buf' = [buf EXCEPT ![b] = s]
  OBVIOUS
<1>3. /\ p \in Buffer /\ p.blockno = n
      /\ p.data = buf[b].data /\ p.disk = buf[b].disk /\ p.lock = buf[b].lock
  BY <1>1 DEF Buffer
<1> HIDE DEF p
<1>4. /\ q \in Buffer /\ q.blockno = n /\ ~q.valid
      /\ q.data = p.data /\ q.disk = p.disk /\ q.lock = p.lock
  BY <1>3 DEF Buffer
<1> HIDE DEF q
<1>5. /\ s \in Buffer /\ s.blockno = n /\ s.valid = q.valid /\ s.refcnt = 1
      /\ s.data = q.data /\ s.disk = q.disk /\ s.lock = q.lock
  BY <1>4 DEF Buffer
<1> HIDE DEF s
<1>6. buf' \in [Bufs -> Buffer] /\ buf'[b] = s /\ \A c \in Bufs \ {b} : buf'[c] = buf[c]
  BY <1>1, <1>2, <1>5
<1> QED
  BY <1>3, <1>4, <1>5, <1>6

LEMMA SetMine ==
  ASSUME Types, NEW t \in Threads, NEW b \in Bufs \cup {0}, my' = [my EXCEPT ![t] = [Nothing EXCEPT !.b = b]]
  PROVE  /\ my' \in [Threads -> Mine] /\ my'[t].b = b /\ my'[t].idx = {} /\ ~my'[t].write
         /\ \A s \in Threads \ {t} : my'[s] = my[s]
<1> DEFINE r == [Nothing EXCEPT !.b = b]
<1>1. my \in [Threads -> Mine] /\ my[t] \in Mine
  BY DEF Types
<1>2. r \in Mine
  BY <1>1 DEF Nothing, Mine
<1>3. r.b = b /\ r.idx = {} /\ ~r.write
  BY <1>1 DEF Nothing, Mine
<1>4. my' = [my EXCEPT ![t] = r]
  OBVIOUS
<1> HIDE DEF r
<1>5. my' \in [Threads -> Mine] /\ my'[t] = r /\ \A s \in Threads \ {t} : my'[s] = my[s]
  BY <1>1, <1>2, <1>4
<1> QED
  BY <1>3, <1>5

LEMMA SetWrite ==
  ASSUME Types, NEW t \in Threads, my' = [my EXCEPT ![t].write = TRUE]
  PROVE  /\ my' \in [Threads -> Mine] /\ my'[t].b = my[t].b /\ my'[t].idx = my[t].idx /\ my'[t].write
         /\ \A s \in Threads \ {t} : my'[s] = my[s]
<1> DEFINE r == [my[t] EXCEPT !.write = TRUE]
<1>1. my \in [Threads -> Mine] /\ my[t] \in Mine
  BY DEF Types
<1>2. r \in Mine
  BY <1>1 DEF Mine
<1>3. r.b = my[t].b /\ r.idx = my[t].idx /\ r.write
  BY <1>1 DEF Mine
<1>4. my' = [my EXCEPT ![t] = r]
  OBVIOUS
<1> HIDE DEF r
<1>5. my' \in [Threads -> Mine] /\ my'[t] = r /\ \A s \in Threads \ {t} : my'[s] = my[s]
  BY <1>1, <1>2, <1>4
<1> QED
  BY <1>3, <1>5

LEMMA SetIdx ==
  ASSUME Types, NEW t \in Threads, NEW D \in SUBSET Descs, my' = [my EXCEPT ![t].idx = D]
  PROVE  /\ my' \in [Threads -> Mine] /\ my'[t].b = my[t].b /\ my'[t].idx = D /\ my'[t].write = my[t].write
         /\ \A s \in Threads \ {t} : my'[s] = my[s]
<1> DEFINE r == [my[t] EXCEPT !.idx = D]
<1>1. my \in [Threads -> Mine] /\ my[t] \in Mine
  BY DEF Types
<1>2. r \in Mine
  BY <1>1 DEF Mine
<1>3. r.b = my[t].b /\ r.idx = D /\ r.write = my[t].write
  BY <1>1 DEF Mine
<1>4. my' = [my EXCEPT ![t] = r]
  OBVIOUS
<1> HIDE DEF r
<1>5. my' \in [Threads -> Mine] /\ my'[t] = r /\ \A s \in Threads \ {t} : my'[s] = my[s]
  BY <1>1, <1>2, <1>4
<1> QED
  BY <1>3, <1>5

-----------------------------------------------------------------------------
(* What a step leaves alone keeps its part of the invariant. *)

LEMMA TypesBut ==
  ASSUME Descs \subseteq Nat, IsFiniteSet(Descs), Descs' = Descs, buf' \in [Bufs -> Buffer],
         lru' \in [Bufs -> Bufs], \A b \in Bufs : \E i \in Bufs : lru'[i] = b,
         pins' \subseteq Blknos, IsFiniteSet(pins'), Cardinality(pins') <= MaxPins,
         at' \in [Threads -> Places], my' \in [Threads -> Mine], other' \in [Threads -> Bufs \cup {0}],
         info' \in [Descs -> Request],
         freeDescs' \subseteq Descs, avail' \subseteq Descs, used' \in Seq(Descs),
         irq' \in BOOLEAN, intr' \in BOOLEAN, stored' \in [Blknos -> Vals]
  PROVE  Types'
<1>1. (Mine' = Mine) /\ (Buffer' = Buffer) /\ (Request' = Request) /\ (Bufs' = Bufs)
  BY DEF Mine, Buffer, Request, Bufs
<1> QED
  BY <1>1 DEF Types

LEMMA TypesKept ==
  ASSUME Types, Descs' = Descs, UNCHANGED <<pins, lru>>, buf' \in [Bufs -> Buffer],
         at' \in [Threads -> Places], my' \in [Threads -> Mine], other' \in [Threads -> Bufs \cup {0}],
         info' \in [Descs -> Request],
         freeDescs' \subseteq Descs, avail' \subseteq Descs, used' \in Seq(Descs),
         irq' \in BOOLEAN, intr' \in BOOLEAN, stored' \in [Blknos -> Vals]
  PROVE  Types'
BY TypesBut DEF Types

LEMMA CountsKept ==
  ASSUME Counts, \A b \in Bufs : buf'[b].blockno = buf[b].blockno /\ buf'[b].refcnt = buf[b].refcnt,
         \A t \in Threads : my'[t].b = my[t].b, \A t \in Threads : {my[t].b, other[t]} \subseteq Bufs \cup {0},
         other' = other, pins' = pins
  PROVE  Counts'
<1>1. \A b \in Bufs : Users(b)' = Users(b) /\ Pin(b)' = Pin(b)
  BY DEF Users, Pin
<1> QED
  BY <1>1 DEF Counts, Bufs

LEMMA ChainsKept ==
  ASSUME Chains, Descs' = Descs, freeDescs' = freeDescs, \A t \in Threads : my'[t].idx = my[t].idx
  PROVE  Chains'
BY DEF Chains

LEMMA ThreadsKept ==
  ASSUME NEW s \in Threads, ThreadAt(s), {my[s].b, other[s]} \subseteq Bufs \cup {0}, my'[s] = my[s],
         other'[s] = other[s],
         at'[s] = at[s] \/ (at[s] = "nodesc" /\ at'[s] = "rw"),
         \A b \in Bufs : buf[b].lock = s => buf'[b].lock = s
  PROVE  ThreadAt(s)'
BY Constants DEF ThreadAt, Locked, Lead, Min

LEMMA LocksMoved ==
  ASSUME NEW b \in Bufs, LockOf(b), buf'[b].lock = buf[b].lock, \A s \in Threads : Holds(s, b) => Holds(s, b)'
  PROVE  LockOf(b)'
BY DEF LockOf

LEMMA LocksKept ==
  ASSUME NEW b \in Bufs, LockOf(b), buf'[b].lock = buf[b].lock, other' = other,
         \A s \in Threads : my[s].b = b /\ at[s] \in Locked => my'[s].b = b /\ at'[s] \in Locked
  PROVE  LockOf(b)'
BY LocksMoved DEF Holds

LEMMA RequestsKept ==
  ASSUME Requests, UNCHANGED <<avail, used>>,
         \A d \in Pending : info'[d].b = info[d].b,
         \A t \in Threads : at[t] = "io" => my'[t].b = my[t].b /\ my'[t].idx = my[t].idx /\ at'[t] = "io",
         \A t \in Threads : at[t] = "io" /\ buf[my[t].b].lock = t =>
            buf'[my[t].b].lock = t /\ (buf[my[t].b].disk => buf'[my[t].b].disk)
  PROVE  Requests'
<1>1. ASSUME NEW d \in Pending, NEW t \in Threads, Serves(t, d) PROVE Serves(t, d)'
  BY <1>1 DEF Serves, Lead, Min
<1> QED
  BY <1>1 DEF Requests, Pending
-----------------------------------------------------------------------------
(* The least descriptor, the last unused buffer, and the counts. *)

LEMMA Least ==
  ASSUME NEW S, S \subseteq Nat, S # {}
  PROVE  Min(S) \in S /\ \A y \in S : Min(S) <= y
<1>1. \E x \in S : \A y \in S : <<y, x>> \notin OpToRel(<, Nat)
  BY NatLessThanWellFounded, WFMin
<1>2. \A x, y \in Nat : <<y, x>> \notin OpToRel(<, Nat) => x <= y
  BY DEF OpToRel
<1>3. \E x \in S : \A y \in S : x <= y
  BY <1>1, <1>2
<1> QED
  BY <1>3 DEF Min

LEMMA Greatest ==
  ASSUME NEW S, S \subseteq Bufs, S # {}
  PROVE  Max(S) \in S
<1> DEFINE T == {NBUF - i : i \in S}
<1>1. T \subseteq Nat /\ T # {}
  <2>1. \A i \in S : NBUF - i \in Nat
    BY DiskSizes DEF Bufs
  <2> QED
    BY <2>1
<1>2. Min(T) \in T /\ \A y \in T : Min(T) <= y
  BY <1>1, Least
<1>3. PICK x \in S : Min(T) = NBUF - x
  BY <1>2
<1>4. \A y \in S : x >= y
  <2> TAKE y \in S
  <2>1. NBUF - x <= NBUF - y
    BY <1>2, <1>3
  <2> QED
    BY <2>1, DiskSizes DEF Bufs
<1> QED
  BY <1>4 DEF Max

LEMMA LeadIn ==
  ASSUME NEW D, D \subseteq Nat, D # {}
  PROVE  Lead(D) \in D
BY Least DEF Lead

\* With three descriptors free, alloc3_desc() takes some that are free.
LEMMA ThreeFree ==
  ASSUME Types, Cardinality(freeDescs) >= 3
  PROVE  Three \subseteq freeDescs /\ Lead(Three) \in Three
<1>1. freeDescs \subseteq Nat /\ freeDescs # {}
  <2>1. Cardinality(freeDescs) # 0
    OBVIOUS
  <2> QED
    BY <2>1, FS_EmptySet DEF Types
<1> DEFINE m == Min(freeDescs)
<1>2. m \in freeDescs /\ \A e \in freeDescs : m <= e
  BY <1>1, Least
<1> HIDE DEF m
<1>3. {e \in freeDescs : e < m} = {}
  <2>1. m \in Nat /\ \A e \in freeDescs : e \in Nat /\ m <= e
    BY <1>1, <1>2
  <2>2. \A e \in freeDescs : ~(e < m)
    BY <2>1
  <2> QED
    BY <2>2
<1>4. Cardinality({e \in freeDescs : e < m}) = 0
  BY <1>3, FS_EmptySet
<1>5. m \in Three
  BY <1>2, <1>4 DEF Three
<1>6. Three \subseteq freeDescs
  BY DEF Three
<1>7. Three \subseteq Nat /\ Three # {}
  BY <1>1, <1>5, <1>6
<1> QED
  BY <1>6, <1>7, LeadIn

LEMMA UsersFinite == \A b : IsFiniteSet(Users(b)) /\ Cardinality(Users(b)) \in Nat
<1> TAKE b
<1>1. Users(b) \in SUBSET Threads
  BY DEF Users
<1> QED
  BY <1>1, Constants, FS_Subset, FS_CardinalityType

\* A thread that gets a buffer is one more that counts, and one that gives it
\* back one less.
LEMMA UsersGrow ==
  ASSUME NEW t \in Threads, NEW b \in Bufs, my[t].b # b, other[t] = 0, my'[t].b = b, other'[t] = my[t].b,
         \A s \in Threads \ {t} : my'[s] = my[s] /\ other'[s] = other[s]
  PROVE  /\ Cardinality(Users(b))' = Cardinality(Users(b)) + 1
         /\ \A c \in Bufs \ {b} : Users(c)' = Users(c)
<1>1. Users(b)' = Users(b) \cup {t} /\ t \notin Users(b)
  BY Constants DEF Users
<1>2. \A c \in Bufs \ {b} : Users(c)' = Users(c)
  BY Constants DEF Users
<1>3. Cardinality(Users(b) \cup {t}) = Cardinality(Users(b)) + 1
  BY <1>1, UsersFinite, FS_AddElement
<1> QED
  BY <1>1, <1>2, <1>3

LEMMA UsersShrink ==
  ASSUME NEW t \in Threads, NEW b \in Bufs, my[t].b = b, other[t] # b, my'[t].b = other[t], other'[t] = 0,
         \A s \in Threads \ {t} : my'[s] = my[s] /\ other'[s] = other[s]
  PROVE  /\ Cardinality(Users(b))' = Cardinality(Users(b)) - 1
         /\ \A c \in Bufs \ {b} : Users(c)' = Users(c)
<1>1. Users(b)' = Users(b) \ {t} /\ t \in Users(b)
  BY Constants DEF Users
<1>2. \A c \in Bufs \ {b} : Users(c)' = Users(c)
  BY Constants DEF Users
<1>3. Cardinality(Users(b) \ {t}) = Cardinality(Users(b)) - 1
  BY <1>1, UsersFinite, FS_RemoveElement
<1> QED
  BY <1>1, <1>2, <1>3

\* What is known of thread t.
LEMMA Known ==
  ASSUME Inv, NEW t \in Threads
  PROVE  /\ my[t] \in Mine /\ my[t].b \in Bufs \cup {0} /\ my[t].idx \subseteq Descs
         /\ at[t] \in Places /\ (at[t] # "idle" => my[t].b \in Bufs) /\ (at[t] = "idle" => my[t].b = 0)
         /\ at[t] \in Locked => buf[my[t].b].lock = t
         /\ at[t] # "io" => my[t].idx = {}
         /\ other[t] \in Bufs \cup {0} /\ {my[t].b, other[t]} \subseteq Bufs \cup {0}
         /\ other[t] # 0 => at[t] # "idle" /\ other[t] # my[t].b /\ buf[other[t]].lock = t
<1>1. my[t] \in Mine
  BY DEF Inv, Types
<1>2. my[t].b \in Bufs \cup {0} /\ my[t].idx \subseteq Descs
  BY <1>1 DEF Mine
<1>3. at[t] \in Places
  BY DEF Inv, Types
<1>4. ThreadAt(t)
  BY DEF Inv
<1>5. other[t] \in Bufs \cup {0}
  BY DEF Inv, Types
<1> QED
  BY <1>1, <1>2, <1>3, <1>4, <1>5 DEF ThreadAt

\* Who calls bget() has one other buffer at most, of another block.
LEMMA Asker ==
  ASSUME Inv, NEW t \in Threads, NEW n \in Blknos, MayGet(t, n), other' = [other EXCEPT ![t] = my[t].b]
  PROVE  /\ other[t] = 0 /\ at[t] \in {"idle", "have"} /\ my[t].idx = {} /\ my[t].b \in Bufs \cup {0}
         /\ my[t].b # 0 => at[t] = "have" /\ buf[my[t].b].lock = t /\ buf[my[t].b].blockno # n
         /\ other' \in [Threads -> Bufs \cup {0}] /\ other'[t] = my[t].b
         /\ \A s \in Threads \ {t} : other'[s] = other[s]
<1>1. at[t] \in {"idle", "have"} /\ other[t] = 0 /\ my[t].idx = {} /\ my[t].b \in Bufs \cup {0}
  BY Known DEF MayGet
<1>2. ASSUME my[t].b # 0 PROVE at[t] = "have" /\ buf[my[t].b].lock = t /\ buf[my[t].b].blockno # n
  <2>1. at[t] = "have" /\ <<buf[my[t].b].blockno, n>> \in Over
    BY <1>2, Known DEF MayGet
  <2>2. buf[my[t].b].lock = t
    BY <2>1, Known DEF Locked
  <2> QED
    BY <2>1, <2>2, DiskSizes
<1>3. other \in [Threads -> Bufs \cup {0}]
  BY DEF Inv, Types
<1> QED
  BY <1>1, <1>2, <1>3

LEMMA Moved ==
  ASSUME Types, NEW t \in Threads, NEW l \in Places, Moves(t, l)
  PROVE  at' \in [Threads -> Places] /\ at'[t] = l /\ \A s \in Threads \ {t} : at'[s] = at[s]
BY DEF Types, Moves

\* The buffers of the threads that have a sleep lock are not one.
LEMMA Apart ==
  ASSUME Inv, NEW s \in Threads, NEW t \in Threads, s # t, at[s] \in Locked, at[t] \in Locked
  PROVE  my[s].b # my[t].b
BY Known

-----------------------------------------------------------------------------
(* One lemma for each step. *)

LEMMA AcquiresleepStep ==
  ASSUME Inv, NEW t \in Threads, Acquiresleep(t)
  PROVE  Inv'
<1>1. /\ Types /\ Counts /\ Chains /\ Requests /\ Awaited
      /\ (\A s \in Threads : ThreadAt(s)) /\ \A c \in Bufs : LockOf(c)
  BY DEF Inv
<1>0. at[t] = "lock"
  BY DEF Acquiresleep
<1>b. PICK b \in Bufs : b = my[t].b
  BY <1>0, Known
<1>2. /\ b = my[t].b /\ my[t].idx = {} /\ buf[b].lock = NoThread
      /\ UNCHANGED <<lru, pins, freeDescs, info, avail, used, irq, intr, stored, my, other>>
      /\ Descs' = Descs
  BY <1>0, <1>b, Known DEF Acquiresleep, driver, Descs
<1>3. /\ buf' \in [Bufs -> Buffer] /\ buf'[b].lock = t /\ \A c \in Bufs \ {b} : buf'[c] = buf[c]
      /\ buf'[b].blockno = buf[b].blockno /\ buf'[b].refcnt = buf[b].refcnt /\ buf'[b].disk = buf[b].disk
  BY <1>1, <1>2, SetLock DEF Acquiresleep
<1>4. at' \in [Threads -> Places] /\ at'[t] \in {"have", "rw"} /\ \A s \in Threads \ {t} : at'[s] = at[s]
  <2>1. Moves(t, "have") \/ Moves(t, "rw")
    BY DEF Acquiresleep
  <2> QED
    BY <2>1, <1>1, Moved DEF Places
<1>5. Types'
  BY <1>1, <1>2, <1>3, <1>4, TypesKept DEF Types
<1>6. Counts'
  BY <1>1, <1>2, <1>3, Known, CountsKept
<1>7. Chains'
  BY <1>1, <1>2, ChainsKept
<1>8. Requests'
  <2>1. \A s \in Threads : at[s] = "io" => at'[s] = "io"
    BY <1>0, <1>4
  <2>2. \A s \in Threads : at[s] = "io" /\ buf[my[s].b].lock = s => my[s].b \in Bufs \ {b}
    BY <1>2, Known, Constants
  <2> QED
    BY <1>1, <1>2, <1>3, <2>1, <2>2, RequestsKept
<1>9. Awaited'
  BY <1>1, <1>2, <1>4 DEF Awaited
<1>10. \A s \in Threads : ThreadAt(s)'
  <2>1. ASSUME NEW s \in Threads, s # t PROVE ThreadAt(s)'
    BY <1>1, <1>2, <1>3, <1>4, <2>1, Known, ThreadsKept, Constants
  <2>2. other[t] # 0 => other[t] \in Bufs \ {b} /\ buf[other[t]].lock = t
    BY <1>2, Known
  <2>3. ThreadAt(t)'
    BY <1>1, <1>2, <1>3, <1>4, <2>2, Constants DEF ThreadAt
  <2> QED
    BY <2>1, <2>3
<1>11. \A c \in Bufs : LockOf(c)'
  <2>1. ASSUME NEW c \in Bufs, c # b PROVE LockOf(c)'
    BY <1>1, <1>2, <1>3, <1>4, <2>1, LocksKept
  <2>2. LockOf(b)'
    BY <1>2, <1>3, <1>4 DEF LockOf, Holds, Locked
  <2> QED
    BY <2>1, <2>2
<1> QED
  BY <1>5, <1>6, <1>7, <1>8, <1>9, <1>10, <1>11 DEF Inv, Bufs

LEMMA ModifyStep ==
  ASSUME Inv, NEW t \in Threads, NEW v \in Vals, Modify(t, v)
  PROVE  Inv'
<1>1. /\ Types /\ Counts /\ Chains /\ Requests /\ Awaited
      /\ (\A s \in Threads : ThreadAt(s)) /\ \A c \in Bufs : LockOf(c)
  BY DEF Inv
<1>0. at[t] = "have"
  BY DEF Modify
<1>b. PICK b \in Bufs : b = my[t].b
  BY <1>0, Known
<1>2. /\ b = my[t].b /\ Descs' = Descs
      /\ UNCHANGED <<lru, pins, freeDescs, info, avail, used, irq, intr, stored, at, my, other>>
  BY <1>b DEF Modify, driver, Descs
<1>3. /\ buf' \in [Bufs -> Buffer] /\ \A c \in Bufs \ {b} : buf'[c] = buf[c]
      /\ buf'[b].blockno = buf[b].blockno /\ buf'[b].refcnt = buf[b].refcnt
      /\ buf'[b].disk = buf[b].disk /\ buf'[b].lock = buf[b].lock
  BY <1>1, <1>2, SetData DEF Modify
<1>4. /\ \A c \in Bufs : /\ buf'[c].blockno = buf[c].blockno /\ buf'[c].refcnt = buf[c].refcnt
                         /\ buf'[c].disk = buf[c].disk /\ buf'[c].lock = buf[c].lock
  BY <1>3
<1>5. Types'
  BY <1>1, <1>2, <1>3, TypesKept DEF Types
<1>6. Counts'
  BY <1>1, <1>2, <1>4, Known, CountsKept
<1>7. Chains'
  BY <1>1, <1>2, ChainsKept
<1>8. Requests'
  <2>1. \A s \in Threads : at[s] = "io" => my[s].b \in Bufs
    BY Known
  <2> QED
    BY <1>1, <1>2, <1>4, <2>1, RequestsKept
<1>9. Awaited'
  BY <1>1, <1>2 DEF Awaited
<1>10. \A s \in Threads : ThreadAt(s)'
  BY <1>1, <1>2, <1>4, Known, ThreadsKept
<1>11. \A c \in Bufs : LockOf(c)'
  BY <1>1, <1>2, <1>4, LocksKept
<1> QED
  BY <1>5, <1>6, <1>7, <1>8, <1>9, <1>10, <1>11 DEF Inv, Bufs

LEMMA BwriteStep ==
  ASSUME Inv, NEW t \in Threads, Bwrite(t)
  PROVE  Inv'
<1>1. /\ Types /\ Counts /\ Chains /\ Requests /\ Awaited
      /\ (\A s \in Threads : ThreadAt(s)) /\ \A c \in Bufs : LockOf(c)
  BY DEF Inv
<1>2. /\ at[t] = "have" /\ my[t].b \in Bufs /\ my[t].idx = {} /\ buf[my[t].b].lock = t
      /\ UNCHANGED <<buf, lru, pins, freeDescs, info, avail, used, irq, intr, stored, other>>
      /\ Descs' = Descs
  BY Known DEF Bwrite, driver, Locked, Descs
<1>3. /\ my' \in [Threads -> Mine] /\ \A s \in Threads \ {t} : my'[s] = my[s]
      /\ my'[t].b = my[t].b /\ my'[t].idx = my[t].idx
  BY <1>1, SetWrite DEF Bwrite
<1>4. at' \in [Threads -> Places] /\ at'[t] = "rw" /\ \A s \in Threads \ {t} : at'[s] = at[s]
  BY <1>1, Moved DEF Bwrite, Places
<1>5. Types'
  BY <1>1, <1>2, <1>3, <1>4, TypesKept DEF Types
<1>6. Counts'
  BY <1>1, <1>2, <1>3, Known, CountsKept
<1>7. Chains'
  BY <1>1, <1>2, <1>3, ChainsKept
<1>8. Requests'
  BY <1>1, <1>2, <1>3, <1>4, RequestsKept
<1>9. Awaited'
  BY <1>1, <1>2, <1>4 DEF Awaited
<1>10. \A s \in Threads : ThreadAt(s)'
  <2>1. ASSUME NEW s \in Threads, s # t PROVE ThreadAt(s)'
    BY <1>1, <1>2, <1>3, <1>4, <2>1, Known, ThreadsKept
  <2>2. ThreadAt(t)'
    BY <1>1, <1>2, <1>3, <1>4, Constants DEF ThreadAt
  <2> QED
    BY <2>1, <2>2
<1>11. \A c \in Bufs : LockOf(c)'
  <2>1. \A s \in Threads : at[s] \in Locked => my'[s].b = my[s].b /\ at'[s] \in Locked
    BY <1>3, <1>4 DEF Locked
  <2> QED
    BY <1>1, <1>2, <2>1, LocksKept
<1> QED
  BY <1>5, <1>6, <1>7, <1>8, <1>9, <1>10, <1>11 DEF Inv, Bufs

LEMMA BpinStep ==
  ASSUME Inv, NEW t \in Threads, Bpin(t)
  PROVE  Inv'
<1>1. /\ Types /\ Counts /\ Chains /\ Requests /\ Awaited
      /\ (\A s \in Threads : ThreadAt(s)) /\ \A c \in Bufs : LockOf(c)
  BY DEF Inv
<1>0. at[t] = "have"
  BY DEF Bpin
<1>b. PICK b \in Bufs : b = my[t].b
  BY <1>0, Known
<1>n. PICK n : n = buf[b].blockno
  OBVIOUS
<1>2. /\ b = my[t].b /\ Descs' = Descs /\ n \notin pins /\ pins' = pins \cup {n} /\ Cardinality(pins) < MaxPins
      /\ UNCHANGED <<lru, freeDescs, info, avail, used, irq, intr, stored, at, my, other>>
  BY <1>b, <1>n DEF Bpin, driver, Descs
<1>3. n \in Blknos
  BY <1>1, <1>2, <1>n, Constants DEF Counts, Types, Buffer
<1>4. buf[b].refcnt \in Int
  BY <1>1 DEF Types, Buffer
<1>5. /\ buf' \in [Bufs -> Buffer] /\ (\A c \in Bufs \ {b} : buf'[c] = buf[c])
      /\ buf'[b].refcnt = buf[b].refcnt + 1 /\ buf'[b].blockno = buf[b].blockno
      /\ buf'[b].disk = buf[b].disk /\ buf'[b].lock = buf[b].lock
  <2>1. buf' = [buf EXCEPT ![b].refcnt = buf[b].refcnt + 1]
    BY <1>b DEF Bpin
  <2>2. buf[b].refcnt + 1 \in Int
    BY <1>4
  <2> QED
    BY <1>1, <2>1, <2>2, SetRefcnt
<1>6. \A c \in Bufs : /\ buf'[c].disk = buf[c].disk /\ buf'[c].lock = buf[c].lock
                      /\ buf'[c].blockno = buf[c].blockno
  BY <1>5
<1>7. Types'
  <2>1. pins' \subseteq Blknos /\ IsFiniteSet(pins') /\ Cardinality(pins') <= MaxPins
    <3>1. pins \subseteq Blknos /\ IsFiniteSet(pins) /\ Cardinality(pins) \in Nat
      BY <1>1, FS_CardinalityType DEF Types
    <3>2. IsFiniteSet(pins \cup {n}) /\ Cardinality(pins \cup {n}) = Cardinality(pins) + 1
      BY <1>2, <3>1, FS_AddElement
    <3> QED
      BY <1>2, <1>3, <3>1, <3>2, DiskSizes
  <2> QED
    BY <1>1, <1>2, <1>5, <2>1, TypesBut DEF Types
<1>8. Counts'
  <2>1. \A c \in Bufs : Users(c)' = Users(c)
    BY <1>2 DEF Users
  <2>2. Pin(b) = 0 /\ Pin(b)' = 1 /\ \A c \in Bufs \ {b} : Pin(c)' = Pin(c)
    BY <1>1, <1>2, <1>3, <1>5, <1>n, Constants DEF Pin, Counts
  <2>3. \A c \in Bufs : buf'[c].refcnt = Cardinality(Users(c)') + Pin(c)'
    BY <1>1, <1>5, <2>1, <2>2, UsersFinite DEF Counts
  <2>4. \A m \in pins' : \E c \in Bufs : buf'[c].blockno = m
    BY <1>1, <1>2, <1>6, <1>n DEF Counts
  <2>5. \A s \in Threads : \A c \in {my[s].b, other[s]} : c # 0 => buf'[c].blockno # NoBlkno
    BY <1>1, <1>6, Known DEF Counts
  <2> QED
    BY <1>1, <1>2, <1>6, <2>3, <2>4, <2>5 DEF Counts, Bufs
<1>9. Chains'
  BY <1>1, <1>2, ChainsKept
<1>10. Requests'
  <2>1. \A s \in Threads : at[s] = "io" => my[s].b \in Bufs
    BY Known
  <2> QED
    BY <1>1, <1>2, <1>6, <2>1, RequestsKept
<1>11. Awaited'
  BY <1>1, <1>2 DEF Awaited
<1>12. \A s \in Threads : ThreadAt(s)'
  BY <1>1, <1>2, <1>6, Known, ThreadsKept
<1>13. \A c \in Bufs : LockOf(c)'
  BY <1>1, <1>2, <1>6, LocksKept
<1> QED
  BY <1>7, <1>8, <1>9, <1>10, <1>11, <1>12, <1>13 DEF Inv, Bufs

LEMMA BunpinStep ==
  ASSUME Inv, NEW t \in Threads, Bunpin(t)
  PROVE  Inv'
<1>1. /\ Types /\ Counts /\ Chains /\ Requests /\ Awaited
      /\ (\A s \in Threads : ThreadAt(s)) /\ \A c \in Bufs : LockOf(c)
  BY DEF Inv
<1>0. at[t] = "have"
  BY DEF Bunpin
<1>b. PICK b \in Bufs : b = my[t].b
  BY <1>0, Known
<1>n. PICK n : n = buf[b].blockno
  OBVIOUS
<1>2. /\ b = my[t].b /\ Descs' = Descs /\ n \in pins /\ pins' = pins \ {n}
      /\ UNCHANGED <<lru, freeDescs, info, avail, used, irq, intr, stored, at, my, other>>
  BY <1>b, <1>n DEF Bunpin, driver, Descs
<1>3. n \in Blknos
  BY <1>1, <1>2 DEF Types
<1>4. buf[b].refcnt \in Int
  BY <1>1 DEF Types, Buffer
<1>5. /\ buf' \in [Bufs -> Buffer] /\ (\A c \in Bufs \ {b} : buf'[c] = buf[c])
      /\ buf'[b].refcnt = buf[b].refcnt - 1 /\ buf'[b].blockno = buf[b].blockno
      /\ buf'[b].disk = buf[b].disk /\ buf'[b].lock = buf[b].lock
  <2>1. buf' = [buf EXCEPT ![b].refcnt = buf[b].refcnt - 1]
    BY <1>b DEF Bunpin
  <2>2. buf[b].refcnt - 1 \in Int
    BY <1>4
  <2> QED
    BY <1>1, <2>1, <2>2, SetRefcnt
<1>6. \A c \in Bufs : /\ buf'[c].disk = buf[c].disk /\ buf'[c].lock = buf[c].lock
                      /\ buf'[c].blockno = buf[c].blockno
  BY <1>5
<1>7. Types'
  <2>1. pins' \subseteq Blknos /\ IsFiniteSet(pins') /\ Cardinality(pins') <= MaxPins
    <3>1. pins \subseteq Blknos /\ IsFiniteSet(pins) /\ Cardinality(pins) \in Nat /\ Cardinality(pins) <= MaxPins
      BY <1>1, FS_CardinalityType DEF Types
    <3>2. IsFiniteSet(pins \ {n}) /\ Cardinality(pins \ {n}) = Cardinality(pins) - 1
      BY <1>2, <3>1, FS_RemoveElement
    <3> QED
      BY <1>2, <3>1, <3>2, DiskSizes
  <2> QED
    BY <1>1, <1>2, <1>5, <2>1, TypesBut DEF Types
<1>8. Counts'
  <2>1. \A c \in Bufs : Users(c)' = Users(c)
    BY <1>2 DEF Users
  <2>2. Pin(b) = 1 /\ Pin(b)' = 0 /\ \A c \in Bufs \ {b} : Pin(c)' = Pin(c)
    BY <1>1, <1>2, <1>3, <1>5, <1>n, Constants DEF Pin, Counts
  <2>3. \A c \in Bufs : buf'[c].refcnt = Cardinality(Users(c)') + Pin(c)'
    BY <1>1, <1>5, <2>1, <2>2, UsersFinite DEF Counts
  <2>4. \A m \in pins' : \E c \in Bufs : buf'[c].blockno = m
    BY <1>1, <1>2, <1>6 DEF Counts
  <2>5. \A s \in Threads : \A c \in {my[s].b, other[s]} : c # 0 => buf'[c].blockno # NoBlkno
    BY <1>1, <1>6, Known DEF Counts
  <2> QED
    BY <1>1, <1>2, <1>6, <2>3, <2>4, <2>5 DEF Counts, Bufs
<1>9. Chains'
  BY <1>1, <1>2, ChainsKept
<1>10. Requests'
  <2>1. \A s \in Threads : at[s] = "io" => my[s].b \in Bufs
    BY Known
  <2> QED
    BY <1>1, <1>2, <1>6, <2>1, RequestsKept
<1>11. Awaited'
  BY <1>1, <1>2 DEF Awaited
<1>12. \A s \in Threads : ThreadAt(s)'
  BY <1>1, <1>2, <1>6, Known, ThreadsKept
<1>13. \A c \in Bufs : LockOf(c)'
  BY <1>1, <1>2, <1>6, LocksKept
<1> QED
  BY <1>7, <1>8, <1>9, <1>10, <1>11, <1>12, <1>13 DEF Inv, Bufs

LEMMA ReleasesleepStep ==
  ASSUME Inv, NEW t \in Threads, Releasesleep(t)
  PROVE  Inv'
<1>1. /\ Types /\ Counts /\ Chains /\ Requests /\ Awaited
      /\ (\A s \in Threads : ThreadAt(s)) /\ \A c \in Bufs : LockOf(c)
  BY DEF Inv
<1>0. at[t] = "have"
  BY DEF Releasesleep
<1>b. PICK b \in Bufs : b = my[t].b
  BY <1>0, Known
<1>2. /\ b = my[t].b /\ Descs' = Descs /\ buf[b].lock = t /\ my[t].idx = {}
      /\ UNCHANGED <<lru, pins, freeDescs, info, avail, used, irq, intr, stored, my, other>>
  BY <1>0, <1>b, Known DEF Releasesleep, driver, Descs, Locked
<1>3. /\ buf' \in [Bufs -> Buffer] /\ buf'[b].lock = NoThread /\ (\A c \in Bufs \ {b} : buf'[c] = buf[c])
      /\ buf'[b].blockno = buf[b].blockno /\ buf'[b].refcnt = buf[b].refcnt /\ buf'[b].disk = buf[b].disk
  BY <1>1, <1>b, SetLock DEF Releasesleep
<1>4. at' \in [Threads -> Places] /\ at'[t] = "rel" /\ \A s \in Threads \ {t} : at'[s] = at[s]
  BY <1>1, Moved DEF Releasesleep, Places
<1>5. Types'
  BY <1>1, <1>2, <1>3, <1>4, TypesKept DEF Types
<1>6. Counts'
  BY <1>1, <1>2, <1>3, Known, CountsKept
<1>7. Chains'
  BY <1>1, <1>2, ChainsKept
<1>8. Requests'
  <2>1. \A s \in Threads : at[s] = "io" => at'[s] = "io"
    BY <1>0, <1>4
  <2>2. \A s \in Threads : at[s] = "io" /\ buf[my[s].b].lock = s => my[s].b \in Bufs \ {b}
    BY <1>0, <1>2, Known, Constants
  <2> QED
    BY <1>1, <1>2, <1>3, <2>1, <2>2, RequestsKept
<1>9. Awaited'
  BY <1>1, <1>2, <1>4 DEF Awaited
<1>10. \A s \in Threads : ThreadAt(s)'
  <2>1. ASSUME NEW s \in Threads, s # t PROVE ThreadAt(s)'
    <3>1. \A c \in Bufs : buf[c].lock = s => buf'[c].lock = s
      BY <1>2, <1>3, <2>1
    <3> QED
      BY <1>1, <1>2, <1>4, <2>1, <3>1, Known, ThreadsKept
  <2>2. other[t] # 0 => other[t] \in Bufs \ {b} /\ buf[other[t]].lock = t
    BY <1>2, Known
  <2>3. ThreadAt(t)'
    BY <1>0, <1>1, <1>2, <1>3, <1>4, <2>2, Constants DEF ThreadAt, Locked
  <2> QED
    BY <2>1, <2>3
<1>11. \A c \in Bufs : LockOf(c)'
  <2>1. ASSUME NEW c \in Bufs, c # b PROVE LockOf(c)'
    BY <1>1, <1>2, <1>3, <1>4, <2>1, LocksKept
  <2>2. LockOf(b)'
    BY <1>3, Constants DEF LockOf
  <2> QED
    BY <2>1, <2>2
<1> QED
  BY <1>5, <1>6, <1>7, <1>8, <1>9, <1>10, <1>11 DEF Inv, Bufs

\* The thread turns to its other buffer.
LEMMA Swapped ==
  ASSUME Types, NEW t \in Threads, {my[t].b, other[t]} \subseteq Bufs \cup {0},
         my' = [my EXCEPT ![t].b = other[t]], other' = [other EXCEPT ![t] = my[t].b]
  PROVE  /\ my' \in [Threads -> Mine] /\ my'[t].b = other[t] /\ my'[t].idx = my[t].idx
         /\ my'[t].write = my[t].write /\ \A s \in Threads \ {t} : my'[s] = my[s]
         /\ other' \in [Threads -> Bufs \cup {0}] /\ other'[t] = my[t].b
         /\ \A s \in Threads \ {t} : other'[s] = other[s]
<1> DEFINE r == [my[t] EXCEPT !.b = other[t]]
<1>1. my \in [Threads -> Mine] /\ my[t] \in Mine /\ other \in [Threads -> Bufs \cup {0}]
  BY DEF Types
<1>2. r \in Mine
  BY <1>1 DEF Mine
<1>3. r.b = other[t] /\ r.idx = my[t].idx /\ r.write = my[t].write
  BY <1>1 DEF Mine
<1>4. my' = [my EXCEPT ![t] = r]
  OBVIOUS
<1> HIDE DEF r
<1>5. my' \in [Threads -> Mine] /\ my'[t] = r /\ \A s \in Threads \ {t} : my'[s] = my[s]
  BY <1>1, <1>2, <1>4
<1> QED
  BY <1>1, <1>3, <1>5

LEMMA SwapStep ==
  ASSUME Inv, NEW t \in Threads, Swap(t)
  PROVE  Inv'
<1>1. /\ Types /\ Counts /\ Chains /\ Requests /\ Awaited
      /\ (\A s \in Threads : ThreadAt(s)) /\ \A c \in Bufs : LockOf(c)
  BY DEF Inv
<1>2. /\ at[t] = "have" /\ other[t] \in Bufs /\ my[t].b \in Bufs /\ my[t].idx = {} /\ Descs' = Descs
      /\ buf[my[t].b].lock = t /\ buf[other[t]].lock = t /\ my[t].b # other[t]
      /\ UNCHANGED <<buf, lru, pins, freeDescs, info, avail, used, irq, intr, stored, at>>
  BY Known DEF Swap, driver, Descs, Locked
<1>3. /\ my' \in [Threads -> Mine] /\ my'[t].b = other[t] /\ my'[t].idx = my[t].idx
      /\ \A s \in Threads \ {t} : my'[s] = my[s]
      /\ other' \in [Threads -> Bufs \cup {0}] /\ other'[t] = my[t].b
      /\ \A s \in Threads \ {t} : other'[s] = other[s]
  BY <1>1, <1>2, Swapped DEF Swap
<1>4. Types'
  BY <1>1, <1>2, <1>3, TypesKept DEF Types
<1>5. \A s \in Threads : {my'[s].b, other'[s]} = {my[s].b, other[s]} /\ my'[s].idx = my[s].idx
  BY <1>3
<1>6. Counts'
  <2>1. \A c \in Bufs : Users(c)' = Users(c) /\ Pin(c)' = Pin(c)
    BY <1>2, <1>5 DEF Users, Pin
  <2>2. buf' = buf /\ pins' = pins /\ Bufs' = Bufs
    BY <1>2 DEF Bufs
  <2>3. \A b, c \in Bufs : buf[b].blockno = buf[c].blockno /\ b # c => buf[b].blockno = NoBlkno
    BY <1>1 DEF Counts
  <2>4. \A s \in Threads : \A b \in {my'[s].b, other'[s]} : b # 0 => buf[b].blockno # NoBlkno
    BY <1>1, <1>5 DEF Counts
  <2>5. \A b \in Bufs : buf[b].refcnt = Cardinality(Users(b)') + Pin(b)'
    BY <1>1, <2>1 DEF Counts
  <2>6. \A n \in pins : \E b \in Bufs : buf[b].blockno = n
    BY <1>1 DEF Counts
  <2> QED
    BY <2>2, <2>3, <2>4, <2>5, <2>6 DEF Counts
<1>7. Chains'
  BY <1>1, <1>2, <1>5, ChainsKept
<1>8. Requests'
  BY <1>1, <1>2, <1>3, RequestsKept
<1>9. Awaited'
  BY <1>1, <1>2 DEF Awaited
<1>10. \A s \in Threads : ThreadAt(s)'
  <2>1. ASSUME NEW s \in Threads, s # t PROVE ThreadAt(s)'
    BY <1>1, <1>2, <1>3, <2>1, Known, ThreadsKept
  <2>2. ThreadAt(t)'
    BY <1>2, <1>3, Constants DEF ThreadAt
  <2> QED
    BY <2>1, <2>2
<1>11. \A c \in Bufs : LockOf(c)'
  <2>1. ASSUME NEW c \in Bufs, NEW s \in Threads, Holds(s, c) PROVE Holds(s, c)'
    <3>1. CASE s = t
      BY <1>2, <1>3, <2>1, <3>1 DEF Holds, Locked
    <3>2. CASE s # t
      BY <1>2, <1>3, <2>1, <3>2 DEF Holds, Locked
    <3> QED
      BY <3>1, <3>2
  <2> QED
    BY <1>1, <1>2, <2>1, LocksMoved
<1> QED
  BY <1>4, <1>6, <1>7, <1>8, <1>9, <1>10, <1>11 DEF Inv, Bufs

\* brelse() leaves every buffer in the list.
LEMMA Listed ==
  ASSUME Types, NEW b \in Bufs
  PROVE  ToFront(b) \in [Bufs -> Bufs] /\ \A c \in Bufs : \E i \in Bufs : ToFront(b)[i] = c
<1> DEFINE p == CHOOSE i \in Bufs : lru[i] = b
           f == ToFront(b)
<1>1. lru \in [Bufs -> Bufs] /\ \A c \in Bufs : \E i \in Bufs : lru[i] = c
  BY DEF Types
<1>2. p \in Bufs /\ lru[p] = b
  BY <1>1
<1>3. f = [i \in Bufs |-> IF i = 1 THEN b ELSE IF i <= p THEN lru[i - 1] ELSE lru[i]]
  BY DEF ToFront
<1> HIDE DEF p, f
<1>4. \A i \in Bufs : i # 1 => i - 1 \in Bufs
  BY DiskSizes DEF Bufs
<1>5. \A i \in Bufs : f[i] \in Bufs
  BY <1>1, <1>3, <1>4
<1>6. ASSUME NEW c \in Bufs PROVE \E i \in Bufs : f[i] = c
  <2>1. PICK j \in Bufs : lru[j] = c
    BY <1>1
  <2>2. CASE c = b
    <3>1. 1 \in Bufs
      BY DiskSizes DEF Bufs
    <3> QED
      BY <1>3, <2>2, <3>1
  <2>3. CASE c # b /\ j < p
    <3>1. j + 1 \in Bufs /\ j + 1 # 1 /\ j + 1 <= p /\ (j + 1) - 1 = j
      BY <1>2, <2>3, DiskSizes DEF Bufs
    <3>2. f[j + 1] = lru[j]
      BY <1>3, <3>1
    <3> QED
      BY <2>1, <3>1, <3>2
  <2>4. CASE c # b /\ j > p
    <3>1. j # 1 /\ ~(j <= p)
      BY <1>2, <2>4, DiskSizes DEF Bufs
    <3> QED
      BY <1>3, <2>1, <3>1
  <2>5. j < p \/ j > p \/ c = b
    BY <1>2, <2>1, DiskSizes DEF Bufs
  <2> QED
    BY <2>2, <2>3, <2>4, <2>5
<1>7. f \in [Bufs -> Bufs]
  BY <1>3, <1>5
<1> QED
  BY <1>6, <1>7 DEF f

LEMMA BrelseStep ==
  ASSUME Inv, NEW t \in Threads, Brelse(t)
  PROVE  Inv'
<1>1. /\ Types /\ Counts /\ Chains /\ Requests /\ Awaited
      /\ (\A s \in Threads : ThreadAt(s)) /\ \A c \in Bufs : LockOf(c)
  BY DEF Inv
<1>0. at[t] = "rel"
  BY DEF Brelse
<1>b. PICK b \in Bufs : b = my[t].b
  BY <1>0, Known
<1>o. PICK o : o = other[t]
  OBVIOUS
<1>p. o \in Bufs \cup {0} /\ o # b /\ (o # 0 => buf[o].lock = t)
  BY <1>b, <1>o, Known, Constants
<1>2. /\ b = my[t].b /\ Descs' = Descs /\ my[t].idx = {}
      /\ UNCHANGED <<pins, freeDescs, info, avail, used, irq, intr, stored>>
  BY <1>0, <1>b, Known DEF Brelse, driver, Descs
<1>3. /\ buf' \in [Bufs -> Buffer] /\ (\A c \in Bufs \ {b} : buf'[c] = buf[c])
      /\ buf[b].refcnt \in Int /\ buf'[b].refcnt = buf[b].refcnt - 1 /\ buf'[b].blockno = buf[b].blockno
      /\ buf'[b].disk = buf[b].disk /\ buf'[b].lock = buf[b].lock
  <2>1. buf' = [buf EXCEPT ![b].refcnt = buf[b].refcnt - 1]
    BY <1>b DEF Brelse
  <2>2. buf[b].refcnt \in Int /\ buf[b].refcnt - 1 \in Int
    BY <1>1 DEF Types, Buffer
  <2> QED
    BY <1>1, <2>1, <2>2, SetRefcnt
<1>4. \A c \in Bufs : /\ buf'[c].disk = buf[c].disk /\ buf'[c].lock = buf[c].lock
                      /\ buf'[c].blockno = buf[c].blockno
  BY <1>3
<1>5. /\ my' \in [Threads -> Mine] /\ (\A s \in Threads \ {t} : my'[s] = my[s])
      /\ my'[t].b = o /\ my'[t].idx = {}
  <2>1. my' = [my EXCEPT ![t] = [Nothing EXCEPT !.b = o]]
    BY <1>o DEF Brelse
  <2> QED
    BY <1>1, <1>p, <2>1, SetMine
<1>a. /\ other' \in [Threads -> Bufs \cup {0}] /\ other'[t] = 0
      /\ \A s \in Threads \ {t} : other'[s] = other[s]
  BY <1>1 DEF Brelse, Types
<1>6. /\ at' \in [Threads -> Places] /\ at'[t] = (IF o = 0 THEN "idle" ELSE "have")
      /\ \A s \in Threads \ {t} : at'[s] = at[s]
  <2>1. (IF o = 0 THEN "idle" ELSE "have") \in Places /\ Moves(t, IF o = 0 THEN "idle" ELSE "have")
    BY <1>o DEF Brelse, Places
  <2> QED
    BY <1>1, <2>1, Moved
<1>7. Types'
  <2>1. lru' \in [Bufs -> Bufs] /\ \A c \in Bufs : \E i \in Bufs : lru'[i] = c
    <3>1. lru' = lru \/ lru' = ToFront(b)
      BY <1>b DEF Brelse
    <3>2. lru \in [Bufs -> Bufs] /\ \A c \in Bufs : \E i \in Bufs : lru[i] = c
      BY <1>1 DEF Types
    <3>3. ToFront(b) \in [Bufs -> Bufs] /\ \A c \in Bufs : \E i \in Bufs : ToFront(b)[i] = c
      BY <1>1, <1>b, Listed
    <3>4. CASE lru' = lru
      BY <3>2, <3>4
    <3>5. CASE lru' = ToFront(b)
      BY <3>3, <3>5, Zenon
    <3> QED
      BY <3>1, <3>4, <3>5
  <2> QED
    BY <1>1, <1>2, <1>3, <1>5, <1>6, <1>a, <2>1, TypesBut DEF Types
<1>8. Counts'
  <2>1. Cardinality(Users(b)') = Cardinality(Users(b)) - 1 /\ \A c \in Bufs \ {b} : Users(c)' = Users(c)
    BY <1>2, <1>5, <1>a, <1>o, <1>p, UsersShrink
  <2>2. \A c \in Bufs : Pin(c)' = Pin(c) /\ Pin(c) \in {0, 1}
    BY <1>2, <1>4 DEF Pin
  <2>3. \A c \in Bufs : buf'[c].refcnt = Cardinality(Users(c)') + Pin(c)'
    BY <1>1, <1>3, <2>1, <2>2, UsersFinite DEF Counts
  <2>4. ASSUME NEW s \in Threads, NEW c \in {my'[s].b, other'[s]}, c # 0 PROVE buf'[c].blockno # NoBlkno
    <3>1. c \in {my[s].b, other[s]} /\ c \in Bufs
      BY <1>5, <1>a, <1>o, <2>4, Known
    <3> QED
      BY <1>1, <1>4, <2>4, <3>1 DEF Counts
  <2> QED
    BY <1>1, <1>2, <1>4, <2>3, <2>4 DEF Counts, Bufs
<1>9. Chains'
  BY <1>1, <1>2, <1>5, ChainsKept
<1>10. Requests'
  <2>1. \A s \in Threads : at[s] = "io" => my[s].b \in Bufs /\ at'[s] = "io" /\ my'[s] = my[s]
    BY <1>0, <1>5, <1>6, Known
  <2> QED
    BY <1>1, <1>2, <1>4, <2>1, RequestsKept
<1>11. Awaited'
  BY <1>1, <1>2, <1>6 DEF Awaited
<1>12. \A s \in Threads : ThreadAt(s)'
  <2>1. ASSUME NEW s \in Threads, s # t PROVE ThreadAt(s)'
    BY <1>1, <1>4, <1>5, <1>6, <1>a, <2>1, Known, ThreadsKept
  <2>2. ThreadAt(t)'
    BY <1>4, <1>5, <1>6, <1>a, <1>p, Constants DEF ThreadAt, Locked
  <2> QED
    BY <2>1, <2>2
<1>13. \A c \in Bufs : LockOf(c)'
  <2>1. ASSUME NEW c \in Bufs, NEW s \in Threads, Holds(s, c) PROVE Holds(s, c)'
    <3>1. CASE s = t
      BY <1>0, <1>5, <1>6, <1>o, <2>1, <3>1, Constants DEF Holds, Locked
    <3>2. CASE s # t
      BY <1>5, <1>6, <1>a, <2>1, <3>2 DEF Holds, Locked
    <3> QED
      BY <3>1, <3>2
  <2> QED
    BY <1>1, <1>4, <2>1, LocksMoved
<1> QED
  BY <1>7, <1>8, <1>9, <1>10, <1>11, <1>12, <1>13 DEF Inv, Bufs

\* bget() finds the block.
LEMMA BgetCached ==
  ASSUME Inv, NEW t \in Threads, NEW n \in Blknos, NEW b \in Cached(n), MayGet(t, n), other' = [other EXCEPT ![t] = my[t].b],
         buf' = [buf EXCEPT ![b].refcnt = @ + 1], my' = [my EXCEPT ![t] = [Nothing EXCEPT !.b = b]],
         Moves(t, "lock"), UNCHANGED <<lru, pins, driver>>
  PROVE  Inv'
<1>1. /\ Types /\ Counts /\ Chains /\ Requests /\ Awaited
      /\ (\A s \in Threads : ThreadAt(s)) /\ \A c \in Bufs : LockOf(c)
  BY DEF Inv
<1>2. /\ b \in Bufs /\ buf[b].blockno = n /\ Descs' = Descs
      /\ UNCHANGED <<lru, pins, freeDescs, info, avail, used, irq, intr, stored>>
  BY DEF Cached, driver, Descs
<1>a. /\ other[t] = 0 /\ at[t] \in {"idle", "have"} /\ my[t].idx = {} /\ my[t].b \in (Bufs \ {b}) \cup {0}
      /\ my[t].b # 0 => buf[my[t].b].lock = t
      /\ other' \in [Threads -> Bufs \cup {0}] /\ other'[t] = my[t].b
      /\ \A s \in Threads \ {t} : other'[s] = other[s]
  BY <1>2, Asker, Constants
<1>3. /\ buf' \in [Bufs -> Buffer] /\ (\A c \in Bufs \ {b} : buf'[c] = buf[c])
      /\ buf[b].refcnt \in Int /\ buf'[b].refcnt = buf[b].refcnt + 1 /\ buf'[b].blockno = buf[b].blockno
      /\ buf'[b].disk = buf[b].disk /\ buf'[b].lock = buf[b].lock
  <2>1. buf' = [buf EXCEPT ![b].refcnt = buf[b].refcnt + 1]
    OBVIOUS
  <2>2. buf[b].refcnt \in Int /\ buf[b].refcnt + 1 \in Int
    BY <1>1, <1>2 DEF Types, Buffer
  <2> QED
    BY <1>1, <1>2, <2>1, <2>2, SetRefcnt
<1>4. \A c \in Bufs : /\ buf'[c].disk = buf[c].disk /\ buf'[c].lock = buf[c].lock
                      /\ buf'[c].blockno = buf[c].blockno
  BY <1>3
<1>5. /\ my' \in [Threads -> Mine] /\ (\A s \in Threads \ {t} : my'[s] = my[s])
      /\ my'[t].b = b /\ my'[t].idx = {}
  BY <1>1, <1>2, SetMine
<1>6. at' \in [Threads -> Places] /\ at'[t] = "lock" /\ \A s \in Threads \ {t} : at'[s] = at[s]
  BY <1>1, Moved DEF Places
<1>7. Types'
  BY <1>1, <1>2, <1>3, <1>5, <1>6, <1>a, TypesKept DEF Types
<1>8. Counts'
  <2>1. Cardinality(Users(b)') = Cardinality(Users(b)) + 1 /\ \A c \in Bufs \ {b} : Users(c)' = Users(c)
    BY <1>2, <1>5, <1>a, Constants, UsersGrow
  <2>2. \A c \in Bufs : Pin(c)' = Pin(c) /\ Pin(c) \in {0, 1}
    BY <1>2, <1>4 DEF Pin
  <2>3. \A c \in Bufs : buf'[c].refcnt = Cardinality(Users(c)') + Pin(c)'
    BY <1>1, <1>2, <1>3, <2>1, <2>2, UsersFinite DEF Counts
  <2>4. ASSUME NEW s \in Threads, NEW c \in {my'[s].b, other'[s]}, c # 0 PROVE buf'[c].blockno # NoBlkno
    <3>1. c = b \/ (c \in {my[s].b, other[s]} /\ c \in Bufs)
      BY <1>5, <1>a, <2>4, Known
    <3> QED
      BY <1>1, <1>2, <1>4, <2>4, <3>1, Constants DEF Counts
  <2> QED
    BY <1>1, <1>2, <1>4, <2>3, <2>4 DEF Counts, Bufs
<1>9. Chains'
  BY <1>1, <1>2, <1>5, <1>a, ChainsKept
<1>10. Requests'
  <2>1. \A s \in Threads : at[s] = "io" => my[s].b \in Bufs /\ at'[s] = "io" /\ my'[s] = my[s]
    BY <1>5, <1>6, <1>a, Known
  <2> QED
    BY <1>1, <1>2, <1>4, <2>1, RequestsKept
<1>11. Awaited'
  BY <1>1, <1>2, <1>6 DEF Awaited
<1>12. \A s \in Threads : ThreadAt(s)'
  <2>1. ASSUME NEW s \in Threads, s # t PROVE ThreadAt(s)'
    BY <1>1, <1>4, <1>5, <1>6, <1>a, <2>1, Known, ThreadsKept
  <2>2. ThreadAt(t)'
    BY <1>2, <1>4, <1>5, <1>6, <1>a, Constants DEF ThreadAt, Locked
  <2> QED
    BY <2>1, <2>2
<1>13. \A c \in Bufs : LockOf(c)'
  <2>1. ASSUME NEW c \in Bufs, NEW s \in Threads, Holds(s, c) PROVE Holds(s, c)'
    <3>1. CASE s = t
      BY <1>a, <2>1, <3>1, Constants DEF Holds
    <3>2. CASE s # t
      BY <1>5, <1>6, <1>a, <2>1, <3>2 DEF Holds, Locked
    <3> QED
      BY <3>1, <3>2
  <2> QED
    BY <1>1, <1>4, <2>1, LocksMoved
<1> QED
  BY <1>7, <1>8, <1>9, <1>10, <1>11, <1>12, <1>13 DEF Inv, Bufs

\* bget() takes an unused buffer: nobody has got it, it is not pinned, and the
\* block is in no other.
LEMMA BgetRecycled ==
  ASSUME Inv, NEW t \in Threads, NEW n \in Blknos, Cached(n) = {}, Unused # {}, MayGet(t, n), other' = [other EXCEPT ![t] = my[t].b],
         buf' = [buf EXCEPT ![Recycled] = [@ EXCEPT !.blockno = n, !.valid = FALSE, !.refcnt = 1]],
         my' = [my EXCEPT ![t] = [Nothing EXCEPT !.b = Recycled]],
         Moves(t, "lock"), UNCHANGED <<lru, pins, driver>>
  PROVE  Inv'
<1>1. /\ Types /\ Counts /\ Chains /\ Requests /\ Awaited
      /\ (\A s \in Threads : ThreadAt(s)) /\ \A c \in Bufs : LockOf(c)
  BY DEF Inv
<1>b. PICK b \in Bufs : b = Recycled /\ buf[b].refcnt = 0
  <2>1. Max(Unused) \in Unused
    BY Greatest DEF Unused
  <2> QED
    BY <1>1, <2>1 DEF Unused, Recycled, Types
<1>2. /\ Descs' = Descs /\ (\A c \in Bufs : buf[c].blockno # n)
      /\ UNCHANGED <<lru, pins, freeDescs, info, avail, used, irq, intr, stored>>
  BY DEF Cached, driver, Descs
<1>3. Pin(b) = 0 /\ \A s \in Threads : my[s].b # b /\ other[s] # b
  <2>1. Pin(b) \in {0, 1} /\ Cardinality(Users(b)) + Pin(b) = 0
    BY <1>1, <1>b DEF Counts, Pin
  <2>2. Pin(b) = 0 /\ Cardinality(Users(b)) = 0
    BY <2>1, UsersFinite
  <2>3. Users(b) = {}
    BY <2>2, UsersFinite, FS_EmptySet
  <2> QED
    BY <2>2, <2>3 DEF Users
<1>4. buf[b].lock = NoThread
  BY <1>1, <1>b, <1>3 DEF LockOf, Holds, Types, Buffer
<1>a. /\ other[t] = 0 /\ at[t] \in {"idle", "have"} /\ my[t].idx = {} /\ my[t].b \in (Bufs \ {b}) \cup {0}
      /\ my[t].b # 0 => buf[my[t].b].lock = t
      /\ other' \in [Threads -> Bufs \cup {0}] /\ other'[t] = my[t].b
      /\ \A s \in Threads \ {t} : other'[s] = other[s]
  BY <1>3, Asker, Constants
<1>5. /\ buf' \in [Bufs -> Buffer] /\ (\A c \in Bufs \ {b} : buf'[c] = buf[c])
      /\ buf'[b].refcnt = 1 /\ buf'[b].blockno = n
      /\ buf'[b].disk = buf[b].disk /\ buf'[b].lock = buf[b].lock
  BY <1>1, <1>b, SetBlock
<1>6. /\ my' \in [Threads -> Mine] /\ (\A s \in Threads \ {t} : my'[s] = my[s])
      /\ my'[t].b = b /\ my'[t].idx = {}
  BY <1>1, <1>b, SetMine
<1>7. at' \in [Threads -> Places] /\ at'[t] = "lock" /\ \A s \in Threads \ {t} : at'[s] = at[s]
  BY <1>1, Moved DEF Places
<1>8. Types'
  BY <1>1, <1>2, <1>5, <1>6, <1>7, <1>a, TypesKept DEF Types
<1>9. Counts'
  <2>1. Cardinality(Users(b)') = 1 /\ \A c \in Bufs \ {b} : Users(c)' = Users(c)
    <3>1. Cardinality(Users(b)') = Cardinality(Users(b)) + 1 /\ \A c \in Bufs \ {b} : Users(c)' = Users(c)
      BY <1>3, <1>6, <1>a, UsersGrow
    <3>2. Users(b) = {}
      BY <1>3 DEF Users
    <3> QED
      BY <3>1, <3>2, FS_EmptySet
  <2>2. n \notin pins
    BY <1>1, <1>2 DEF Counts
  <2>3. Pin(b)' = 0 /\ \A c \in Bufs \ {b} : Pin(c)' = Pin(c)
    BY <1>2, <1>5, <2>2 DEF Pin
  <2>4. \A c \in Bufs : buf'[c].refcnt = Cardinality(Users(c)') + Pin(c)'
    <3>1. buf'[b].refcnt = Cardinality(Users(b)') + Pin(b)'
      BY <1>5, <2>1, <2>3
    <3>2. ASSUME NEW c \in Bufs \ {b} PROVE buf'[c].refcnt = Cardinality(Users(c)') + Pin(c)'
      <4>1. buf'[c] = buf[c] /\ Users(c)' = Users(c) /\ Pin(c)' = Pin(c)
        BY <1>5, <2>1, <2>3
      <4> QED
        BY <1>1, <4>1 DEF Counts
    <3> QED
      BY <3>1, <3>2
  <2>5. ASSUME NEW s \in Threads, NEW c \in {my'[s].b, other'[s]}, c # 0 PROVE buf'[c].blockno # NoBlkno
    <3>1. c = b \/ (c \in {my[s].b, other[s]} /\ c \in Bufs \ {b})
      BY <1>3, <1>6, <1>a, <2>5, Known
    <3> QED
      BY <1>1, <1>5, <2>5, <3>1, Constants DEF Counts
  <2>6. \A m \in pins' : \E c \in Bufs : buf'[c].blockno = m
    <3>1. buf[b].blockno \notin pins
      BY <1>3 DEF Pin
    <3> QED
      BY <1>1, <1>2, <1>5, <3>1 DEF Counts
  <2>7. \A c, e \in Bufs : buf'[c].blockno = buf'[e].blockno /\ c # e => buf'[c].blockno = NoBlkno
    BY <1>1, <1>2, <1>5 DEF Counts
  <2> QED
    BY <2>4, <2>5, <2>6, <2>7 DEF Counts, Bufs
<1>10. Chains'
  BY <1>1, <1>2, <1>6, <1>a, ChainsKept
<1>11. \A s \in Threads \ {t} : at[s] \in Locked =>
          my[s].b \in Bufs \ {b} /\ at'[s] = at[s] /\ my'[s] = my[s] /\ buf'[my[s].b] = buf[my[s].b]
  BY <1>3, <1>5, <1>6, <1>7, Known DEF Locked
<1>12. Requests'
  BY <1>1, <1>2, <1>11, <1>a, RequestsKept DEF Locked
<1>13. Awaited'
  BY <1>1, <1>2, <1>7 DEF Awaited
<1>14. \A s \in Threads : ThreadAt(s)'
  <2>1. ASSUME NEW s \in Threads, s # t PROVE ThreadAt(s)'
    <3>1. \A c \in Bufs : buf[c].lock = s => buf'[c].lock = s
      BY <1>5
    <3> QED
      BY <1>1, <1>6, <1>7, <1>a, <2>1, <3>1, Known, ThreadsKept
  <2>2. ThreadAt(t)'
    BY <1>5, <1>6, <1>7, <1>a, Constants DEF ThreadAt, Locked
  <2> QED
    BY <2>1, <2>2
<1>15. \A c \in Bufs : LockOf(c)'
  <2>1. ASSUME NEW c \in Bufs, NEW s \in Threads, Holds(s, c) PROVE Holds(s, c)'
    <3>1. CASE s = t
      BY <1>a, <2>1, <3>1, Constants DEF Holds
    <3>2. CASE s # t
      BY <1>6, <1>7, <1>a, <2>1, <3>2 DEF Holds, Locked
    <3> QED
      BY <3>1, <3>2
  <2>2. \A c \in Bufs : buf'[c].lock = buf[c].lock
    BY <1>5
  <2> QED
    BY <1>1, <2>1, <2>2, LocksMoved
<1> QED
  BY <1>8, <1>9, <1>10, <1>12, <1>13, <1>14, <1>15 DEF Inv, Bufs

\* virtio_disk_rw() with three descriptors: the request is given to the device.
LEMMA VirtioDiskRwStep ==
  ASSUME Inv, NEW t \in Threads, VirtioDiskRw(t)
  PROVE  Inv'
<1>1. /\ Types /\ Counts /\ Chains /\ Requests /\ Awaited
      /\ (\A s \in Threads : ThreadAt(s)) /\ \A c \in Bufs : LockOf(c)
  BY DEF Inv
<1>0. at[t] = "rw"
  BY DEF VirtioDiskRw
<1>b. PICK b \in Bufs : b = my[t].b
  BY <1>0, Known
<1>d. PICK D, d : D = Three /\ d = Lead(Three)
  OBVIOUS
<1>2. D \subseteq freeDescs /\ d \in D /\ d \in Descs /\ D \subseteq Descs /\ d = Lead(D)
  BY <1>1, <1>d, ThreeFree DEF VirtioDiskRw, Types
<1>3. /\ b = my[t].b /\ my[t].idx = {} /\ buf[b].lock = t /\ my[t].write \in BOOLEAN
      /\ Cardinality(freeDescs) >= 3 /\ freeDescs' = freeDescs \ D /\ avail' = avail \cup {d}
      /\ UNCHANGED <<lru, pins, used, irq, intr, stored, other>>
  BY <1>0, <1>b, <1>d, Known DEF VirtioDiskRw, Locked, Mine
<1>4. /\ buf' \in [Bufs -> Buffer] /\ (\A c \in Bufs \ {b} : buf'[c] = buf[c]) /\ buf'[b].disk
      /\ buf'[b].refcnt = buf[b].refcnt /\ buf'[b].blockno = buf[b].blockno /\ buf'[b].lock = buf[b].lock
  BY <1>1, <1>b, DiskOn DEF VirtioDiskRw
<1>5. /\ \A c \in Bufs : /\ buf'[c].refcnt = buf[c].refcnt /\ buf'[c].blockno = buf[c].blockno
                         /\ buf'[c].lock = buf[c].lock /\ (buf[c].disk => buf'[c].disk)
  BY <1>4
<1>6. /\ my' \in [Threads -> Mine] /\ (\A s \in Threads \ {t} : my'[s] = my[s])
      /\ my'[t].b = b /\ my'[t].idx = D
  BY <1>1, <1>2, <1>b, <1>d, SetIdx DEF VirtioDiskRw
<1>7. at' \in [Threads -> Places] /\ at'[t] = "io" /\ \A s \in Threads \ {t} : at'[s] = at[s]
  BY <1>1, Moved DEF VirtioDiskRw, Places
<1>8. /\ info' \in [Descs -> Request] /\ Descs' = Descs /\ info'[d].b = b
      /\ \A e \in Descs \ {d} : info'[e] = info[e]
  <2>1. info \in [Descs -> Request]
    BY <1>1 DEF Types
  <2>2. info' = [info EXCEPT ![d] = [b |-> b, write |-> my[t].write]]
    BY <1>b, <1>d DEF VirtioDiskRw
  <2>3. [b |-> b, write |-> my[t].write] \in Request
    BY <1>3 DEF Request
  <2>4. info' \in [Descs -> Request]
    BY <1>2, <2>1, <2>2, <2>3
  <2> QED
    BY <1>2, <2>1, <2>2, <2>4 DEF Descs
<1>9. Types'
  BY <1>1, <1>2, <1>3, <1>4, <1>6, <1>7, <1>8, TypesKept DEF Types
<1>10. Counts'
  BY <1>1, <1>3, <1>5, <1>6, Known, CountsKept
<1>11. Chains'
  <2>1. \A s \in Threads : my[s].idx \cap D = {}
    BY <1>1, <1>2, Known DEF Chains
  <2>2. ASSUME NEW r \in Threads, NEW s \in Threads, r # s PROVE my'[r].idx \cap my'[s].idx = {}
    BY <1>1, <1>6, <2>1, <2>2 DEF Chains
  <2>3. ASSUME NEW e \in Descs PROVE e \in freeDescs' <=> \A s \in Threads : e \notin my'[s].idx
    BY <1>1, <1>3, <1>6, <2>1, <2>3 DEF Chains
  <2> QED
    BY <1>8, <2>2, <2>3 DEF Chains
<1>12. \A e \in Pending : e \notin freeDescs
  <2>1. ASSUME NEW e \in Pending PROVE e \notin freeDescs
    <3>1. PICK s \in Threads : Serves(s, e)
      BY <1>1 DEF Requests
    <3>2. e \in my[s].idx /\ e \in Descs
      BY <1>1, <3>1, Known DEF Serves, ThreadAt
    <3> QED
      BY <1>1, <3>2 DEF Chains
  <2> QED
    BY <2>1
<1>13. Requests'
  <2>1. ASSUME NEW e \in Pending PROVE \E s \in Threads : Serves(s, e)'
    <3>1. PICK s \in Threads : Serves(s, e)
      BY <1>1 DEF Requests
    <3>2. s # t /\ my[s].b \in Bufs
      BY <1>0, <3>1, Known DEF Serves
    <3>3. e \in Descs /\ e # d
      BY <1>1, <1>2, <1>12, <2>1, <3>1, Known DEF Serves, ThreadAt
    <3>4. Serves(s, e)'
      BY <1>5, <1>6, <1>7, <1>8, <3>1, <3>2, <3>3 DEF Serves, Lead, Min
    <3> QED
      BY <3>4
  <2>2. Serves(t, d)'
    BY <1>2, <1>3, <1>4, <1>6, <1>7, <1>8 DEF Serves, Lead, Min
  <2>3. Pending' = Pending \cup {d}
    BY <1>3 DEF Pending
  <2>4. \A i \in 1..Len(used) : used[i] # d
    BY <1>2, <1>12 DEF Pending
  <2> QED
    BY <1>1, <1>3, <2>1, <2>2, <2>3, <2>4 DEF Requests
<1>14. Awaited'
  <2>1. \A s \in Threads : at[s] # "nodesc"
    <3>1. Cardinality(freeDescs) \in Nat
      BY <1>1, FS_Subset, FS_CardinalityType DEF Types
    <3> QED
      BY <1>1, <1>3, <3>1 DEF Awaited
  <2> QED
    BY <1>1, <1>3, <1>7, <2>1 DEF Awaited
<1>15. \A s \in Threads : ThreadAt(s)'
  <2>1. ASSUME NEW s \in Threads, s # t PROVE ThreadAt(s)'
    <3>1. \A c \in Bufs : buf[c].lock = s => buf'[c].lock = s
      BY <1>5
    <3> QED
      BY <1>1, <1>3, <1>6, <1>7, <2>1, <3>1, Known, ThreadsKept
  <2>2. ThreadAt(t)'
    BY <1>2, <1>3, <1>4, <1>5, <1>6, <1>7, Known, Constants DEF ThreadAt, Lead, Min
  <2> QED
    BY <2>1, <2>2
<1>16. \A c \in Bufs : LockOf(c)'
  <2>1. \A s \in Threads : at[s] \in Locked => my'[s].b = my[s].b /\ at'[s] \in Locked
    BY <1>b, <1>6, <1>7 DEF Locked
  <2> QED
    BY <1>1, <1>3, <1>5, <2>1, LocksKept
<1> QED
  BY <1>9, <1>10, <1>11, <1>13, <1>14, <1>15, <1>16 DEF Inv, Bufs

\* What virtio_disk_rw() does to the sleepers on disk.free[0].
LEMMA Retried ==
  ASSUME Types, NEW t \in Threads, NEW l \in Places, NEW freed \in BOOLEAN, Retry(t, l, freed)
  PROVE  /\ at' \in [Threads -> Places] /\ at'[t] = l
         /\ \A s \in Threads \ {t} : /\ at'[s] = at[s] \/ (at[s] = "nodesc" /\ at'[s] = "rw")
                                     /\ freed => at'[s] # "nodesc"
BY DEF Types, Retry, Places

LEMMA NoDescStep ==
  ASSUME Inv, NEW t \in Threads, NoDesc(t)
  PROVE  Inv'
<1>1. /\ Types /\ Counts /\ Chains /\ Requests /\ Awaited
      /\ (\A s \in Threads : ThreadAt(s)) /\ \A c \in Bufs : LockOf(c)
  BY DEF Inv
<1>2. /\ at[t] = "rw" /\ Cardinality(freeDescs) < 3 /\ Descs' = Descs /\ my[t].idx = {}
      /\ UNCHANGED <<buf, lru, pins, freeDescs, info, avail, used, irq, intr, stored, my, other>>
  BY Known DEF NoDesc, driver, Descs
<1>3. /\ at' \in [Threads -> Places] /\ at'[t] = "nodesc"
      /\ \A s \in Threads \ {t} : at'[s] = at[s] \/ (at[s] = "nodesc" /\ at'[s] = "rw")
  BY <1>1, Retried DEF NoDesc, Places
<1>4. Types'
  BY <1>1, <1>2, <1>3, TypesKept DEF Types
<1>5. Counts'
  BY <1>1, <1>2, Known, CountsKept
<1>6. Chains'
  BY <1>1, <1>2, ChainsKept
<1>7. Requests'
  BY <1>1, <1>2, <1>3, RequestsKept
<1>8. Awaited'
  BY <1>1, <1>2 DEF Awaited
<1>9. \A s \in Threads : ThreadAt(s)'
  <2>1. ASSUME NEW s \in Threads, s # t PROVE ThreadAt(s)'
    BY <1>1, <1>2, <1>3, <2>1, Known, ThreadsKept
  <2>2. ThreadAt(t)'
    BY <1>1, <1>2, <1>3 DEF ThreadAt, Locked
  <2> QED
    BY <2>1, <2>2
<1>10. \A c \in Bufs : LockOf(c)'
  <2>1. \A s \in Threads : at[s] \in Locked => my'[s].b = my[s].b /\ at'[s] \in Locked
    BY <1>2, <1>3 DEF Locked
  <2> QED
    BY <1>1, <1>2, <2>1, LocksKept
<1> QED
  BY <1>4, <1>5, <1>6, <1>7, <1>8, <1>9, <1>10 DEF Inv, Bufs

\* The request that leads with d is of one thread, and of no other.
LEMMA ServedBy ==
  ASSUME Inv, NEW d \in Pending
  PROVE  \E t \in Threads : Serves(t, d) /\ d \in my[t].idx /\ d \in Descs /\ my[t].b \in Bufs
<1>1. PICK t \in Threads : Serves(t, d)
  BY DEF Inv, Requests
<1>2. ThreadAt(t)
  BY DEF Inv
<1> QED
  BY <1>1, <1>2, Known DEF Serves, ThreadAt

\* virtio_disk_rw() when the request is done.
LEMMA FinishStep ==
  ASSUME Inv, NEW t \in Threads, Finish(t)
  PROVE  Inv'
<1>1. /\ Types /\ Counts /\ Chains /\ Requests /\ Awaited
      /\ (\A s \in Threads : ThreadAt(s)) /\ \A c \in Bufs : LockOf(c)
  BY DEF Inv
<1>0. at[t] = "io"
  BY DEF Finish
<1>b. PICK b \in Bufs : b = my[t].b
  BY <1>0, Known
<1>d. PICK D, d : D = my[t].idx /\ d = Lead(D)
  OBVIOUS
<1>2. d \in D /\ D \subseteq Descs
  BY <1>0, <1>1, <1>d, Known DEF ThreadAt
<1>3. /\ b = my[t].b /\ buf[b].lock = t /\ ~buf[b].disk /\ freeDescs' = freeDescs \cup D
      /\ UNCHANGED <<lru, pins, avail, used, irq, intr, stored, other>>
  BY <1>0, <1>b, <1>d, Known DEF Finish, Locked, FreeChain
<1>4. /\ buf' \in [Bufs -> Buffer] /\ (\A c \in Bufs \ {b} : buf'[c] = buf[c])
      /\ buf'[b].refcnt = buf[b].refcnt /\ buf'[b].blockno = buf[b].blockno /\ buf'[b].lock = buf[b].lock
      /\ buf'[b].disk = buf[b].disk
  BY <1>1, <1>b, ValidOn DEF Finish
<1>5. /\ \A c \in Bufs : /\ buf'[c].refcnt = buf[c].refcnt /\ buf'[c].blockno = buf[c].blockno
                         /\ buf'[c].lock = buf[c].lock /\ buf'[c].disk = buf[c].disk
  BY <1>4
<1>6. /\ my' \in [Threads -> Mine] /\ (\A s \in Threads \ {t} : my'[s] = my[s])
      /\ my'[t].b = b /\ my'[t].idx = {}
  BY <1>1, <1>b, SetMine DEF Finish
<1>7. /\ at' \in [Threads -> Places] /\ at'[t] = "have"
      /\ \A s \in Threads \ {t} : /\ at'[s] = at[s] \/ (at[s] = "nodesc" /\ at'[s] = "rw")
                                  /\ at'[s] # "nodesc"
  <2>1. Retry(t, "have", TRUE) /\ "have" \in Places
    BY DEF Finish, Places
  <2> QED
    BY <1>1, <2>1, Retried
<1>8. /\ info' \in [Descs -> Request] /\ Descs' = Descs
      /\ \A e \in Descs \ {d} : info'[e] = info[e]
  <2>1. info \in [Descs -> Request]
    BY <1>1 DEF Types
  <2>2. info' = [info EXCEPT ![d] = NoRequest]
    BY <1>d DEF Finish
  <2>3. NoRequest \in Request
    BY DEF Request, NoRequest
  <2>4. info' \in [Descs -> Request]
    BY <1>2, <2>1, <2>2, <2>3
  <2> QED
    BY <1>2, <2>1, <2>2, <2>4 DEF Descs
<1>9. Types'
  BY <1>1, <1>2, <1>3, <1>4, <1>6, <1>7, <1>8, TypesKept DEF Types
<1>10. Counts'
  BY <1>1, <1>3, <1>5, <1>6, Known, CountsKept
<1>11. Chains'
  <2>1. \A s \in Threads \ {t} : my[s].idx \cap D = {}
    BY <1>1, <1>d DEF Chains
  <2>2. ASSUME NEW r \in Threads, NEW s \in Threads, r # s PROVE my'[r].idx \cap my'[s].idx = {}
    BY <1>1, <1>6, <2>2 DEF Chains
  <2>3. ASSUME NEW e \in Descs PROVE e \in freeDescs' <=> \A s \in Threads : e \notin my'[s].idx
    BY <1>1, <1>d, <1>3, <1>6, <2>1, <2>3 DEF Chains
  <2> QED
    BY <1>8, <2>2, <2>3 DEF Chains
<1>12. Requests'
  <2>1. ASSUME NEW e \in Pending PROVE \E s \in Threads : Serves(s, e)'
    <3>1. PICK s \in Threads : Serves(s, e) /\ e \in my[s].idx /\ e \in Descs /\ my[s].b \in Bufs
      BY ServedBy
    <3>2. s # t /\ at'[s] = "io"
      BY <1>3, <1>7, <3>1 DEF Serves
    <3>3. e # d
      BY <1>1, <1>2, <1>d, <3>1, <3>2 DEF Chains
    <3>4. Serves(s, e)'
      BY <1>5, <1>6, <1>8, <3>1, <3>2, <3>3 DEF Serves, Lead, Min
    <3> QED
      BY <3>4
  <2>2. Pending' = Pending
    BY <1>3 DEF Pending
  <2> QED
    BY <1>1, <1>3, <2>1, <2>2 DEF Requests
<1>13. Awaited'
  BY <1>1, <1>3, <1>7 DEF Awaited
<1>14. \A s \in Threads : ThreadAt(s)'
  <2>1. ASSUME NEW s \in Threads, s # t PROVE ThreadAt(s)'
    <3>1. \A c \in Bufs : buf[c].lock = s => buf'[c].lock = s
      BY <1>5
    <3> QED
      BY <1>1, <1>3, <1>6, <1>7, <2>1, <3>1, Known, ThreadsKept
  <2>2. ThreadAt(t)'
    BY <1>3, <1>5, <1>6, <1>7, Known, Constants DEF ThreadAt
  <2> QED
    BY <2>1, <2>2
<1>15. \A c \in Bufs : LockOf(c)'
  <2>1. \A s \in Threads : at[s] \in Locked => my'[s].b = my[s].b /\ at'[s] \in Locked
    BY <1>b, <1>6, <1>7 DEF Locked
  <2> QED
    BY <1>1, <1>3, <1>5, <2>1, LocksKept
<1> QED
  BY <1>9, <1>10, <1>11, <1>12, <1>13, <1>14, <1>15 DEF Inv, Bufs

\* The device is done with a request.
LEMMA DeviceStep ==
  ASSUME Inv, Device
  PROVE  Inv'
<1>1. /\ Types /\ Counts /\ Chains /\ Requests /\ Awaited
      /\ (\A s \in Threads : ThreadAt(s)) /\ \A c \in Bufs : LockOf(c)
  BY DEF Inv
<1>d. PICK d \in avail :
        /\ IF info[d].write
           THEN stored' = [stored EXCEPT ![buf[info[d].b].blockno] = buf[info[d].b].data] /\ UNCHANGED buf
           ELSE buf' = [buf EXCEPT ![info[d].b].data = stored[buf[info[d].b].blockno]] /\ UNCHANGED stored
        /\ avail' = avail \ {d} /\ used' = Append(used, d) /\ irq' = TRUE
        /\ UNCHANGED <<lru, pins, freeDescs, info, intr, at, my, other>>
  BY DEF Device
<1>2. d \in Pending /\ d \in Descs
  BY <1>1 DEF Pending, Types
<1>t. PICK t \in Threads : Serves(t, d) /\ my[t].b \in Bufs
  BY <1>2, ServedBy
<1>b. PICK b \in Bufs : b = my[t].b /\ b = info[d].b
  BY <1>t DEF Serves
<1>n. PICK n : n = buf[b].blockno
  OBVIOUS
<1>3. n \in Blknos
  <2>1. buf[b] \in Buffer
    BY <1>1 DEF Types
  <2>2. n \in Blknos \cup {NoBlkno}
    BY <1>n, <2>1 DEF Buffer
  <2>3. my[t].b # 0
    BY <1>t, Constants
  <2>4. n # NoBlkno
    BY <1>1, <1>b, <1>n, <2>3 DEF Counts
  <2> QED
    BY <2>2, <2>4
<1>4. /\ buf' \in [Bufs -> Buffer] /\ stored' \in [Blknos -> Vals]
      /\ \A c \in Bufs : /\ buf'[c].refcnt = buf[c].refcnt /\ buf'[c].blockno = buf[c].blockno
                         /\ buf'[c].lock = buf[c].lock /\ buf'[c].disk = buf[c].disk
  <2>1. buf \in [Bufs -> Buffer] /\ stored \in [Blknos -> Vals] /\ buf[b].data \in Vals /\ stored[n] \in Vals
    BY <1>1, <1>3 DEF Types, Buffer
  <2>2. CASE info[d].write
    BY <1>b, <1>d, <1>n, <2>1, <2>2
  <2>3. CASE ~info[d].write
    <3>1. buf' = [buf EXCEPT ![b].data = stored[n]] /\ stored' = stored
      BY <1>b, <1>d, <1>n, <2>3
    <3> QED
      BY <1>1, <2>1, <3>1, SetData
  <2> QED
    BY <2>2, <2>3
<1>5. Descs' = Descs
  BY <1>d DEF Descs
<1>6. /\ used \in Seq(Descs) /\ used' \in Seq(Descs) /\ Len(used') = Len(used) + 1 /\ Len(used) \in Nat
      /\ used'[Len(used) + 1] = d /\ (\A i \in 1..Len(used) : used'[i] = used[i])
      /\ 1..Len(used') = (1..Len(used)) \cup {Len(used) + 1}
  BY <1>1, <1>2, <1>d DEF Types
<1>7. Types'
  <2>1. irq' \in BOOLEAN /\ intr' \in BOOLEAN /\ avail' \subseteq Descs
    BY <1>1, <1>d DEF Types
  <2> QED
    BY <1>1, <1>d, <1>4, <1>5, <1>6, <2>1, TypesKept DEF Types
<1>8. Counts'
  BY <1>1, <1>d, <1>4, Known, CountsKept
<1>9. Chains'
  BY <1>1, <1>d, <1>5, ChainsKept
<1>10. Requests'
  <2>1. ASSUME NEW e \in Pending PROVE \E s \in Threads : Serves(s, e)'
    <3>1. PICK s \in Threads : Serves(s, e) /\ my[s].b \in Bufs
      BY ServedBy
    <3>2. Serves(s, e)'
      BY <1>d, <1>4, <3>1 DEF Serves, Lead, Min
    <3> QED
      BY <3>2
  <2>2. Pending' \subseteq Pending
    BY <1>d, <1>2, <1>6 DEF Pending
  <2>3. \A i \in 1..Len(used) : used[i] # d
    BY <1>1 DEF Requests
  <2>4. \A i, j \in 1..Len(used') : used'[i] = used'[j] => i = j
    BY <1>1, <1>6, <2>3 DEF Requests
  <2>5. \A i \in 1..Len(used') : used'[i] \notin avail'
    BY <1>1, <1>d, <1>6 DEF Requests
  <2> QED
    BY <2>1, <2>2, <2>4, <2>5 DEF Requests
<1>11. Awaited'
  BY <1>1, <1>d DEF Awaited
<1>12. \A s \in Threads : ThreadAt(s)'
  <2>1. \A s \in Threads : \A c \in Bufs : buf[c].lock = s => buf'[c].lock = s
    BY <1>4
  <2> QED
    BY <1>1, <1>d, <2>1, Known, ThreadsKept
<1>13. \A c \in Bufs : LockOf(c)'
  BY <1>1, <1>d, <1>4, LocksKept
<1> QED
  BY <1>7, <1>8, <1>9, <1>10, <1>11, <1>12, <1>13 DEF Inv, Bufs

\* virtio_disk_intr() sees a request that is done.
LEMMA IntrUsedStep ==
  ASSUME Inv, IntrUsed
  PROVE  Inv'
<1>1. /\ Types /\ Counts /\ Chains /\ Requests /\ Awaited
      /\ (\A s \in Threads : ThreadAt(s)) /\ \A c \in Bufs : LockOf(c)
  BY DEF Inv
<1>2. /\ intr /\ used # <<>> /\ used' = Tail(used) /\ Descs' = Descs
      /\ UNCHANGED <<lru, pins, freeDescs, info, avail, irq, intr, stored, at, my, other>>
  BY DEF IntrUsed, Descs
<1>3. /\ used \in Seq(Descs) /\ used' \in Seq(Descs) /\ Len(used) \in Nat /\ Len(used) >= 1
      /\ Len(used') = Len(used) - 1 /\ \A i \in 1..Len(used') : used'[i] = used[i + 1]
  BY <1>1, <1>2 DEF Types
<1>d. PICK d : d = used[1] /\ d = Head(used)
  BY <1>3
<1>t. PICK t \in Threads : Serves(t, d) /\ d \in my[t].idx /\ my[t].b \in Bufs
  <2>1. d \in Pending
    BY <1>3, <1>d DEF Pending
  <2> QED
    BY <2>1, ServedBy
<1>b. PICK b \in Bufs : b = my[t].b /\ b = info[d].b
  BY <1>t DEF Serves
<1>4. /\ buf' \in [Bufs -> Buffer] /\ (\A c \in Bufs \ {b} : buf'[c] = buf[c])
      /\ buf'[b].refcnt = buf[b].refcnt /\ buf'[b].blockno = buf[b].blockno /\ buf'[b].lock = buf[b].lock
  <2>1. buf' = [buf EXCEPT ![b].disk = FALSE]
    BY <1>b, <1>d DEF IntrUsed
  <2> QED
    BY <1>1, <2>1, DiskOff
<1>5. \A c \in Bufs : /\ buf'[c].refcnt = buf[c].refcnt /\ buf'[c].blockno = buf[c].blockno
                      /\ buf'[c].lock = buf[c].lock
  BY <1>4
<1>6. Types'
  BY <1>1, <1>2, <1>3, <1>4, TypesKept DEF Types
<1>7. Counts'
  BY <1>1, <1>2, <1>5, Known, CountsKept
<1>8. Chains'
  BY <1>1, <1>2, ChainsKept
<1>9. Requests'
  <2>1. ASSUME NEW e \in Pending, e # d PROVE \E s \in Threads : Serves(s, e)'
    <3>1. PICK s \in Threads : Serves(s, e) /\ my[s].b \in Bufs
      BY ServedBy
    <3>2. s # t
      BY <1>t, <2>1, <3>1 DEF Serves
    <3>3. my[s].b # b
      BY <1>b, <1>t, <3>1, <3>2 DEF Serves
    <3>4. Serves(s, e)'
      BY <1>2, <1>4, <3>1, <3>3 DEF Serves, Lead, Min
    <3> QED
      BY <3>4
  <2>2. \A i \in 1..Len(used') : i + 1 \in 1..Len(used) /\ i + 1 # 1
    BY <1>3
  <2>3. \A i \in 1..Len(used') : used'[i] # d
    BY <1>1, <1>3, <1>d, <2>2 DEF Requests
  <2>4. d \notin avail
    BY <1>1, <1>3, <1>d DEF Requests
  <2>5. Pending' \subseteq Pending \ {d}
    BY <1>2, <1>3, <2>2, <2>3, <2>4 DEF Pending
  <2>6. \A i, j \in 1..Len(used') : used'[i] = used'[j] => i = j
    <3>1. ASSUME NEW i \in 1..Len(used'), NEW j \in 1..Len(used'), used'[i] = used'[j] PROVE i = j
      <4>1. i + 1 = j + 1
        BY <1>1, <1>3, <2>2, <3>1 DEF Requests
      <4> QED
        BY <4>1
    <3> QED
      BY <3>1
  <2>7. \A i \in 1..Len(used') : used'[i] \notin avail'
    BY <1>1, <1>2, <1>3, <2>2 DEF Requests
  <2> QED
    BY <2>1, <2>5, <2>6, <2>7 DEF Requests
<1>10. Awaited'
  BY <1>1, <1>2 DEF Awaited
<1>11. \A s \in Threads : ThreadAt(s)'
  <2>1. \A s \in Threads : \A c \in Bufs : buf[c].lock = s => buf'[c].lock = s
    BY <1>5
  <2> QED
    BY <1>1, <1>2, <2>1, Known, ThreadsKept
<1>12. \A c \in Bufs : LockOf(c)'
  BY <1>1, <1>2, <1>5, LocksKept
<1> QED
  BY <1>6, <1>7, <1>8, <1>9, <1>10, <1>11, <1>12 DEF Inv, Bufs

\* virtio_disk_intr() begins, and ends with the used ring empty.
LEMMA IntrStep ==
  ASSUME Inv, IntrAck \/ IntrEnd
  PROVE  Inv'
<1>1. /\ Types /\ Counts /\ Chains /\ Requests /\ Awaited
      /\ (\A s \in Threads : ThreadAt(s)) /\ \A c \in Bufs : LockOf(c)
  BY DEF Inv
<1>2. /\ UNCHANGED <<buf, lru, pins, freeDescs, info, avail, used, stored, at, my, other>> /\ Descs' = Descs
      /\ irq' \in BOOLEAN /\ intr' \in BOOLEAN /\ (used # <<>> => intr')
  BY <1>1 DEF IntrAck, IntrEnd, Descs, Types
<1>3. Types'
  BY <1>1, <1>2, TypesKept DEF Types
<1>4. Counts'
  BY <1>1, <1>2, Known, CountsKept
<1>5. Chains'
  BY <1>1, <1>2, ChainsKept
<1>6. Requests'
  BY <1>1, <1>2, RequestsKept
<1>7. Awaited'
  BY <1>1, <1>2 DEF Awaited
<1>8. \A s \in Threads : ThreadAt(s)'
  BY <1>1, <1>2, Known, ThreadsKept
<1>9. \A c \in Bufs : LockOf(c)'
  BY <1>1, <1>2, LocksKept
<1> QED
  BY <1>3, <1>4, <1>5, <1>6, <1>7, <1>8, <1>9 DEF Inv, Bufs

-----------------------------------------------------------------------------
(* The invariant holds of every state. *)

LEMMA InitInv ==
  ASSUME DiskInit
  PROVE  Inv
<1>1. PICK v \in Vals : /\ buf = [b \in Bufs |-> [blockno |-> NoBlkno, valid |-> FALSE, refcnt |-> 0,
                                                  data |-> v, disk |-> FALSE, lock |-> NoThread]]
                        /\ stored = [m \in Blknos |-> v]
  BY DEF DiskInit
<1>2. PICK n \in NUMs : freeDescs = 0..(n - 1) /\ info = [d \in freeDescs |-> NoRequest]
  BY DEF DiskInit
<1>3. n \in Nat /\ Descs = freeDescs
  BY <1>2, DiskSizes DEF Descs
<1>4. Descs \subseteq Nat /\ IsFiniteSet(Descs)
  <2>1. 0 \in Int /\ n - 1 \in Int
    BY <1>3
  <2>2. IsFiniteSet(0..(n - 1))
    BY <2>1, FS_Interval
  <2> QED
    BY <1>2, <1>3, <2>2
<1>5. /\ at = [t \in Threads |-> "idle"] /\ my = [t \in Threads |-> Nothing]
      /\ other = [t \in Threads |-> 0]
      /\ pins = {} /\ avail = {} /\ used = <<>> /\ irq = FALSE /\ intr = FALSE
      /\ lru = [i \in Bufs |-> NBUF + 1 - i]
  BY DEF DiskInit
<1>6. \A t \in Threads : at[t] = "idle" /\ my[t].b = 0 /\ my[t].idx = {} /\ other[t] = 0
  BY <1>5 DEF Nothing
<1>7. \A b \in Bufs : buf[b].blockno = NoBlkno /\ buf[b].refcnt = 0 /\ buf[b].lock = NoThread
  BY <1>1
<1>8. Types
  <2>1. buf \in [Bufs -> Buffer] /\ stored \in [Blknos -> Vals]
    BY <1>1 DEF Buffer
  <2>2. /\ lru \in [Bufs -> Bufs] /\ \A b \in Bufs : \E i \in Bufs : lru[i] = b
    <3>1. \A b \in Bufs : NBUF + 1 - b \in Bufs /\ NBUF + 1 - (NBUF + 1 - b) = b
      BY DiskSizes DEF Bufs
    <3> QED
      BY <1>5, <3>1
  <2>3. /\ pins \subseteq Blknos /\ IsFiniteSet(pins) /\ Cardinality(pins) <= MaxPins
    BY <1>5, FS_EmptySet, DiskSizes
  <2>4. info \in [Descs -> Request]
    BY <1>2, <1>3 DEF Request, NoRequest
  <2>5. at \in [Threads -> Places] /\ my \in [Threads -> Mine] /\ other \in [Threads -> Bufs \cup {0}]
    BY <1>5 DEF Places, Mine, Nothing
  <2>6. used \in Seq(Descs) /\ avail \subseteq Descs
    BY <1>5
  <2>7. irq \in BOOLEAN /\ intr \in BOOLEAN
    BY <1>5
  <2> QED
    BY <1>3, <1>4, <2>1, <2>2, <2>3, <2>4, <2>5, <2>6, <2>7 DEF Types
<1>9. Counts
  <2>1. \A b \in Bufs : Users(b) = {} /\ Pin(b) = 0
    BY <1>5, <1>6, Constants DEF Users, Pin
  <2>2. \A b \in Bufs : buf[b].refcnt = Cardinality(Users(b)) + Pin(b)
    BY <1>7, <2>1, FS_EmptySet
  <2> QED
    BY <1>5, <1>6, <1>7, <2>2 DEF Counts
<1>10. Chains
  BY <1>3, <1>6 DEF Chains
<1>11. Requests
  BY <1>5 DEF Requests, Pending
<1>12. Awaited
  BY <1>5, <1>6 DEF Awaited
<1>13. \A t \in Threads : ThreadAt(t)
  BY <1>6 DEF ThreadAt, Locked
<1>14. \A b \in Bufs : LockOf(b)
  BY <1>7, Constants DEF LockOf
<1> QED
  BY <1>8, <1>9, <1>10, <1>11, <1>12, <1>13, <1>14 DEF Inv

LEMMA NextInv ==
  ASSUME Inv, [DiskNext]_dvars
  PROVE  Inv'
<1>1. CASE UNCHANGED dvars
  <2>1. /\ UNCHANGED <<buf, lru, pins, freeDescs, info, avail, used, irq, intr, stored, at, my, other>>
        /\ Descs' = Descs
    BY <1>1 DEF dvars, Descs
  <2>2. /\ Types /\ Counts /\ Chains /\ Requests /\ Awaited
        /\ (\A s \in Threads : ThreadAt(s)) /\ \A c \in Bufs : LockOf(c)
    BY DEF Inv
  <2>3. Types' /\ Counts' /\ Chains'
    BY <2>1, <2>2, Known, TypesKept, CountsKept, ChainsKept DEF Types
  <2>4. Requests' /\ Awaited'
    BY <2>1, <2>2, RequestsKept DEF Awaited
  <2>5. (\A s \in Threads : ThreadAt(s)') /\ \A c \in Bufs : LockOf(c)'
    BY <2>1, <2>2, Known, ThreadsKept, LocksKept
  <2> QED
    BY <2>3, <2>4, <2>5 DEF Inv, Bufs
<1>2. ASSUME NEW t \in Threads, NEW n \in Blknos, Bget(t, n) PROVE Inv'
  <2>1. CASE \E b \in Cached(n) : /\ buf' = [buf EXCEPT ![b].refcnt = @ + 1]
                                  /\ my' = [my EXCEPT ![t] = [Nothing EXCEPT !.b = b]]
    BY <1>2, <2>1, BgetCached DEF Bget
  <2>2. CASE /\ Cached(n) = {} /\ Unused # {}
             /\ buf' = [buf EXCEPT ![Recycled] = [@ EXCEPT !.blockno = n, !.valid = FALSE, !.refcnt = 1]]
             /\ my' = [my EXCEPT ![t] = [Nothing EXCEPT !.b = Recycled]]
    BY <1>2, <2>2, BgetRecycled DEF Bget
  <2> QED
    BY <1>2, <2>1, <2>2 DEF Bget
<1>3. ASSUME NEW t \in Threads, \/ \E v \in Vals : Modify(t, v)
                                \/ Acquiresleep(t) \/ Bwrite(t) \/ Bpin(t) \/ Bunpin(t) \/ Swap(t) \/ Releasesleep(t)
                                \/ Brelse(t) \/ VirtioDiskRw(t) \/ NoDesc(t) \/ Finish(t)
      PROVE  Inv'
  BY <1>3, ModifyStep, AcquiresleepStep, BwriteStep, BpinStep, BunpinStep, SwapStep, ReleasesleepStep,
     BrelseStep, VirtioDiskRwStep, NoDescStep, FinishStep
<1>4. CASE Device \/ IntrAck \/ IntrUsed \/ IntrEnd
  BY <1>4, DeviceStep, IntrUsedStep, IntrStep
<1> QED
  BY <1>1, <1>2, <1>3, <1>4 DEF DiskNext

\* Every state has the inductive invariant, for any number of threads, blocks and
\* buffers that satisfies DiskSizes.
THEOREM DiskInv == DiskSpec => []Inv
<1>1. DiskInit => Inv
  BY InitInv
<1>2. Inv /\ [DiskNext]_dvars => Inv'
  BY NextInv
<1> QED
  BY <1>1, <1>2, PTL DEF DiskSpec

-----------------------------------------------------------------------------
(* What the cache and the driver promise. *)

\* Who calls bget() has one buffer at most and every other thread two: with the
\* pinned ones they are fewer than BuffersSuffice asks for.
LEMMA OneIsUnused ==
  ASSUME Inv, BuffersSuffice, NEW t \in Threads, other[t] = 0
  PROVE  Unused # {}
<1> SUFFICES ASSUME Unused = {} PROVE FALSE
  OBVIOUS
<1>1. Types /\ Counts
  BY DEF Inv
<1> DEFINE Others == Threads \ {t}
           First == {my[s].b : s \in Threads}
           Second == {other[s] : s \in Others}
           Got == First \cup Second
           Pinned == {b \in Bufs : buf[b].blockno \in pins}
<1>2. \A b \in Bufs : buf[b].refcnt # 0
  BY <1>1 DEF Unused, Types
<1>3. Bufs \subseteq Got \cup Pinned
  <2>1. ASSUME NEW b \in Bufs, b \notin Got, b \notin Pinned PROVE FALSE
    <3>1. Users(b) = {}
      BY <2>1, Constants DEF Users
    <3>2. Cardinality(Users(b)) = 0 /\ Pin(b) = 0
      BY <2>1, <3>1, FS_EmptySet DEF Pin
    <3> QED
      BY <1>1, <1>2, <2>1, <3>2 DEF Counts
  <2> QED
    BY <2>1
<1>4. /\ IsFiniteSet(Others) /\ Cardinality(Others) = Cardinality(Threads) - 1
      /\ IsFiniteSet(Threads) /\ Cardinality(Threads) \in Nat
  BY Constants, FS_RemoveElement, FS_CardinalityType
<1>f. IsFiniteSet(First) /\ Cardinality(First) <= Cardinality(Threads)
  <2> DEFINE f == [s \in Threads |-> my[s].b]
  <2>1. f \in Surjection(Threads, First)
    BY DEF Surjection
  <2> QED
    BY <1>4, <2>1, FS_Surjection
<1>s. IsFiniteSet(Second) /\ Cardinality(Second) <= Cardinality(Others)
  <2> DEFINE f == [s \in Others |-> other[s]]
  <2>1. f \in Surjection(Others, Second)
    BY DEF Surjection
  <2> QED
    BY <1>4, <2>1, FS_Surjection
<1>5. IsFiniteSet(Got) /\ Cardinality(Got) <= 2 * Cardinality(Threads) - 1
  <2> HIDE DEF First, Second, Others
  <2>1. /\ IsFiniteSet(Got)
        /\ Cardinality(Got) = Cardinality(First) + Cardinality(Second) - Cardinality(First \cap Second)
    BY <1>f, <1>s, FS_Union
  <2>2. IsFiniteSet(First \cap Second)
    BY <1>f, FS_Subset
  <2>3. Cardinality(First) \in Nat /\ Cardinality(Second) \in Nat /\ Cardinality(First \cap Second) \in Nat
    BY <1>f, <1>s, <2>2, FS_CardinalityType
  <2> QED
    BY <1>4, <1>f, <1>s, <2>1, <2>3
<1>6. IsFiniteSet(Pinned) /\ Cardinality(Pinned) <= Cardinality(pins) /\ Cardinality(pins) <= MaxPins
      /\ Cardinality(pins) \in Nat
  <2> DEFINE f == [b \in Pinned |-> buf[b].blockno]
  <2>1. IsFiniteSet(pins) /\ Cardinality(pins) <= MaxPins /\ Cardinality(pins) \in Nat
    BY <1>1, FS_CardinalityType DEF Types
  <2>2. \A b, c \in Pinned : buf[b].blockno = buf[c].blockno => b = c
    BY <1>1, Constants DEF Counts, Types
  <2>3. f \in Injection(Pinned, pins)
    BY <2>2 DEF Injection, IsInjective
  <2> QED
    BY <2>1, <2>3, FS_Injection
<1>7. IsFiniteSet(Bufs) /\ Cardinality(Bufs) = NBUF
  <2>1. 1 \in Int /\ NBUF \in Int /\ NBUF >= 0
    BY DiskSizes
  <2> QED
    BY <2>1, FS_Interval DEF Bufs
<1> HIDE DEF Got, Pinned
<1>8. /\ IsFiniteSet(Got \cup Pinned)
      /\ Cardinality(Got \cup Pinned) = Cardinality(Got) + Cardinality(Pinned) - Cardinality(Got \cap Pinned)
  BY <1>5, <1>6, FS_Union
<1>9. Cardinality(Got) \in Nat /\ Cardinality(Pinned) \in Nat /\ Cardinality(Got \cap Pinned) \in Nat
  <2>1. IsFiniteSet(Got \cap Pinned)
    BY <1>5, FS_Subset
  <2> QED
    BY <1>5, <1>6, <2>1, FS_CardinalityType
<1>10. NBUF <= Cardinality(Got \cup Pinned)
  BY <1>3, <1>7, <1>8, FS_Subset
<1> QED
  BY <1>4, <1>5, <1>6, <1>8, <1>9, <1>10, DiskSizes DEF BuffersSuffice

\* The type of every state: bio.c, sleeplock.c and virtio_disk.c leave their
\* fields in range, and the list has every buffer.
THEOREM FieldsInRange == DiskSpec => []DiskTypeOK
<1>1. Inv => DiskTypeOK
  <2> SUFFICES ASSUME Inv PROVE DiskTypeOK
    OBVIOUS
  <2>1. Types /\ Counts
    BY DEF Inv
  <2>2. buf \in [Bufs -> [blockno : Blknos \cup {NoBlkno}, valid : BOOLEAN, refcnt : Nat, data : Vals,
                          disk : BOOLEAN, lock : Threads \cup {NoThread}]]
    <3>1. \A b \in Bufs : buf[b] \in Buffer /\ buf[b].refcnt \in Nat
      <4>1. \A b \in Bufs : Pin(b) \in {0, 1}
        BY DEF Pin
      <4>2. \A b \in Bufs : buf[b].refcnt = Cardinality(Users(b)) + Pin(b)
        BY <2>1 DEF Counts
      <4>3. \A b \in Bufs : Cardinality(Users(b)) + Pin(b) \in Nat
        BY <4>1, UsersFinite
      <4> QED
        BY <2>1, <4>2, <4>3 DEF Types
    <3>2. \A b \in Bufs : buf[b] \in [blockno : Blknos \cup {NoBlkno}, valid : BOOLEAN, refcnt : Nat,
                                      data : Vals, disk : BOOLEAN, lock : Threads \cup {NoThread}]
      BY <3>1 DEF Buffer
    <3> QED
      BY <2>1, <3>2 DEF Types
  <2>3. {lru[i] : i \in Bufs} = Bufs
    BY <2>1 DEF Types
  <2> QED
    BY <2>1, <2>2, <2>3 DEF DiskTypeOK, Types, Request, Places, Mine
<1> QED
  BY <1>1, DiskInv, PTL

\* A block is in one buffer at most, and b->refcnt counts the threads between
\* bget() and the end of brelse() and the pin, for any number of buffers.
THEOREM BlocksCachedOnce == DiskSpec => []BuffersCounted
<1>1. Inv => BuffersCounted
  BY DEF Inv, Counts, BuffersCounted, Users, Pin
<1> QED
  BY <1>1, DiskInv, PTL

\* With as many buffers as BuffersSuffice asks for, no call of bget() comes to
\* panic("bget: no buffers").  NBUF and NPROC of param.h are not such numbers.
THEOREM BuffersAreFound == BuffersSuffice => (DiskSpec => []BuffersFound)
<1> SUFFICES ASSUME BuffersSuffice PROVE DiskSpec => []BuffersFound
  OBVIOUS
<1>1. Inv => BuffersFound
  <2> SUFFICES ASSUME Inv, NEW t \in Threads, NEW n \in Blknos, MayGet(t, n) PROVE Unused # {}
    BY DEF BuffersFound
  <2>1. other[t] = 0
    BY Known DEF MayGet
  <2> QED
    BY <2>1, OneIsUnused
<1> QED
  BY <1>1, DiskInv, PTL

\* The descriptors that are not free are those of the requests under way, the
\* device works only on a buffer whose lock the thread that waits for it has,
\* and no sleeper and no request that is done is overlooked.
THEOREM RequestsOwned == DiskSpec => []ChainsOwned
<1>1. Inv => ChainsOwned
  <2> SUFFICES ASSUME Inv PROVE ChainsOwned
    OBVIOUS
  <2>1. Types /\ Chains /\ Requests /\ Awaited
    BY DEF Inv
  <2>2. freeDescs = Descs \ UNION {my[t].idx : t \in Threads}
    <3>1. freeDescs \subseteq Descs
      BY <2>1 DEF Types
    <3> QED
      BY <2>1, <3>1 DEF Chains
  <2>3. ToSet(used) \subseteq Pending
    BY <2>1 DEF ToSet, Pending, Types
  <2>4. \A d \in avail \cup ToSet(used) : \E t \in Threads : Serves(t, d)
    BY <2>1, <2>3 DEF Requests, Pending
  <2> QED
    BY <2>1, <2>2, <2>4 DEF ChainsOwned, Chains, Awaited, Serves
<1> QED
  BY <1>1, DiskInv, PTL

-----------------------------------------------------------------------------
(* The buffer cache, the sleep locks and the disk driver are together a      *)
(* store of blocks: every step of theirs, the device and its interrupt among *)
(* them, is one of BlockStore or changes nothing it shows.                   *)

\* In virtio_disk_rw().
Waiting == {"rw", "nodesc", "io"}

\* A buffer is read before it is used and written only when it is valid; the
\* device has the direction of the request, and what it has read is the block.
Fresh(t) ==
  /\ at[t] \in Waiting => (buf[my[t].b].valid <=> my[t].write)
  /\ at[t] = "have" => buf[my[t].b].valid
  /\ other[t] # 0 => buf[other[t]].valid
  /\ at[t] \notin Waiting => ~my[t].write
  /\ at[t] = "io" =>
       /\ info[Lead(my[t].idx)].write <=> my[t].write
       /\ ~my[t].write /\ Lead(my[t].idx) \notin avail =>
            buf[my[t].b].data = stored[buf[my[t].b].blockno]

RefInv == Inv /\ \A t \in Threads : Fresh(t)

\* What is seen of the store.
content == [n \in Blknos |-> IF Has(n) = {} THEN stored[n] ELSE buf[CHOOSE b \in Has(n) : TRUE].data]
held == {<<buf[b].blockno, buf[b].lock>> : b \in {b \in Bufs : buf[b].lock # NoThread}}
seen == <<held, content, stored, pins>>

\* The step leaves of every buffer what is seen of it.
Alike == \A b \in Bufs : /\ buf'[b].blockno = buf[b].blockno /\ buf'[b].valid = buf[b].valid
                         /\ buf'[b].data = buf[b].data /\ buf'[b].lock = buf[b].lock

-----------------------------------------------------------------------------
(* Blocks and their buffers. *)

LEMMA HeldIs ==
  \A x : x \in held <=> \E b \in Bufs : buf[b].lock # NoThread /\ x = <<buf[b].blockno, buf[b].lock>>
BY DEF held

LEMMA ContentIs ==
  ASSUME Counts, NEW n \in Blknos
  PROVE  /\ (\A b \in Bufs : buf[b].blockno = n => ~buf[b].valid) => content[n] = stored[n]
         /\ \A b \in Bufs : buf[b].blockno = n /\ buf[b].valid => content[n] = buf[b].data
<1>1. content[n] = IF Has(n) = {} THEN stored[n] ELSE buf[CHOOSE b \in Has(n) : TRUE].data
  BY DEF content
<1>2. ASSUME \A b \in Bufs : buf[b].blockno = n => ~buf[b].valid PROVE Has(n) = {}
  BY <1>2 DEF Has, Cached
<1>3. ASSUME NEW b \in Bufs, buf[b].blockno = n, buf[b].valid PROVE Has(n) = {b}
  BY <1>3, Constants DEF Has, Cached, Counts
<1>4. ASSUME NEW b \in Bufs, Has(n) = {b} PROVE (CHOOSE c \in Has(n) : TRUE) = b
  BY <1>4
<1> QED
  BY <1>1, <1>2, <1>3, <1>4

\* The same for the state after a step.
Shows(n) ==
  /\ (\A b \in Bufs : buf[b].blockno = n => ~buf[b].valid) => content[n] = stored[n]
  /\ \A b \in Bufs : buf[b].blockno = n /\ buf[b].valid => content[n] = buf[b].data

Showing == Counts => \A n \in Blknos : Shows(n)

LEMMA ContentShows == Showing
BY ContentIs DEF Shows, Showing

LEMMA ContentNext ==
  ASSUME Counts'
  PROVE  \A n \in Blknos :
           /\ (\A b \in Bufs : buf'[b].blockno = n => ~buf'[b].valid) => content'[n] = stored'[n]
           /\ \A b \in Bufs : buf'[b].blockno = n /\ buf'[b].valid => content'[n] = buf'[b].data
<1>1. Showing'
  BY ContentShows, PTL
<1> QED
  BY <1>1 DEF Showing, Shows, Bufs

\* A step that leaves the buffer of a block leaves its content.
LEMMA ContentAt ==
  ASSUME Counts, Counts', NEW n \in Blknos, stored'[n] = stored[n],
         \A b \in Bufs : (buf'[b].blockno = n \/ buf[b].blockno = n) =>
           buf'[b].blockno = buf[b].blockno /\ buf'[b].valid = buf[b].valid /\ buf'[b].data = buf[b].data
  PROVE  content'[n] = content[n]
<1>1. CASE \A b \in Bufs : buf[b].blockno = n => ~buf[b].valid
  <2>1. \A b \in Bufs : buf'[b].blockno = n => ~buf'[b].valid
    BY <1>1
  <2> QED
    BY <1>1, <2>1, ContentIs, ContentNext
<1>2. CASE \E b \in Bufs : buf[b].blockno = n /\ buf[b].valid
  <2>1. PICK b \in Bufs : buf[b].blockno = n /\ buf[b].valid
    BY <1>2
  <2>2. content[n] = buf[b].data
    BY <2>1, ContentIs
  <2>3. content'[n] = buf'[b].data
    BY <2>1, ContentNext
  <2> QED
    BY <2>1, <2>2, <2>3
<1> QED
  BY <1>1, <1>2

LEMMA ContentSame ==
  ASSUME Counts, Counts', stored' = stored,
         \A b \in Bufs : buf'[b].valid = buf[b].valid /\ buf'[b].data = buf[b].data /\ buf'[b].blockno = buf[b].blockno
  PROVE  content' = content
<1>1. \A n \in Blknos : content'[n] = content[n]
  BY ContentAt
<1>2. content = [n \in Blknos |-> content[n]] /\ content' = [n \in Blknos |-> content'[n]]
  BY DEF content
<1> QED
  BY <1>1, <1>2

LEMMA HeldSame ==
  ASSUME \A b \in Bufs : buf'[b].lock = buf[b].lock /\ buf'[b].blockno = buf[b].blockno
  PROVE  held' = held
BY DEF held, Bufs

\* A step that leaves the buffers alike, the disk and the pins is not seen.
LEMMA Unseen ==
  ASSUME Alike, stored' = stored
  PROVE  held' = held /\ content' = content
<1>1. held' = held
  BY DEF Alike, held, Bufs
<1>2. \A n \in Blknos : Has(n)' = Has(n)
  BY DEF Alike, Has, Cached, Bufs
<1>3. ASSUME NEW n \in Blknos PROVE content'[n] = content[n]
  <2> DEFINE b == CHOOSE b \in Has(n) : TRUE
  <2>1. CASE Has(n) = {}
    BY <1>2, <2>1 DEF content
  <2>2. CASE Has(n) # {}
    <3>1. b \in Has(n) /\ b \in Bufs
      BY <2>2 DEF Has, Cached
    <3>2. content[n] = buf[b].data /\ content'[n] = buf'[b].data
      BY <1>2, <2>2 DEF content
    <3> QED
      BY <3>1, <3>2 DEF Alike
  <2> QED
    BY <2>1, <2>2
<1>4. content = [n \in Blknos |-> content[n]] /\ content' = [n \in Blknos |-> content'[n]]
  BY DEF content
<1> QED
  BY <1>1, <1>3, <1>4

\* The content of one block changes.
LEMMA ContentSet ==
  ASSUME NEW n \in Blknos, NEW v, content'[n] = v, \A m \in Blknos \ {n} : content'[m] = content[m]
  PROVE  content' = [content EXCEPT ![n] = v]
<1>1. content = [m \in Blknos |-> content[m]] /\ content' = [m \in Blknos |-> content'[m]]
  BY DEF content
<1> QED
  BY <1>1

\* Who has got a buffer has got a block.
LEMMA BlockOf ==
  ASSUME Inv, NEW t \in Threads, my[t].b # 0
  PROVE  my[t].b \in Bufs /\ buf[my[t].b].blockno \in Blknos
<1>1. my[t].b \in Bufs /\ Types /\ Counts
  BY Known DEF Inv
<1>2. buf[my[t].b] \in Buffer
  BY <1>1 DEF Types
<1>3. buf[my[t].b].blockno \in Blknos \cup {NoBlkno}
  BY <1>2 DEF Buffer
<1> QED
  BY <1>1, <1>3 DEF Counts

\* What the other threads keep.
LEMMA FreshKept ==
  ASSUME NEW s \in Threads, Fresh(s), my'[s] = my[s], other'[s] = other[s], ThreadAt(s),
         at'[s] = at[s] \/ (at[s] = "nodesc" /\ at'[s] = "rw"),
         at[s] \in Locked =>
           /\ buf'[my[s].b].valid = buf[my[s].b].valid
           /\ at[s] = "io" /\ ~my[s].write /\ Lead(my[s].idx) \notin avail' =>
                /\ Lead(my[s].idx) \notin avail /\ buf'[my[s].b].data = buf[my[s].b].data
                /\ stored'[buf'[my[s].b].blockno] = stored[buf[my[s].b].blockno],
         other[s] # 0 /\ buf[other[s]].valid => buf'[other[s]].valid,
         at[s] = "io" => info'[Lead(my[s].idx)].write = info[Lead(my[s].idx)].write
  PROVE  Fresh(s)'
<1>1. Lead(my[s].idx)' = Lead(my[s].idx)
  BY DEF Lead, Min
<1> QED
  BY <1>1 DEF Fresh, Waiting, Locked

\* The steps that neither change a buffer nor the disk.
LEMMA FreshQuiet ==
  ASSUME RefInv, Alike, UNCHANGED <<stored, avail, info>>, NEW s \in Threads, my'[s] = my[s], other'[s] = other[s],
         at'[s] = at[s] \/ (at[s] = "nodesc" /\ at'[s] = "rw")
  PROVE  Fresh(s)'
<1>1. Fresh(s) /\ ThreadAt(s) /\ (at[s] \in Locked => my[s].b \in Bufs) /\ other[s] \in Bufs \cup {0}
  BY Known DEF RefInv, Inv, Locked
<1> QED
  BY <1>1, FreshKept DEF Alike

-----------------------------------------------------------------------------
(* Steps that are not seen. *)

LEMMA BgetCachedUnseen ==
  ASSUME RefInv, NEW t \in Threads, NEW n \in Blknos, NEW b \in Cached(n), MayGet(t, n), other' = [other EXCEPT ![t] = my[t].b],
         buf' = [buf EXCEPT ![b].refcnt = @ + 1], my' = [my EXCEPT ![t] = [Nothing EXCEPT !.b = b]],
         Moves(t, "lock"), UNCHANGED <<lru, pins, driver>>
  PROVE  (\A s \in Threads : Fresh(s)') /\ UNCHANGED seen
<1>1. Types /\ b \in Bufs
  BY DEF RefInv, Inv, Cached
<1>2. Alike
  <2>1. buf' = [buf EXCEPT ![b].refcnt = buf[b].refcnt + 1]
    OBVIOUS
  <2>2. buf[b].refcnt + 1 \in Int
    BY <1>1 DEF Types, Buffer
  <2> QED
    BY <1>1, <2>1, <2>2, SetRefcnt DEF Alike
<1>a. other[t] = 0 /\ (\A s \in Threads \ {t} : other'[s] = other[s]) /\ other'[t] = my[t].b
      /\ (my[t].b # 0 => at[t] = "have" /\ my[t].b \in Bufs)
  BY Asker DEF RefInv
<1>3. (\A s \in Threads \ {t} : my'[s] = my[s]) /\ ~my'[t].write
  BY <1>1, SetMine
<1>4. at'[t] = "lock" /\ \A s \in Threads \ {t} : at'[s] = at[s]
  BY <1>1, Moved DEF Places
<1>5. UNCHANGED <<pins, avail, info, stored>>
  BY DEF driver
<1>6. ASSUME NEW s \in Threads, s # t PROVE Fresh(s)'
  BY <1>2, <1>3, <1>4, <1>5, <1>6, <1>a, FreshQuiet
<1>7. Fresh(t)'
  BY <1>2, <1>3, <1>4, <1>a DEF RefInv, Alike, Fresh, Waiting
<1> QED
  BY <1>2, <1>5, <1>6, <1>7, Unseen DEF seen

LEMMA BrelseUnseen ==
  ASSUME RefInv, NEW t \in Threads, Brelse(t)
  PROVE  (\A s \in Threads : Fresh(s)') /\ UNCHANGED seen
<1>1. Types /\ Inv
  BY DEF RefInv, Inv
<1>b. PICK b \in Bufs : b = my[t].b
  BY <1>1, Known DEF Brelse
<1>o. PICK o \in Bufs \cup {0} : o = other[t]
  BY <1>1, Known
<1>2. Alike
  <2>1. buf' = [buf EXCEPT ![b].refcnt = buf[b].refcnt - 1]
    BY <1>b DEF Brelse
  <2>2. buf[b].refcnt - 1 \in Int
    BY <1>1 DEF Types, Buffer
  <2> QED
    BY <1>1, <2>1, <2>2, SetRefcnt DEF Alike
<1>3. (\A s \in Threads \ {t} : my'[s] = my[s]) /\ my'[t].b = o /\ ~my'[t].write
  <2>1. my' = [my EXCEPT ![t] = [Nothing EXCEPT !.b = o]]
    BY <1>o DEF Brelse
  <2> QED
    BY <1>1, <2>1, SetMine
<1>4. at'[t] \in {"idle", "have"} /\ (o = 0 => at'[t] = "idle") /\ \A s \in Threads \ {t} : at'[s] = at[s]
  <2>1. (IF o = 0 THEN "idle" ELSE "have") \in Places /\ Moves(t, IF o = 0 THEN "idle" ELSE "have")
    BY <1>o DEF Brelse, Places
  <2> QED
    BY <1>1, <2>1, Moved
<1>a. other'[t] = 0 /\ \A s \in Threads \ {t} : other'[s] = other[s]
  BY <1>1 DEF Brelse, Types
<1>5. UNCHANGED <<pins, avail, info, stored>>
  BY DEF Brelse, driver
<1>6. ASSUME NEW s \in Threads, s # t PROVE Fresh(s)'
  BY <1>2, <1>3, <1>4, <1>5, <1>6, <1>a, FreshQuiet
<1>7. Fresh(t)'
  <2>1. o # 0 => buf'[o].valid
    BY <1>2, <1>o DEF RefInv, Fresh, Alike
  <2> QED
    BY <1>3, <1>4, <1>a, <2>1 DEF Fresh, Waiting
<1> QED
  BY <1>2, <1>5, <1>6, <1>7, Unseen DEF seen

LEMMA SwapUnseen ==
  ASSUME RefInv, NEW t \in Threads, Swap(t)
  PROVE  (\A s \in Threads : Fresh(s)') /\ UNCHANGED seen
<1>1. Types /\ Inv /\ Fresh(t)
  BY DEF RefInv, Inv
<1>2. Alike /\ UNCHANGED <<buf, pins, avail, info, stored, at>> /\ at[t] = "have" /\ other[t] # 0
  BY DEF Alike, Swap, driver
<1>3. /\ (\A s \in Threads \ {t} : my'[s] = my[s] /\ other'[s] = other[s])
      /\ my'[t].b = other[t] /\ my'[t].write = my[t].write /\ other'[t] = my[t].b
  BY <1>1, Known, Swapped DEF Swap
<1>4. ASSUME NEW s \in Threads, s # t PROVE Fresh(s)'
  BY <1>2, <1>3, <1>4, FreshQuiet
<1>5. Fresh(t)'
  BY <1>1, <1>2, <1>3 DEF Fresh, Waiting
<1> QED
  BY <1>2, <1>4, <1>5, Unseen DEF seen

LEMMA BwriteUnseen ==
  ASSUME RefInv, NEW t \in Threads, Bwrite(t)
  PROVE  (\A s \in Threads : Fresh(s)') /\ UNCHANGED seen
<1>1. Types /\ Fresh(t)
  BY DEF RefInv, Inv
<1>2. Alike /\ UNCHANGED <<buf, pins, avail, info, stored, other>> /\ at[t] = "have"
  BY DEF Alike, Bwrite, driver
<1>3. (\A s \in Threads \ {t} : my'[s] = my[s]) /\ my'[t].write /\ my'[t].b = my[t].b
  BY <1>1, SetWrite DEF Bwrite
<1>4. at'[t] = "rw" /\ \A s \in Threads \ {t} : at'[s] = at[s]
  BY <1>1, Moved DEF Bwrite, Places
<1>5. ASSUME NEW s \in Threads, s # t PROVE Fresh(s)'
  BY <1>2, <1>3, <1>4, <1>5, FreshQuiet
<1>6. Fresh(t)'
  BY <1>1, <1>2, <1>3, <1>4 DEF Fresh, Waiting
<1> QED
  BY <1>2, <1>5, <1>6, Unseen DEF seen

LEMMA VirtioDiskRwUnseen ==
  ASSUME RefInv, NEW t \in Threads, VirtioDiskRw(t)
  PROVE  (\A s \in Threads : Fresh(s)') /\ UNCHANGED seen
<1>1. Types /\ Chains /\ Inv /\ (\A s \in Threads : ThreadAt(s)) /\ \A s \in Threads : Fresh(s)
  BY DEF RefInv, Inv
<1>0. at[t] = "rw"
  BY DEF VirtioDiskRw
<1>b. PICK b \in Bufs : b = my[t].b
  BY <1>0, <1>1, Known
<1>d. PICK D, d : D = Three /\ d = Lead(Three)
  OBVIOUS
<1>2. D \subseteq freeDescs /\ d \in D /\ d \in Descs /\ D \subseteq Descs /\ d = Lead(D)
  BY <1>1, <1>d, ThreeFree DEF VirtioDiskRw, Types
<1>3. Alike
  BY <1>1, <1>b, DiskOn DEF VirtioDiskRw, Alike
<1>4. /\ (\A s \in Threads \ {t} : my'[s] = my[s])
      /\ my'[t].b = b /\ my'[t].idx = D /\ my'[t].write = my[t].write
  BY <1>1, <1>2, <1>b, <1>d, SetIdx DEF VirtioDiskRw
<1>5. at'[t] = "io" /\ \A s \in Threads \ {t} : at'[s] = at[s]
  BY <1>1, Moved DEF VirtioDiskRw, Places
<1>6. pins' = pins /\ stored' = stored /\ other' = other /\ avail' = avail \cup {d}
  BY <1>d DEF VirtioDiskRw
<1>7. info'[d].write = my[t].write /\ \A e \in Descs \ {d} : info'[e] = info[e]
  <2>1. info \in [Descs -> Request]
    BY <1>1 DEF Types
  <2>2. info' = [info EXCEPT ![d] = [b |-> b, write |-> my[t].write]]
    BY <1>b, <1>d DEF VirtioDiskRw
  <2> QED
    BY <1>2, <2>1, <2>2
<1>8. ASSUME NEW s \in Threads, s # t PROVE Fresh(s)'
  <2>1. at[s] = "io" => Lead(my[s].idx) \in Descs \ {d}
    <3>1. at[s] = "io" => Lead(my[s].idx) \in my[s].idx /\ my[s].idx \subseteq Descs
      BY <1>1, Known DEF ThreadAt
    <3>2. my[s].idx \subseteq Descs /\ d \in freeDescs
      BY <1>1, <1>2, Known
    <3>3. d \notin my[s].idx
      BY <1>1, <1>2, <3>2 DEF Chains
    <3> QED
      BY <3>1, <3>3
  <2>2. (at[s] \in Locked => my[s].b \in Bufs) /\ other[s] \in Bufs \cup {0}
    BY <1>1, Known DEF Locked
  <2> QED
    BY <1>1, <1>3, <1>4, <1>5, <1>6, <1>7, <1>8, <2>1, <2>2, FreshKept DEF Alike
<1>9. Fresh(t)'
  <2>1. Lead(my[t].idx)' = d
    BY <1>2, <1>4 DEF Lead, Min
  <2>2. buf[b].valid <=> my[t].write
    BY <1>0, <1>1, <1>b DEF Fresh, Waiting
  <2>3. buf'[my'[t].b].valid <=> my'[t].write
    BY <1>3, <1>4, <2>2 DEF Alike
  <2>4. info'[Lead(my[t].idx)'].write <=> my'[t].write
    BY <1>4, <1>7, <2>1
  <2>5. other'[t] # 0 => buf'[other'[t]].valid
    BY <1>1, <1>3, <1>6, Known DEF Fresh, Alike
  <2> QED
    BY <1>5, <1>6, <2>1, <2>3, <2>4, <2>5 DEF Fresh, Waiting
<1> QED
  BY <1>3, <1>6, <1>8, <1>9, Unseen DEF seen

LEMMA NoDescUnseen ==
  ASSUME RefInv, NEW t \in Threads, NoDesc(t)
  PROVE  (\A s \in Threads : Fresh(s)') /\ UNCHANGED seen
<1>1. Types /\ Fresh(t)
  BY DEF RefInv, Inv
<1>2. Alike /\ UNCHANGED <<buf, pins, avail, info, stored, my, other>> /\ at[t] = "rw"
  BY DEF Alike, NoDesc, driver
<1>3. /\ at'[t] = "nodesc"
      /\ \A s \in Threads \ {t} : at'[s] = at[s] \/ (at[s] = "nodesc" /\ at'[s] = "rw")
  BY <1>1, Retried DEF NoDesc, Places
<1>4. ASSUME NEW s \in Threads, s # t PROVE Fresh(s)'
  BY <1>2, <1>3, <1>4, FreshQuiet
<1>5. Fresh(t)'
  BY <1>1, <1>2, <1>3 DEF Fresh, Waiting
<1> QED
  BY <1>2, <1>4, <1>5, Unseen DEF seen

LEMMA IntrUnseen ==
  ASSUME RefInv, IntrAck \/ IntrUsed \/ IntrEnd
  PROVE  (\A s \in Threads : Fresh(s)') /\ UNCHANGED seen
<1>1. Types /\ Requests /\ Inv
  BY DEF RefInv, Inv
<1>2. UNCHANGED <<pins, avail, info, stored, my, at, other>>
  BY DEF IntrAck, IntrUsed, IntrEnd
<1>3. Alike
  <2>1. CASE IntrAck \/ IntrEnd
    BY <2>1 DEF IntrAck, IntrEnd, Alike
  <2>2. CASE IntrUsed
    <3>1. used[1] = Head(used) /\ Len(used) >= 1 /\ Len(used) \in Nat
      BY <1>1, <2>2 DEF Types, IntrUsed
    <3>2. used[1] \in Pending
      BY <3>1 DEF Pending
    <3>3. PICK t \in Threads : Serves(t, used[1]) /\ my[t].b \in Bufs
      BY <1>1, <3>2, ServedBy
    <3>4. PICK b \in Bufs : b = info[used[1]].b
      BY <3>3 DEF Serves
    <3>5. buf' = [buf EXCEPT ![b].disk = FALSE]
      BY <2>2, <3>1, <3>4 DEF IntrUsed
    <3> QED
      BY <1>1, <3>5, DiskOff DEF Alike
  <2> QED
    BY <2>1, <2>2
<1>4. ASSUME NEW s \in Threads PROVE Fresh(s)'
  BY <1>2, <1>3, FreshQuiet
<1> QED
  BY <1>2, <1>3, <1>4, Unseen DEF seen

-----------------------------------------------------------------------------
(* Steps that are seen. *)

\* bget() takes a buffer for another block: the block it had is forgotten.
LEMMA BgetRecycledSeen ==
  ASSUME RefInv, NEW t \in Threads, NEW n \in Blknos, Cached(n) = {}, Unused # {}, MayGet(t, n), other' = [other EXCEPT ![t] = my[t].b],
         buf' = [buf EXCEPT ![Recycled] = [@ EXCEPT !.blockno = n, !.valid = FALSE, !.refcnt = 1]],
         my' = [my EXCEPT ![t] = [Nothing EXCEPT !.b = Recycled]],
         Moves(t, "lock"), UNCHANGED <<lru, pins, driver>>
  PROVE  (\A s \in Threads : Fresh(s)') /\ (UNCHANGED seen \/ \E m \in Blknos : Store!Forget(m))
<1>1. /\ Types /\ Counts /\ Inv /\ (\A s \in Threads : ThreadAt(s)) /\ (\A c \in Bufs : LockOf(c))
      /\ \A s \in Threads : Fresh(s)
  BY DEF RefInv, Inv
<1>b. PICK b \in Bufs : b = Recycled /\ buf[b].refcnt = 0
  <2>1. Max(Unused) \in Unused
    BY Greatest DEF Unused
  <2> QED
    BY <1>1, <2>1 DEF Unused, Recycled, Types
<1>m. PICK m : m = buf[b].blockno
  OBVIOUS
<1>2. /\ \A c \in Bufs : buf[c].blockno # n
      /\ UNCHANGED <<pins, info, avail, stored>>
  BY DEF Cached, driver
<1>3. m \notin pins /\ \A s \in Threads : my[s].b # b /\ other[s] # b
  <2>1. Pin(b) \in {0, 1} /\ Cardinality(Users(b)) + Pin(b) = 0
    BY <1>1, <1>b DEF Counts, Pin
  <2>2. Pin(b) = 0 /\ Cardinality(Users(b)) = 0
    BY <2>1, UsersFinite
  <2>3. Users(b) = {}
    BY <2>2, UsersFinite, FS_EmptySet
  <2> QED
    BY <1>m, <2>2, <2>3 DEF Users, Pin
<1>4. buf[b] \in Buffer /\ buf[b].lock = NoThread
  <2>1. buf[b] \in Buffer
    BY <1>1, <1>b DEF Types
  <2>2. buf[b].lock \notin Threads
    BY <1>1, <1>b, <1>3 DEF LockOf, Holds
  <2> QED
    BY <2>1, <2>2 DEF Buffer
<1>a. other[t] = 0 /\ (\A s \in Threads \ {t} : other'[s] = other[s]) /\ other'[t] = my[t].b
      /\ my[t].b \in (Bufs \ {b}) \cup {0} /\ (my[t].b # 0 => at[t] = "have")
  BY <1>1, <1>3, Asker
<1>5. /\ (\A c \in Bufs \ {b} : buf'[c] = buf[c])
      /\ buf'[b].blockno = n /\ ~buf'[b].valid /\ buf'[b].lock = buf[b].lock
  BY <1>1, <1>b, SetBlock
<1>6. (\A s \in Threads \ {t} : my'[s] = my[s]) /\ ~my'[t].write
  BY <1>1, <1>b, SetMine
<1>7. at'[t] = "lock" /\ \A s \in Threads \ {t} : at'[s] = at[s]
  BY <1>1, Moved DEF Places
<1>8. \A s \in Threads : Fresh(s)'
  <2>1. ASSUME NEW s \in Threads, s # t PROVE Fresh(s)'
    <3>1. (at[s] \in Locked => my[s].b \in Bufs \ {b}) /\ other[s] \in (Bufs \ {b}) \cup {0}
      BY <1>1, <1>3, Known DEF Locked
    <3> QED
      BY <1>1, <1>2, <1>5, <1>6, <1>7, <1>a, <2>1, <3>1, FreshKept
  <2>2. Fresh(t)'
    BY <1>1, <1>5, <1>6, <1>7, <1>a DEF Fresh, Waiting
  <2> QED
    BY <2>1, <2>2
<1>9. held' = held
  <2>1. \A c \in Bufs : buf'[c].lock = buf[c].lock /\ (c # b => buf'[c].blockno = buf[c].blockno)
    BY <1>5
  <2>2. \A x : x \in held' <=> \E c \in Bufs : buf'[c].lock # NoThread /\ x = <<buf'[c].blockno, buf'[c].lock>>
    BY DEF held, Bufs
  <2>3. \A x : x \in held' <=> x \in held
    BY <1>4, <2>1, <2>2, HeldIs
  <2> QED
    BY <2>3 DEF held
<1>10. Counts'
  BY <1>1, BgetRecycled DEF Inv
<1>11. \A k \in Blknos : /\ k # m => content'[k] = content[k]
                         /\ k = m => content'[k] = stored[k]
  <2>1. \A k \in Blknos : (\A c \in Bufs : buf'[c].blockno = k => ~buf'[c].valid) => content'[k] = stored[k]
    BY <1>2, <1>10, ContentNext
  <2>2. \A k \in Blknos : \A c \in Bufs : buf'[c].blockno = k /\ buf'[c].valid => content'[k] = buf'[c].data
    BY <1>10, ContentNext
  <2>3. ASSUME NEW k \in Blknos, k # m PROVE content'[k] = content[k]
    <3>1. CASE \A c \in Bufs : buf[c].blockno = k => ~buf[c].valid
      BY <1>1, <1>5, <2>1, <3>1, ContentIs
    <3>2. CASE \E c \in Bufs : buf[c].blockno = k /\ buf[c].valid
      <4>1. PICK c \in Bufs : buf[c].blockno = k /\ buf[c].valid
        BY <3>2
      <4>2. c # b /\ buf'[c] = buf[c]
        BY <1>m, <1>5, <2>3, <4>1
      <4>3. content[k] = buf[c].data
        BY <1>1, <2>3, <4>1, ContentIs
      <4>4. content'[k] = buf'[c].data
        BY <2>2, <2>3, <4>1, <4>2
      <4> QED
        BY <4>2, <4>3, <4>4
    <3> QED
      BY <3>1, <3>2
  <2>4. ASSUME NEW k \in Blknos, k = m PROVE content'[k] = stored[k]
    <3>1. \A c \in Bufs \ {b} : buf[c].blockno # k
      BY <1>1, <1>m, <2>4, Constants DEF Counts
    <3> QED
      BY <1>5, <2>1, <3>1
  <2> QED
    BY <2>3, <2>4
<1>12. content = [k \in Blknos |-> content[k]] /\ content' = [k \in Blknos |-> content'[k]]
  BY DEF content
<1>13. CASE m \in Blknos /\ content[m] # stored[m]
  <2>1. \A s \in Threads : <<m, s>> \notin held
    BY <1>1, <1>m, <1>4, <1>13, HeldIs, Constants DEF Counts
  <2>2. content' = [content EXCEPT ![m] = stored[m]]
    BY <1>11, <1>13, ContentSet
  <2>3. Store!Forget(m)
    BY <1>2, <1>3, <1>9, <1>13, <2>1, <2>2 DEF Store!Forget, Store!Free, content, held
  <2> QED
    BY <1>8, <1>13, <2>3
<1>14. CASE m \notin Blknos \/ content[m] = stored[m]
  <2>1. \A k \in Blknos : content'[k] = content[k]
    BY <1>11, <1>14
  <2> QED
    BY <1>2, <1>8, <1>9, <1>12, <2>1 DEF seen
<1> QED
  BY <1>13, <1>14

\* acquiresleep(): the thread holds the block.
LEMMA AcquiresleepSeen ==
  ASSUME RefInv, NEW t \in Threads, Acquiresleep(t)
  PROVE  (\A s \in Threads : Fresh(s)') /\ \E n \in Blknos : Store!Hold(n, t)
<1>1. Types /\ Counts /\ Inv /\ \A s \in Threads : Fresh(s) /\ ThreadAt(s)
  BY DEF RefInv, Inv
<1>0. at[t] = "lock" /\ UNCHANGED <<pins, avail, info, stored, my, other>>
  BY DEF Acquiresleep, driver
<1>b. PICK b \in Bufs : b = my[t].b
  BY <1>0, <1>1, Known
<1>n. PICK n \in Blknos : n = buf[b].blockno
  BY <1>1, <1>b, BlockOf, Constants
<1>2. buf[b].lock = NoThread
  BY <1>b DEF Acquiresleep
<1>3. /\ buf'[b].lock = t /\ (\A c \in Bufs \ {b} : buf'[c] = buf[c])
      /\ buf'[b].blockno = buf[b].blockno /\ buf'[b].valid = buf[b].valid /\ buf'[b].data = buf[b].data
  BY <1>1, <1>b, SetLock DEF Acquiresleep
<1>4. /\ \A s \in Threads \ {t} : at'[s] = at[s]
      /\ at'[t] = IF buf[b].valid THEN "have" ELSE "rw"
  BY <1>1, <1>b, Moved DEF Acquiresleep, Places
<1>5. \A s \in Threads : Fresh(s)'
  <2>1. ASSUME NEW s \in Threads, s # t PROVE Fresh(s)'
    <3>1. (at[s] \in Locked => my[s].b \in Bufs) /\ other[s] \in Bufs \cup {0}
      BY <1>1, Known DEF Locked
    <3>2. \A c \in Bufs : buf'[c].valid = buf[c].valid /\ buf'[c].data = buf[c].data /\ buf'[c].blockno = buf[c].blockno
      BY <1>3
    <3> QED
      BY <1>0, <1>1, <1>4, <2>1, <3>1, <3>2, FreshKept
  <2>2. Fresh(t)'
    BY Known, <1>0, <1>1, <1>b, <1>3, <1>4 DEF Fresh, Waiting
  <2> QED
    BY <2>1, <2>2
<1>6. content' = content
  <2>1. Counts'
    BY <1>1, AcquiresleepStep DEF Inv
  <2>2. \A c \in Bufs : buf'[c].valid = buf[c].valid /\ buf'[c].data = buf[c].data /\ buf'[c].blockno = buf[c].blockno
    BY <1>3
  <2> QED
    BY <1>0, <1>1, <2>1, <2>2, ContentSame
<1>7. \A s \in Threads : <<n, s>> \notin held
  <2>1. ASSUME NEW s \in Threads, <<n, s>> \in held PROVE FALSE
    <3>1. PICK c \in Bufs : buf[c].lock # NoThread /\ buf[c].blockno = n
      BY <2>1, HeldIs
    <3> QED
      BY <1>1, <1>n, <1>2, <3>1, Constants DEF Counts
  <2> QED
    BY <2>1
<1>8. held' = held \cup {<<n, t>>}
  <2>1. \A x : x \in held' <=> \E c \in Bufs : buf'[c].lock # NoThread /\ x = <<buf'[c].blockno, buf'[c].lock>>
    BY DEF held, Bufs
  <2>2. \A x : x \in held' <=> x \in held \/ x = <<n, t>>
    BY <1>n, <1>2, <1>3, <2>1, HeldIs, Constants
  <2> QED
    BY <2>2
<1>9. Store!Hold(n, t)
  BY <1>0, <1>6, <1>7, <1>8 DEF Store!Hold, Store!Free, content, held
<1> QED
  BY <1>5, <1>9

\* releasesleep(): it gives it back.
LEMMA ReleasesleepSeen ==
  ASSUME RefInv, NEW t \in Threads, Releasesleep(t)
  PROVE  (\A s \in Threads : Fresh(s)') /\ \E n \in Blknos : Store!Give(n, t)
<1>1. Types /\ Counts /\ Inv /\ \A s \in Threads : Fresh(s) /\ ThreadAt(s)
  BY DEF RefInv, Inv
<1>0. at[t] = "have" /\ UNCHANGED <<pins, avail, info, stored, my, other>>
  BY DEF Releasesleep, driver
<1>b. PICK b \in Bufs : b = my[t].b
  BY <1>0, <1>1, Known
<1>n. PICK n \in Blknos : n = buf[b].blockno
  BY <1>1, <1>b, BlockOf, Constants
<1>2. buf[b].lock = t
  BY <1>0, <1>1, <1>b, Known DEF Locked
<1>3. /\ buf'[b].lock = NoThread /\ (\A c \in Bufs \ {b} : buf'[c] = buf[c])
      /\ buf'[b].blockno = buf[b].blockno /\ buf'[b].valid = buf[b].valid /\ buf'[b].data = buf[b].data
  BY <1>1, <1>b, SetLock DEF Releasesleep
<1>4. at'[t] = "rel" /\ \A s \in Threads \ {t} : at'[s] = at[s]
  BY <1>1, Moved DEF Releasesleep, Places
<1>5. \A s \in Threads : Fresh(s)'
  <2>1. ASSUME NEW s \in Threads, s # t PROVE Fresh(s)'
    <3>1. (at[s] \in Locked => my[s].b \in Bufs) /\ other[s] \in Bufs \cup {0}
      BY <1>1, Known DEF Locked
    <3>2. \A c \in Bufs : buf'[c].valid = buf[c].valid /\ buf'[c].data = buf[c].data /\ buf'[c].blockno = buf[c].blockno
      BY <1>3
    <3> QED
      BY <1>0, <1>1, <1>4, <2>1, <3>1, <3>2, FreshKept
  <2>2. Fresh(t)'
    BY Known, <1>0, <1>1, <1>3, <1>4 DEF Fresh, Waiting
  <2> QED
    BY <2>1, <2>2
<1>6. content' = content
  <2>1. Counts'
    BY <1>1, ReleasesleepStep DEF Inv
  <2>2. \A c \in Bufs : buf'[c].valid = buf[c].valid /\ buf'[c].data = buf[c].data /\ buf'[c].blockno = buf[c].blockno
    BY <1>3
  <2> QED
    BY <1>0, <1>1, <2>1, <2>2, ContentSame
<1>7. held' = held \ {<<n, t>>}
  <2>1. \A x : x \in held' <=> \E c \in Bufs : buf'[c].lock # NoThread /\ x = <<buf'[c].blockno, buf'[c].lock>>
    BY DEF held, Bufs
  <2>2. \A c \in Bufs : <<buf[c].blockno, buf[c].lock>> = <<n, t>> => c = b
    BY <1>1, <1>n, Constants DEF Counts
  <2>3. \A x : x \in held' => x \in held /\ x # <<n, t>>
    BY <1>3, <2>1, <2>2, HeldIs
  <2>4. \A x : x \in held /\ x # <<n, t>> => x \in held'
    BY <1>n, <1>2, <1>3, <2>1, HeldIs
  <2> QED
    BY <2>3, <2>4
<1>8. Store!Give(n, t)
  BY <1>0, <1>6, <1>7 DEF Store!Give, content, held
<1> QED
  BY <1>5, <1>8

\* bpin() and bunpin(), by who holds the block.
LEMMA PinSeen ==
  ASSUME RefInv, NEW t \in Threads, Bpin(t) \/ Bunpin(t)
  PROVE  (\A s \in Threads : Fresh(s)') /\ \E n \in Blknos : Store!Pin(n)
<1>1. Types /\ Counts /\ Inv
  BY DEF RefInv, Inv
<1>0. at[t] = "have" /\ UNCHANGED <<avail, info, stored, at, my, other>>
  BY DEF Bpin, Bunpin, driver
<1>b. PICK b \in Bufs : b = my[t].b
  BY <1>0, <1>1, Known
<1>n. PICK n \in Blknos : n = buf[b].blockno
  BY <1>1, <1>b, BlockOf, Constants
<1>2. Alike
  <2>1. buf[b].refcnt \in Int /\ buf[b].refcnt + 1 \in Int /\ buf[b].refcnt - 1 \in Int
    BY <1>1 DEF Types, Buffer
  <2>2. CASE Bpin(t)
    <3>1. buf' = [buf EXCEPT ![b].refcnt = buf[b].refcnt + 1]
      BY <1>b, <2>2 DEF Bpin
    <3> QED
      BY <1>1, <2>1, <3>1, SetRefcnt DEF Alike
  <2>3. CASE Bunpin(t)
    <3>1. buf' = [buf EXCEPT ![b].refcnt = buf[b].refcnt - 1]
      BY <1>b, <2>3 DEF Bunpin
    <3> QED
      BY <1>1, <2>1, <3>1, SetRefcnt DEF Alike
  <2> QED
    BY <2>2, <2>3
<1>3. <<n, t>> \in held
  <2>1. buf[b].lock = t
    BY <1>0, <1>1, <1>b, Known DEF Locked
  <2> QED
    BY <1>n, <2>1, HeldIs, Constants
<1>4. pins' \in {pins \cup {n}, pins \ {n}}
  BY <1>b, <1>n DEF Bpin, Bunpin
<1>5. Store!Pin(n)
  BY <1>0, <1>2, <1>3, <1>4, Unseen DEF Store!Pin, Store!Free, content, held
<1>6. ASSUME NEW s \in Threads PROVE Fresh(s)'
  BY <1>0, <1>2, FreshQuiet
<1> QED
  BY <1>5, <1>6

\* The holder changes the block.
LEMMA ModifySeen ==
  ASSUME RefInv, NEW t \in Threads, NEW v \in Vals, Modify(t, v)
  PROVE  (\A s \in Threads : Fresh(s)') /\ \E n \in Blknos : Store!Change(n, v)
<1>1. Types /\ Counts /\ Inv /\ \A s \in Threads : Fresh(s) /\ ThreadAt(s)
  BY DEF RefInv, Inv
<1>0. at[t] = "have" /\ UNCHANGED <<pins, avail, info, stored, at, my, other>>
  BY DEF Modify, driver
<1>b. PICK b \in Bufs : b = my[t].b
  BY <1>0, <1>1, Known
<1>n. PICK n \in Blknos : n = buf[b].blockno
  BY <1>1, <1>b, BlockOf, Constants
<1>2. buf[b].lock = t /\ buf[b].valid
  BY <1>0, <1>1, <1>b, Known DEF Locked, Fresh
<1>3. /\ (\A c \in Bufs \ {b} : buf'[c] = buf[c]) /\ buf'[b].data = v
      /\ buf'[b].blockno = buf[b].blockno /\ buf'[b].valid = buf[b].valid /\ buf'[b].lock = buf[b].lock
  BY <1>1, <1>b, SetData DEF Modify
<1>4. ASSUME NEW s \in Threads PROVE Fresh(s)'
  <2>1. at[s] = "io" => my[s].b \in Bufs \ {b}
    BY <1>0, <1>1, <1>b, Known, Apart DEF Locked
  <2>2. (at[s] \in Locked => my[s].b \in Bufs) /\ other[s] \in Bufs \cup {0}
    BY <1>1, Known DEF Locked
  <2>3. \A c \in Bufs : buf'[c].valid = buf[c].valid /\ buf'[c].blockno = buf[c].blockno
    BY <1>3
  <2> QED
    BY <1>0, <1>1, <1>3, <2>1, <2>2, <2>3, FreshKept
<1>5. held' = held
  <2>1. \A c \in Bufs : buf'[c].lock = buf[c].lock /\ buf'[c].blockno = buf[c].blockno
    BY <1>3
  <2> QED
    BY <2>1, HeldSame
<1>6. content' = [content EXCEPT ![n] = v]
  <2>1. Counts'
    BY <1>1, ModifyStep DEF Inv
  <2>2. content'[n] = v
    BY <1>n, <1>2, <1>3, <2>1, ContentNext
  <2>3. ASSUME NEW m \in Blknos \ {n} PROVE content'[m] = content[m]
    <3>1. \A c \in Bufs : buf[c].blockno = m => buf'[c] = buf[c]
      BY <1>n, <1>3
    <3>2. \A c \in Bufs : buf'[c].blockno = m => buf'[c] = buf[c]
      BY <1>n, <1>3
    <3> QED
      BY <1>0, <1>1, <2>1, <3>1, <3>2, ContentAt
  <2> QED
    BY <2>2, <2>3, ContentSet
<1>7. <<n, t>> \in held
  BY <1>n, <1>2, HeldIs, Constants
<1>8. Store!Change(n, v)
  BY <1>0, <1>5, <1>6, <1>7 DEF Store!Change, Store!Free, content, held
<1> QED
  BY <1>4, <1>8

\* virtio_disk_rw() returns: what was read is the block, and nothing is seen.
LEMMA FinishUnseen ==
  ASSUME RefInv, NEW t \in Threads, Finish(t)
  PROVE  (\A s \in Threads : Fresh(s)') /\ UNCHANGED seen
<1>1. Types /\ Counts /\ Chains /\ Inv /\ \A s \in Threads : Fresh(s) /\ ThreadAt(s)
  BY DEF RefInv, Inv
<1>0. at[t] = "io" /\ ~buf[my[t].b].disk /\ UNCHANGED <<pins, avail, stored, other>>
  BY DEF Finish
<1>b. PICK b \in Bufs : b = my[t].b
  BY <1>0, <1>1, Known
<1>n. PICK n \in Blknos : n = buf[b].blockno
  BY <1>1, <1>b, BlockOf, Constants
<1>d. PICK d : d = Lead(my[t].idx)
  OBVIOUS
<1>2. d \in my[t].idx /\ d \in Descs
  BY <1>0, <1>1, <1>d, Known DEF ThreadAt
<1>3. d \notin avail
  <2>1. ASSUME d \in avail PROVE FALSE
    <3>1. PICK s \in Threads : Serves(s, d) /\ d \in my[s].idx
      BY <1>1, <2>1, ServedBy DEF Pending
    <3>2. s = t
      BY <1>1, <1>2, <3>1 DEF Chains
    <3> QED
      BY <1>0, <3>1, <3>2 DEF Serves
  <2> QED
    BY <2>1
<1>4. buf[b].valid \/ buf[b].data = stored[n]
  BY <1>0, <1>1, <1>b, <1>n, <1>d, <1>3 DEF Fresh, Waiting
<1>5. /\ (\A c \in Bufs \ {b} : buf'[c] = buf[c]) /\ buf'[b].valid
      /\ buf'[b].blockno = buf[b].blockno /\ buf'[b].data = buf[b].data /\ buf'[b].lock = buf[b].lock
  BY <1>1, <1>b, ValidOn DEF Finish
<1>6. (\A s \in Threads \ {t} : my'[s] = my[s]) /\ my'[t].b = b /\ ~my'[t].write
  BY <1>1, <1>b, SetMine DEF Finish
<1>7. /\ at'[t] = "have"
      /\ \A s \in Threads \ {t} : at'[s] = at[s] \/ (at[s] = "nodesc" /\ at'[s] = "rw")
  <2>1. Retry(t, "have", TRUE) /\ "have" \in Places
    BY DEF Finish, Places
  <2> QED
    BY <1>1, <2>1, Retried
<1>8. \A e \in Descs \ {d} : info'[e] = info[e]
  BY <1>1, <1>d DEF Finish, Types
<1>9. ASSUME NEW s \in Threads, s # t PROVE Fresh(s)'
  <2>1. (at[s] \in Locked => my[s].b \in Bufs \ {b}) /\ other[s] \in Bufs \cup {0}
    BY <1>0, <1>1, <1>b, <1>9, Known, Apart DEF Locked
  <2>2. at[s] = "io" => Lead(my[s].idx) \in Descs \ {d}
    BY <1>1, <1>2, <1>9, Known DEF ThreadAt, Chains
  <2> QED
    BY <1>0, <1>1, <1>5, <1>6, <1>7, <1>8, <1>9, <2>1, <2>2, FreshKept
<1>10. Fresh(t)'
  BY <1>0, <1>1, <1>5, <1>6, <1>7, Known DEF Fresh, Waiting
<1>11. held' = held
  <2>1. \A c \in Bufs : buf'[c].lock = buf[c].lock /\ buf'[c].blockno = buf[c].blockno
    BY <1>5
  <2> QED
    BY <2>1, HeldSame
<1>12. content' = content
  <2>1. Counts'
    BY <1>1, FinishStep DEF Inv
  <2>2. content'[n] = content[n]
    <3>1. content'[n] = buf[b].data
      BY <1>n, <1>5, <2>1, ContentNext
    <3>2. CASE buf[b].valid
      BY <1>1, <1>n, <3>1, <3>2, ContentIs
    <3>3. CASE ~buf[b].valid
      <4>1. \A c \in Bufs : buf[c].blockno = n => c = b
        BY <1>1, <1>n, Constants DEF Counts
      <4>2. content[n] = stored[n]
        BY <1>1, <3>3, <4>1, ContentIs
      <4> QED
        BY <1>4, <3>1, <3>3, <4>2
    <3> QED
      BY <3>2, <3>3
  <2>3. ASSUME NEW m \in Blknos \ {n} PROVE content'[m] = content[m]
    <3>1. \A c \in Bufs : (buf'[c].blockno = m \/ buf[c].blockno = m) => buf'[c] = buf[c]
      BY <1>n, <1>5
    <3> QED
      BY <1>0, <1>1, <2>1, <3>1, ContentAt
  <2>4. content = [k \in Blknos |-> content[k]] /\ content' = [k \in Blknos |-> content'[k]]
    BY DEF content
  <2> QED
    BY <2>2, <2>3, <2>4
<1> QED
  BY <1>0, <1>9, <1>10, <1>11, <1>12 DEF seen

\* The device writes the block that the thread holds, or reads into a buffer
\* that is not valid yet.
LEMMA DeviceSeen ==
  ASSUME RefInv, Device
  PROVE  (\A s \in Threads : Fresh(s)') /\ (UNCHANGED seen \/ \E n \in Blknos : Store!Save(n))
<1>1. Types /\ Counts /\ Chains /\ Inv /\ \A s \in Threads : Fresh(s) /\ ThreadAt(s)
  BY DEF RefInv, Inv
<1>d. PICK d \in avail :
        /\ IF info[d].write
           THEN stored' = [stored EXCEPT ![buf[info[d].b].blockno] = buf[info[d].b].data] /\ UNCHANGED buf
           ELSE buf' = [buf EXCEPT ![info[d].b].data = stored[buf[info[d].b].blockno]] /\ UNCHANGED stored
        /\ avail' = avail \ {d}
        /\ UNCHANGED <<pins, info, at, my, other>>
  BY DEF Device
<1>t. PICK t \in Threads : Serves(t, d) /\ d \in my[t].idx /\ my[t].b \in Bufs
  BY <1>1, ServedBy DEF Pending
<1>b. PICK b \in Bufs : b = my[t].b /\ b = info[d].b
  BY <1>t DEF Serves
<1>n. PICK n \in Blknos : n = buf[b].blockno
  BY <1>1, <1>b, BlockOf, Constants
<1>2. /\ at[t] = "io" /\ d = Lead(my[t].idx) /\ buf[b].lock = t
      /\ (info[d].write <=> my[t].write) /\ (buf[b].valid <=> my[t].write)
  BY <1>1, <1>b, <1>t DEF Serves, Fresh, Waiting
<1>3. Counts'
  BY <1>1, DeviceStep DEF Inv
<1>4. \A c \in Bufs : buf[c].blockno = n => c = b
  BY <1>1, <1>n, Constants DEF Counts
<1>5. /\ \A c \in Bufs : /\ buf'[c].blockno = buf[c].blockno /\ buf'[c].valid = buf[c].valid
                         /\ buf'[c].lock = buf[c].lock /\ (c # b => buf'[c].data = buf[c].data)
      /\ \A m \in Blknos \ {n} : stored'[m] = stored[m]
      /\ info[d].write => stored' = [stored EXCEPT ![n] = buf[b].data] /\ buf'[b].data = buf[b].data
      /\ ~info[d].write => stored' = stored /\ buf'[b].data = stored[n]
  <2>1. stored \in [Blknos -> Vals]
    BY <1>1 DEF Types
  <2>2. CASE info[d].write
    BY <1>b, <1>d, <1>n, <2>1, <2>2
  <2>3. CASE ~info[d].write
    <3>1. buf' = [buf EXCEPT ![b].data = stored[n]] /\ stored' = stored
      BY <1>b, <1>d, <1>n, <2>3
    <3>2. stored[n] \in Vals
      BY <2>1
    <3> QED
      BY <1>1, <2>3, <3>1, <3>2, SetData
  <2> QED
    BY <2>2, <2>3
<1>6. ASSUME NEW s \in Threads, s # t PROVE Fresh(s)'
  <2>1. at[s] \in Locked => my[s].b \in Bufs \ {b} /\ buf[my[s].b].blockno \in Blknos \ {n}
    BY <1>1, <1>2, <1>4, <1>6, <1>b, Known, Apart, BlockOf, Constants DEF Locked
  <2>2. at[s] = "io" => Lead(my[s].idx) # d
    BY <1>1, <1>t, <1>6 DEF ThreadAt, Chains
  <2> QED
    BY <1>1, <1>d, <1>5, <2>1, <2>2, Known, FreshKept
<1>7. Fresh(t)'
  <2>1. Lead(my[t].idx)' = d
    BY <1>d, <1>2 DEF Lead, Min
  <2>2. my'[t] = my[t] /\ other'[t] = other[t] /\ at'[t] = "io" /\ info' = info
    BY <1>d, <1>2
  <2>5. other[t] # 0 => buf'[other[t]].valid
    BY <1>1, <1>5, Known DEF Fresh
  <2>3. ~my[t].write => buf'[b].data = stored'[n]
    BY <1>2, <1>5
  <2>4. buf'[b].valid = buf[b].valid /\ buf'[b].blockno = n
    BY <1>n, <1>5
  <2> QED
    BY <1>b, <1>2, <2>1, <2>2, <2>3, <2>4, <2>5 DEF Fresh, Waiting
<1>8. held' = held
  BY <1>5, HeldSame
<1>9. ASSUME NEW m \in Blknos \ {n} PROVE content'[m] = content[m]
  <2>1. \A c \in Bufs : (buf'[c].blockno = m \/ buf[c].blockno = m) => c # b
    BY <1>n, <1>5
  <2> QED
    BY <1>1, <1>3, <1>5, <2>1, ContentAt
<1>10. content'[n] = content[n]
  <2>1. CASE info[d].write
    <3>1. buf[b].valid /\ buf'[b].valid /\ buf'[b].blockno = n /\ buf'[b].data = buf[b].data
      BY <1>n, <1>2, <1>5, <2>1
    <3>2. content[n] = buf[b].data
      BY <1>1, <1>n, <3>1, ContentIs
    <3>3. content'[n] = buf'[b].data
      BY <1>3, <3>1, ContentNext
    <3> QED
      BY <3>1, <3>2, <3>3
  <2>2. CASE ~info[d].write
    <3>1. ~buf[b].valid /\ ~buf'[b].valid /\ stored' = stored
      BY <1>2, <1>5, <2>2
    <3>2. content[n] = stored[n]
      BY <1>1, <1>4, <3>1, ContentIs
    <3>3. \A c \in Bufs : buf'[c].blockno = n => ~buf'[c].valid
      BY <1>4, <1>5, <3>1
    <3>4. content'[n] = stored'[n]
      BY <1>3, <3>3, ContentNext
    <3> QED
      BY <3>1, <3>2, <3>4
  <2> QED
    BY <2>1, <2>2
<1>11. content' = content
  <2>1. content = [k \in Blknos |-> content[k]] /\ content' = [k \in Blknos |-> content'[k]]
    BY DEF content
  <2> QED
    BY <1>9, <1>10, <2>1
<1>12. CASE info[d].write
  <2>1. content[n] = buf[b].data
    BY <1>1, <1>n, <1>2, <1>12, ContentIs
  <2>2. <<n, t>> \in held
    BY <1>n, <1>2, HeldIs, Constants
  <2>3. stored' = [stored EXCEPT ![n] = content[n]] /\ pins' = pins
    BY <1>d, <1>5, <1>12, <2>1
  <2>4. Store!Save(n)
    BY <1>8, <1>11, <2>2, <2>3 DEF Store!Save, Store!Free, content, held
  <2> QED
    BY <1>6, <1>7, <2>4
<1>13. CASE ~info[d].write
  BY <1>d, <1>5, <1>6, <1>7, <1>8, <1>11, <1>13 DEF seen
<1> QED
  BY <1>12, <1>13

-----------------------------------------------------------------------------
(* Every step is one of the store or is not seen. *)

LEMMA RefInit ==
  ASSUME DiskInit
  PROVE  RefInv /\ Store!StoreInit
<1>1. Inv
  BY InitInv
<1>2. /\ \A t \in Threads : at[t] = "idle" /\ ~my[t].write /\ other[t] = 0
      /\ pins = {} /\ \A b \in Bufs : buf[b].lock = NoThread /\ ~buf[b].valid
  BY DEF DiskInit, Nothing
<1>3. \A t \in Threads : Fresh(t)
  BY <1>2 DEF Fresh, Waiting
<1>4. held = {}
  BY <1>2, HeldIs
<1>5. stored \in [Blknos -> Vals] /\ Counts
  BY <1>1 DEF Inv, Types
<1>6. content = stored
  <2>1. \A n \in Blknos : content[n] = stored[n]
    BY <1>2, <1>5, ContentIs
  <2>2. content = [n \in Blknos |-> content[n]]
    BY DEF content
  <2> QED
    BY <1>5, <2>1, <2>2
<1> QED
  BY <1>1, <1>2, <1>3, <1>4, <1>5, <1>6 DEF RefInv, Store!StoreInit, content, held

LEMMA RefStep ==
  ASSUME RefInv, [DiskNext]_dvars
  PROVE  RefInv' /\ [Store!StoreNext]_seen
<1>1. Inv'
  BY NextInv DEF RefInv
<1> SUFFICES (\A s \in Threads : Fresh(s)') /\ (UNCHANGED seen \/ Store!StoreNext)
  BY <1>1 DEF RefInv
<1>2. CASE UNCHANGED dvars
  <2>1. Alike /\ UNCHANGED <<stored, avail, info, pins, my, at, other>>
    BY <1>2 DEF dvars, Alike
  <2> QED
    BY <2>1, FreshQuiet, Unseen DEF seen
<1>3. ASSUME NEW t \in Threads, NEW n \in Blknos, Bget(t, n)
      PROVE  (\A s \in Threads : Fresh(s)') /\ (UNCHANGED seen \/ Store!StoreNext)
  <2>1. CASE \E b \in Cached(n) : /\ buf' = [buf EXCEPT ![b].refcnt = @ + 1]
                                  /\ my' = [my EXCEPT ![t] = [Nothing EXCEPT !.b = b]]
    BY <1>3, <2>1, BgetCachedUnseen DEF Bget
  <2>2. CASE /\ Cached(n) = {} /\ Unused # {}
             /\ buf' = [buf EXCEPT ![Recycled] = [@ EXCEPT !.blockno = n, !.valid = FALSE, !.refcnt = 1]]
             /\ my' = [my EXCEPT ![t] = [Nothing EXCEPT !.b = Recycled]]
    <3>1. (\A s \in Threads : Fresh(s)') /\ (UNCHANGED seen \/ \E m \in Blknos : Store!Forget(m))
      BY <1>3, <2>2, BgetRecycledSeen DEF Bget
    <3> QED
      BY <3>1 DEF Store!StoreNext
  <2> QED
    BY <1>3, <2>1, <2>2 DEF Bget
<1>4. ASSUME NEW t \in Threads, Acquiresleep(t) \/ Releasesleep(t)
      PROVE  (\A s \in Threads : Fresh(s)') /\ Store!StoreNext
  <2>1. (\A s \in Threads : Fresh(s)') /\ \E n \in Blknos : Store!Hold(n, t) \/ Store!Give(n, t)
    BY <1>4, AcquiresleepSeen, ReleasesleepSeen
  <2> QED
    BY <2>1 DEF Store!StoreNext
<1>5. ASSUME NEW t \in Threads, Bpin(t) \/ Bunpin(t)
      PROVE  (\A s \in Threads : Fresh(s)') /\ Store!StoreNext
  <2>1. (\A s \in Threads : Fresh(s)') /\ \E n \in Blknos : Store!Pin(n)
    BY <1>5, PinSeen
  <2> QED
    BY <2>1 DEF Store!StoreNext
<1>6. ASSUME NEW t \in Threads, NEW v \in Vals, Modify(t, v)
      PROVE  (\A s \in Threads : Fresh(s)') /\ Store!StoreNext
  <2>1. (\A s \in Threads : Fresh(s)') /\ \E n \in Blknos : Store!Change(n, v)
    BY <1>6, ModifySeen
  <2> QED
    BY <2>1 DEF Store!StoreNext
<1>7. ASSUME NEW t \in Threads, Bwrite(t) \/ Swap(t) \/ Brelse(t) \/ VirtioDiskRw(t) \/ NoDesc(t) \/ Finish(t)
      PROVE  (\A s \in Threads : Fresh(s)') /\ UNCHANGED seen
  BY <1>7, BwriteUnseen, SwapUnseen, BrelseUnseen, VirtioDiskRwUnseen, NoDescUnseen, FinishUnseen
<1>8. CASE Device
  <2>1. (\A s \in Threads : Fresh(s)') /\ (UNCHANGED seen \/ \E n \in Blknos : Store!Save(n))
    BY <1>8, DeviceSeen
  <2> QED
    BY <2>1 DEF Store!StoreNext
<1>9. CASE IntrAck \/ IntrUsed \/ IntrEnd
  BY <1>9, IntrUnseen
<1> QED
  BY <1>2, <1>3, <1>4, <1>5, <1>6, <1>7, <1>8, <1>9 DEF DiskNext

\* The cache, the sleep locks and the driver implement the store of blocks, for
\* any number of threads, blocks, buffers and descriptors: a block is held by
\* one thread at a time, which sees what was last written to it, and only a
\* block that is not pinned and not held is forgotten.
THEOREM CacheIsAStore == DiskSpec => BlockStoreSpec
<1>1. DiskSpec => []RefInv
  BY RefInit, RefStep, PTL DEF DiskSpec
<1>2. RefInv /\ [DiskNext]_dvars =>
        [Store!StoreNext]_(Store!bsvars)
  BY RefStep DEF seen, content, held, Store!bsvars
<1> QED
  BY <1>1, <1>2, RefInit, PTL DEF DiskSpec, BlockStoreSpec, Store!StoreSpec
=============================================================================
