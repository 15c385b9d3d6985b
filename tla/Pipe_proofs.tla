---------------------------- MODULE Pipe_proofs ----------------------------
(***************************************************************************)
(* Proofs about pipes and open files: the counts of the file table, a pipe *)
(* that lives as long as one of its sides, sleepers that are not forgotten,*)
(* and the FIFO that a ring with two counters is.                          *)
(***************************************************************************)
EXTENDS Pipe, Integers, FiniteSetTheorems, SequenceTheorems, WellFoundedInduction, TLAPS

File == [ref : Nat, type : {"none", "pipe"}, writable : BOOLEAN, page : Pages \cup {0}]
Ring == [readopen : BOOLEAN, writeopen : BOOLEAN, nread : 0..(Wrap - 1), nwrite : 0..(Wrap - 1),
         data : [0..(PIPESIZE - 1) -> Bytes]]
Local == [f0 : {0} \cup Files, f1 : {0} \cup Files, k : {0} \cup Pages, w : BOOLEAN,
          i : Nat, n : Nat, then : {"user", "exiting"}]

Types ==
  /\ ftable \in [Files -> File]
  /\ ofile \in [Procs -> [1..NOFILE -> {0} \cup Files]]
  /\ pipe \in [Pages -> Ring]
  /\ kmem \subseteq Pages /\ killed \subseteq Procs /\ silent \subseteq Pages
  /\ pilock \in [Pages -> Procs \cup {NoProc}]
  /\ pc \in [Procs -> Labels] /\ got \in Bytes
  /\ loc \in [Procs -> Local]

Writing == InWrite \cup {"wlock", "wsleep"}
Reading == InRead \cup {"rlock", "rsleep"}

\* No more is in the ring than it can hold, though nread and nwrite wrap around.
Window == \A k \in Pages : Fill(pipe[k]) <= PIPESIZE

\* Who is between acquire() and release(), or sleep(), has the lock.
LockedAt(p) == \A k \in Pages :
  pilock[k] = p <=> pc[p] \in InWrite \cup InRead /\ loc[p].k = k

\* The files of a call, by where it is.
PlaceAt(p) ==
  LET r == loc[p] IN
  /\ pc[p] = "unused" => \A d \in 1..NOFILE : ofile[p][d] = 0
  /\ pc[p] \in {"unused", "user", "exiting"} => r = NoLoc
  /\ pc[p] = "pipe2" => r.f0 # 0 /\ r.f1 = 0
  /\ pc[p] \in {"pipe3", "pipe4"} => r.f0 # 0 /\ r.f1 # 0
  /\ pc[p] \in {"pipe2", "pipe3"} => ftable[r.f0].type = "none"
  /\ pc[p] = "pipe3" => ftable[r.f1].type = "none"
  /\ pc[p] = "pipe4" => ftable[r.f0].type = "pipe" /\ ftable[r.f1].type = "pipe"
  /\ pc[p] \in {"pipe2", "pipe3", "pipe4"} => r.k = 0 /\ r.then = "user"
  /\ pc[p] = "closing" => (r.f0 # 0 \/ r.f1 # 0) /\ r.k = 0
  /\ pc[p] = "pclose" => r.k \in Pages
  /\ pc[p] \in InCall => r.f0 = 0 /\ r.f1 = 0 /\ r.k \in Pages
  /\ r.f0 # 0 => r.f0 # r.f1

\* A file that is not a pipe yet, or no more, belongs to one call and has no
\* descriptor; a free one belongs to none.
Has(p, f) == loc[p].f0 = f \/ loc[p].f1 = f
Unset == \A f \in Files :
  /\ ftable[f].ref = 0 => ftable[f].type = "none"
  /\ ftable[f].type = "none" =>
       /\ \A q \in Procs : \A d \in 1..NOFILE : ofile[q][d] # f
       /\ \A p, q \in Procs : Has(p, f) /\ Has(q, f) => p = q

\* One file or one closing process stands for a side of a pipe, never two.
FileOf(f, k, w) == ftable[f].type = "pipe" /\ ftable[f].page = k /\ (ftable[f].writable <=> w)
Closer(p, k, w) == pc[p] = "pclose" /\ loc[p].k = k /\ (loc[p].w <=> w)
Sides == \A k \in Pages \cup {0}, w \in BOOLEAN :
  /\ \A f, g \in Files : FileOf(f, k, w) /\ FileOf(g, k, w) => f = g
  /\ \A p, q \in Procs : Closer(p, k, w) /\ Closer(q, k, w) => p = q
  /\ \A f \in Files, p \in Procs : ~(FileOf(f, k, w) /\ Closer(p, k, w))

\* A pipe that is not free has a side, and its flags say which.
Stands(k, w) == (\E f \in Files : FileOf(f, k, w)) \/ (\E p \in Procs : Closer(p, k, w))
Opened ==
  /\ \A w \in BOOLEAN : ~Stands(0, w)
  /\ \A k \in kmem : ~Stands(k, TRUE) /\ ~Stands(k, FALSE)
  /\ \A k \in Pages \ kmem : /\ Stands(k, TRUE) \/ Stands(k, FALSE)
                             /\ pipe[k].readopen <=> Stands(k, FALSE)
                             /\ pipe[k].writeopen <=> Stands(k, TRUE)

\* Who reads or writes has a descriptor of that side.
CallAt(p) ==
  /\ pc[p] \in Writing => \E d \in 1..NOFILE : ofile[p][d] # 0 /\ FileOf(ofile[p][d], loc[p].k, TRUE)
  /\ pc[p] \in Reading => \E d \in 1..NOFILE : ofile[p][d] # 0 /\ FileOf(ofile[p][d], loc[p].k, FALSE)

\* A reader sleeps before an empty pipe and a writer before a full one, unless
\* somebody on the other side has the lock and will wake them before it goes.
AsleepAt(p) ==
  LET k == loc[p].k
      q == pipe[k]
  IN
  /\ pc[p] = "rempty" => Empty(q) /\ q.writeopen
  /\ pc[p] = "wfull" => Full(q) /\ q.readopen
  /\ pc[p] = "rsleep" /\ (\A s \in Procs : pilock[k] = s => pc[s] \notin InWrite) =>
        (Empty(q) /\ q.writeopen) \/ k \in silent
  /\ pc[p] = "wsleep" /\ (\A s \in Procs : pilock[k] = s => pc[s] # "rcopy") =>
        Full(q) /\ q.readopen

\* f->ref in three parts.
Fds(f) == {x \in Procs \X (1..NOFILE) : ofile[x[1]][x[2]] = f}
First0(f) == {p \in Procs : loc[p].f0 = f}
Second1(f) == {p \in Procs : loc[p].f1 = f}
Counted(f) == ftable[f].ref = Cardinality(Fds(f)) + Cardinality(First0(f)) + Cardinality(Second1(f))
Refs == \A f \in Files : Counted(f)

Inv ==
  /\ Types /\ Window /\ Refs /\ Unset /\ Sides /\ Opened
  /\ \A p \in Procs : PlaceAt(p) /\ LockedAt(p) /\ CallAt(p) /\ AsleepAt(p)

-----------------------------------------------------------------------------
(* Counters that wrap around: what % gives, and what is in the ring. *)

LEMMA Divided ==
  ASSUME NEW a \in Int, NEW n \in Nat \ {0}
  PROVE  a = n * (a \div n) + (a % n) /\ a % n \in 0..(n - 1) /\ (a \div n) \in Int
OBVIOUS

LEMMA Remainder ==
  ASSUME NEW n \in Nat \ {0}, NEW q \in Int, NEW r \in 0..(n - 1)
  PROVE  (n * q + r) % n = r
<1>1. n * q + r \in Int
  OBVIOUS
<1>2. PICK u \in Int, s \in 0..(n - 1) : n * q + r = n * u + s /\ (n * q + r) % n = s
  BY <1>1, Divided
<1>3. n * (q - u) = s - r /\ q - u \in Int
  BY <1>2
<1>4. ASSUME q - u >= 1 PROVE n * (q - u) >= n
  BY <1>3, <1>4
<1>5. ASSUME q - u <= -1 PROVE n * (q - u) <= -n
  BY <1>3, <1>5
<1>6. q - u >= 1 \/ q - u <= -1 \/ q = u
  BY <1>3
<1> QED
  BY <1>2, <1>3, <1>4, <1>5, <1>6

LEMMA Wrapped ==
  ASSUME NEW n \in Nat \ {0}, NEW a \in 0..(2 * n - 1)
  PROVE  a % n = IF a < n THEN a ELSE a - n
<1>1. CASE a < n
  BY <1>1, Remainder, n * 0 + a = a
<1>2. CASE a >= n
  <2>1. a - n \in 0..(n - 1) /\ a = n * 1 + (a - n)
    BY <1>2
  <2> QED
    BY <1>2, <2>1, Remainder
<1> QED
  BY <1>1, <1>2

LEMMA PlacesDiffer ==
  ASSUME NEW n \in Nat \ {0}, NEW a \in Int, NEW b \in Int, a < b, b < a + n
  PROVE  a % n # b % n
<1> SUFFICES ASSUME a % n = b % n PROVE FALSE
  OBVIOUS
<1>1. /\ a = n * (a \div n) + (a % n) /\ b = n * (b \div n) + (b % n)
      /\ a % n \in Int /\ (a \div n) \in Int /\ (b \div n) \in Int
  BY Divided
<1> DEFINE d == (b \div n) - (a \div n)
<1>2. n * d = b - a /\ d \in Int
  BY <1>1
<1> HIDE DEF d
<1>3. d >= 1 \/ d <= 0
  BY <1>2
<1>4. ASSUME d >= 1 PROVE n * d >= n
  BY <1>2, <1>4
<1>5. ASSUME d <= 0 PROVE n * d <= 0
  BY <1>2, <1>5
<1> QED
  BY <1>2, <1>3, <1>4, <1>5

\* A counter that has wrapped around is at the same place of the ring.
LEMMA SamePlace ==
  ASSUME NEW a \in Int
  PROVE  (a + Wrap) % PIPESIZE = a % PIPESIZE
<1>1. Wrap = PIPESIZE * (Wrap \div PIPESIZE) /\ (Wrap \div PIPESIZE) \in Int
  BY PipeSizes, Divided
<1>2. /\ a = PIPESIZE * (a \div PIPESIZE) + (a % PIPESIZE)
      /\ a % PIPESIZE \in 0..(PIPESIZE - 1) /\ (a \div PIPESIZE) \in Int
  BY PipeSizes, Divided
<1>3. a + Wrap = PIPESIZE * ((a \div PIPESIZE) + (Wrap \div PIPESIZE)) + (a % PIPESIZE)
  BY <1>1, <1>2, PipeSizes
<1>4. (a \div PIPESIZE) + (Wrap \div PIPESIZE) \in Int
  BY <1>1, <1>2
<1> QED
  BY <1>2, <1>3, <1>4, PipeSizes, Remainder

\* Empty and full, and what a byte more or less makes of it.
LEMMA RingFacts ==
  ASSUME NEW q \in Ring
  PROVE  /\ Fill(q) \in 0..(Wrap - 1)
         /\ Fill(q) = IF q.nwrite >= q.nread THEN q.nwrite - q.nread ELSE q.nwrite + Wrap - q.nread
         /\ Empty(q) <=> Fill(q) = 0
         /\ Full(q) <=> Fill(q) = PIPESIZE
<1> DEFINE r == q.nread
           w == q.nwrite
<1>1. r \in 0..(Wrap - 1) /\ w \in 0..(Wrap - 1)
  BY DEF Ring
<1> HIDE DEF r, w
<1>2. w + Wrap - r \in 0..(2 * Wrap - 1) /\ r + PIPESIZE \in 0..(2 * Wrap - 1) /\ Wrap \in Nat \ {0}
  BY <1>1, PipeSizes
<1> DEFINE x == w + Wrap - r
           y == r + PIPESIZE
<1>3. x \in 0..(2 * Wrap - 1) /\ y \in 0..(2 * Wrap - 1) /\ Wrap \in Nat \ {0}
  BY <1>2
<1>4. Fill(q) = x % Wrap /\ (Empty(q) <=> r = w) /\ (Full(q) <=> w = y % Wrap)
  BY DEF Fill, Empty, Full, r, w
<1> HIDE DEF x, y
<1> DEFINE m == x % Wrap
           f == y % Wrap
<1>5. m = IF x < Wrap THEN x ELSE x - Wrap
  BY <1>3, Wrapped
<1>6. f = IF y < Wrap THEN y ELSE y - Wrap
  BY <1>3, Wrapped
<1>7. Fill(q) = m /\ (Empty(q) <=> r = w) /\ (Full(q) <=> w = f)
  BY <1>4
<1> HIDE DEF m, f
<1>8. m = IF w >= r THEN w - r ELSE w + Wrap - r
  BY <1>1, <1>3, <1>5 DEF x
<1>9. m \in 0..(Wrap - 1) /\ (r = w <=> m = 0)
  BY <1>1, <1>3, <1>8
<1>10. w = f <=> m = PIPESIZE
  BY <1>1, <1>6, <1>8, PipeSizes DEF y
<1> QED
  BY <1>7, <1>8, <1>9, <1>10 DEF r, w

LEMMA Advance ==
  ASSUME NEW a \in 0..(Wrap - 1)
  PROVE  /\ (a + 1) % Wrap \in 0..(Wrap - 1)
         /\ (a + 1) % Wrap = IF a + 1 = Wrap THEN 0 ELSE a + 1
<1>1. a + 1 \in 0..(2 * Wrap - 1) /\ Wrap \in Nat \ {0}
  BY PipeSizes
<1> DEFINE b == a + 1
           m == b % Wrap
<1> HIDE DEF b
<1>2. m = IF b < Wrap THEN b ELSE b - Wrap
  BY <1>1, Wrapped DEF b
<1> HIDE DEF m
<1>3. m \in 0..(Wrap - 1) /\ m = IF a + 1 = Wrap THEN 0 ELSE a + 1
  BY <1>1, <1>2 DEF b
<1> QED
  BY <1>3 DEF m, b

LEMMA OneByteMore ==
  ASSUME NEW q \in Ring, NEW r \in Ring, ~Full(q), Fill(q) <= PIPESIZE,
         r.nread = q.nread, r.nwrite = (q.nwrite + 1) % Wrap
  PROVE  Fill(r) = Fill(q) + 1 /\ Fill(r) <= PIPESIZE
<1>1. q.nread \in 0..(Wrap - 1) /\ q.nwrite \in 0..(Wrap - 1)
  BY DEF Ring
<1>2. Fill(q) < PIPESIZE
  BY RingFacts, PipeSizes
<1>3. r.nwrite = IF q.nwrite + 1 = Wrap THEN 0 ELSE q.nwrite + 1
  BY <1>1, Advance
<1> QED
  BY <1>1, <1>2, <1>3, RingFacts, PipeSizes

LEMMA OneByteLess ==
  ASSUME NEW q \in Ring, NEW r \in Ring, ~Empty(q), Fill(q) <= PIPESIZE,
         r.nwrite = q.nwrite, r.nread = (q.nread + 1) % Wrap
  PROVE  Fill(r) = Fill(q) - 1 /\ Fill(r) <= PIPESIZE
<1>1. q.nread \in 0..(Wrap - 1) /\ q.nwrite \in 0..(Wrap - 1)
  BY DEF Ring
<1>2. r.nread = IF q.nread + 1 = Wrap THEN 0 ELSE q.nread + 1
  BY <1>1, Advance
<1> QED
  BY <1>1, <1>2, RingFacts, PipeSizes

-----------------------------------------------------------------------------
(* What an assignment changes, and what it leaves. *)

LEMMA LabelFacts ==
  /\ InCall \subseteq Labels /\ Writing \subseteq InCall /\ Reading \subseteq InCall
  /\ InWrite \subseteq Writing /\ InRead \subseteq Reading
  /\ {"user", "exiting", "unused", "pipe2", "pipe3", "pipe4", "closing", "pclose"} \cap InCall = {}
  /\ {"user", "exiting", "unused", "pipe2", "pipe3", "pipe4", "closing", "pclose"} \subseteq Labels
BY DEF Labels, InCall, Writing, Reading, InWrite, InRead

LEMMA NoLocFacts ==
  /\ NoLoc \in Local /\ NoLoc.f0 = 0 /\ NoLoc.f1 = 0 /\ NoLoc.k = 0 /\ ~NoLoc.w
  /\ NoLoc.i = 0 /\ NoLoc.n = 0 /\ NoLoc.then = "user"
BY DEF NoLoc, Local

LEMMA SetF0 ==
  ASSUME NEW r \in Local, NEW f \in {0} \cup Files
  PROVE  LET q == [r EXCEPT !.f0 = f] IN
         /\ q \in Local /\ q.f0 = f /\ q.f1 = r.f1 /\ q.k = r.k /\ (q.w <=> r.w) /\ q.then = r.then
BY DEF Local

LEMMA SetF1 ==
  ASSUME NEW r \in Local, NEW f \in {0} \cup Files
  PROVE  LET q == [r EXCEPT !.f1 = f] IN
         /\ q \in Local /\ q.f0 = r.f0 /\ q.f1 = f /\ q.k = r.k /\ (q.w <=> r.w) /\ q.then = r.then
BY DEF Local

LEMMA SetI ==
  ASSUME NEW r \in Local, NEW i \in Nat
  PROVE  LET q == [r EXCEPT !.i = i] IN
         /\ q \in Local /\ q.f0 = r.f0 /\ q.f1 = r.f1 /\ q.k = r.k /\ (q.w <=> r.w) /\ q.then = r.then
BY DEF Local

LEMMA SetThen ==
  ASSUME NEW r \in Local, NEW l \in {"user", "exiting"}
  PROVE  LET q == [r EXCEPT !.then = l] IN
         /\ q \in Local /\ q.f0 = r.f0 /\ q.f1 = r.f1 /\ q.k = r.k /\ (q.w <=> r.w) /\ q.then = l
BY DEF Local

LEMMA SetK ==
  ASSUME NEW r \in Local, NEW k \in {0} \cup Pages
  PROVE  LET q == [r EXCEPT !.k = k] IN
         /\ q \in Local /\ q.f0 = r.f0 /\ q.f1 = r.f1 /\ q.k = k /\ (q.w <=> r.w) /\ q.then = r.then
BY DEF Local

LEMMA SetW ==
  ASSUME NEW r \in Local, NEW w \in BOOLEAN
  PROVE  LET q == [r EXCEPT !.w = w] IN
         /\ q \in Local /\ q.f0 = r.f0 /\ q.f1 = r.f1 /\ q.k = r.k /\ (q.w <=> w) /\ q.then = r.then
BY DEF Local

LEMMA SetN ==
  ASSUME NEW r \in Local, NEW n \in Nat
  PROVE  LET q == [r EXCEPT !.n = n] IN
         /\ q \in Local /\ q.f0 = r.f0 /\ q.f1 = r.f1 /\ q.k = r.k /\ (q.w <=> r.w) /\ q.then = r.then
BY DEF Local

LEMMA SetLoc ==
  ASSUME Types, NEW p \in Procs, NEW r \in Local, loc' = [loc EXCEPT ![p] = r]
  PROVE  loc' \in [Procs -> Local] /\ loc'[p] = r /\ \A q \in Procs \ {p} : loc'[q] = loc[q]
BY DEF Types

LEMMA Went ==
  ASSUME Types, NEW p \in Procs, NEW l \in Labels, Goto(p, l)
  PROVE  pc' \in [Procs -> Labels] /\ pc'[p] = l /\ \A q \in Procs \ {p} : pc'[q] = pc[q]
BY DEF Types, Goto

\* After fileclose(): the rest of the call, or back to where it came from.
LEMMA Put ==
  ASSUME Types, NEW p \in Procs, NEW next \in [Procs -> Labels], NEW r \in Local, PutRest(p, next, r)
  PROVE  /\ loc' \in [Procs -> Local] /\ pc' \in [Procs -> Labels]
         /\ \A q \in Procs \ {p} : loc'[q] = loc[q] /\ pc'[q] = next[q]
         /\ loc'[p].f0 = r.f0 /\ loc'[p].f1 = r.f1 /\ loc'[p].k \in {0, r.k}
         /\ r.f0 = 0 /\ r.f1 = 0 => loc'[p] = NoLoc /\ pc'[p] = r.then
         /\ r.f0 # 0 \/ r.f1 # 0 => loc'[p] = r /\ pc'[p] = "closing"
         /\ pc'[p] \in {"user", "exiting", "closing"}
<1>1. r.then \in {"user", "exiting"}
  BY DEF Local
<1>2. r.then \in Labels /\ "closing" \in Labels
  BY <1>1, LabelFacts
<1>3. CASE r.f0 = 0 /\ r.f1 = 0
  <2>1. loc' = [loc EXCEPT ![p] = NoLoc] /\ pc' = [next EXCEPT ![p] = r.then]
    BY <1>3 DEF PutRest
  <2>2. loc' \in [Procs -> Local] /\ loc'[p] = NoLoc /\ \A q \in Procs \ {p} : loc'[q] = loc[q]
    BY <2>1, NoLocFacts, SetLoc
  <2>3. pc' \in [Procs -> Labels] /\ pc'[p] = r.then /\ \A q \in Procs \ {p} : pc'[q] = next[q]
    BY <2>1, <1>2
  <2> QED
    BY <2>2, <2>3, <1>1, <1>3, NoLocFacts
<1>4. CASE r.f0 # 0 \/ r.f1 # 0
  <2>1. loc' = [loc EXCEPT ![p] = r] /\ pc' = [next EXCEPT ![p] = "closing"]
    BY <1>4 DEF PutRest
  <2>2. loc' \in [Procs -> Local] /\ loc'[p] = r /\ \A q \in Procs \ {p} : loc'[q] = loc[q]
    BY <2>1, SetLoc
  <2>3. pc' \in [Procs -> Labels] /\ pc'[p] = "closing" /\ \A q \in Procs \ {p} : pc'[q] = next[q]
    BY <2>1, <1>2
  <2> QED
    BY <2>2, <2>3, <1>4
<1> QED
  BY <1>3, <1>4

LEMMA SetRef ==
  ASSUME Types, NEW f \in Files, NEW n \in Nat, ftable' = [ftable EXCEPT ![f].ref = n]
  PROVE  /\ ftable' \in [Files -> File] /\ ftable'[f].ref = n
         /\ \A g \in Files \ {f} : ftable'[g].ref = ftable[g].ref
         /\ \A g \in Files : /\ ftable'[g].type = ftable[g].type /\ ftable'[g].page = ftable[g].page
                             /\ ftable'[g].writable <=> ftable[g].writable
<1> DEFINE r == [ftable[f] EXCEPT !.ref = n]
<1>1. ftable \in [Files -> File] /\ ftable[f] \in File
  BY DEF Types
<1>2. /\ r \in File /\ r.ref = n /\ r.type = ftable[f].type /\ r.page = ftable[f].page
      /\ (r.writable <=> ftable[f].writable)
  BY <1>1 DEF File
<1>3. ftable' = [ftable EXCEPT ![f] = r]
  OBVIOUS
<1> HIDE DEF r
<1>4. ftable' \in [Files -> File] /\ ftable'[f] = r /\ \A g \in Files \ {f} : ftable'[g] = ftable[g]
  BY <1>1, <1>2, <1>3
<1> QED
  BY <1>2, <1>4

LEMMA SetFd ==
  ASSUME Types, NEW p \in Procs, NEW d \in 1..NOFILE, NEW f \in {0} \cup Files,
         ofile' = [ofile EXCEPT ![p][d] = f]
  PROVE  /\ ofile' \in [Procs -> [1..NOFILE -> {0} \cup Files]] /\ ofile'[p][d] = f
         /\ \A e \in (1..NOFILE) \ {d} : ofile'[p][e] = ofile[p][e]
         /\ \A q \in Procs \ {p} : ofile'[q] = ofile[q]
BY DEF Types

-----------------------------------------------------------------------------
(* What a step leaves alone keeps its part of the invariant. *)

LEMMA RefsKept ==
  ASSUME Refs, ofile' = ofile, \A f \in Files : ftable'[f].ref = ftable[f].ref,
         \A q \in Procs : loc'[q].f0 = loc[q].f0 /\ loc'[q].f1 = loc[q].f1
  PROVE  Refs'
<1> SUFFICES ASSUME NEW f \in Files PROVE Counted(f)'
  BY DEF Refs
<1>1. Fds(f)' = Fds(f) /\ First0(f)' = First0(f) /\ Second1(f)' = Second1(f)
  BY DEF Fds, First0, Second1
<1> QED
  BY <1>1 DEF Refs, Counted

LEMMA UnsetKept ==
  ASSUME Unset, ofile' = ofile,
         \A f \in Files : ftable'[f].ref = ftable[f].ref /\ ftable'[f].type = ftable[f].type,
         \A q \in Procs : loc'[q].f0 = loc[q].f0 /\ loc'[q].f1 = loc[q].f1
  PROVE  Unset'
BY DEF Unset, Has

\* Every file is of the same kind, and the same processes close the same sides.
SameFile(f) == /\ ftable'[f].type = ftable[f].type
               /\ ftable[f].type = "pipe" => /\ ftable'[f].page = ftable[f].page
                                             /\ ftable'[f].writable <=> ftable[f].writable
SameCloser(q) == /\ pc'[q] = "pclose" <=> pc[q] = "pclose"
                 /\ pc[q] = "pclose" => loc'[q].k = loc[q].k /\ (loc'[q].w <=> loc[q].w)

LEMMA StandsKept ==
  ASSUME \A f \in Files : SameFile(f), \A q \in Procs : SameCloser(q), NEW k, NEW w
  PROVE  /\ Stands(k, w)' <=> Stands(k, w)
         /\ \A f \in Files : FileOf(f, k, w)' <=> FileOf(f, k, w)
         /\ \A q \in Procs : Closer(q, k, w)' <=> Closer(q, k, w)
BY DEF Stands, FileOf, Closer, SameFile, SameCloser

LEMMA SidesKept ==
  ASSUME Sides, Opened, \A f \in Files : SameFile(f), \A q \in Procs : SameCloser(q), kmem' = kmem,
         \A k \in Pages : /\ pipe'[k].readopen <=> pipe[k].readopen
                          /\ pipe'[k].writeopen <=> pipe[k].writeopen
  PROVE  Sides' /\ Opened'
<1>1. Sides'
  BY StandsKept DEF Sides
<1>2. Opened'
  BY StandsKept DEF Opened
<1> QED
  BY <1>1, <1>2

LEMMA PlaceKept ==
  ASSUME Types, NEW q \in Procs, PlaceAt(q), pc'[q] = pc[q], loc'[q] = loc[q], ofile'[q] = ofile[q],
         \A f \in Files : Has(q, f) => ftable'[f].type = ftable[f].type
  PROVE  PlaceAt(q)'
<1>1. loc[q].f0 \in {0} \cup Files /\ loc[q].f1 \in {0} \cup Files
  BY DEF Types, Local
<1>2. loc[q].f0 # 0 => ftable'[loc[q].f0].type = ftable[loc[q].f0].type
  BY <1>1 DEF Has
<1>3. loc[q].f1 # 0 => ftable'[loc[q].f1].type = ftable[loc[q].f1].type
  BY <1>1 DEF Has
<1> QED
  BY <1>2, <1>3 DEF PlaceAt

LEMMA CallKept ==
  ASSUME Types, NEW q \in Procs, CallAt(q), ofile'[q] = ofile[q], loc'[q].k = loc[q].k,
         pc'[q] \in Writing => pc[q] \in Writing, pc'[q] \in Reading => pc[q] \in Reading,
         \A f \in Files : (\E d \in 1..NOFILE : ofile[q][d] = f) => SameFile(f)
  PROVE  CallAt(q)'
<1>1. \A d \in 1..NOFILE : ofile[q][d] \in {0} \cup Files
  BY DEF Types
<1>2. \A d \in 1..NOFILE : ofile[q][d] # 0 => SameFile(ofile[q][d])
  BY <1>1
<1> QED
  BY <1>2 DEF CallAt, SameFile, FileOf

\* Pipes in which nothing happens.
LEMMA SleepKept ==
  ASSUME NEW q \in Procs, AsleepAt(q), LockedAt(q), \A s \in Procs : LockedAt(s), q \in Procs,
         pipe' = pipe, pilock' = pilock, silent' = silent,
         \A s \in Procs : \/ pc'[s] = pc[s] /\ loc'[s].k = loc[s].k
                          \/ pc[s] \notin InCall /\ pc'[s] \notin InCall
  PROVE  AsleepAt(q)' /\ LockedAt(q)'
<1>1. LockedAt(q)'
  BY LabelFacts DEF LockedAt
<1>2. AsleepAt(q)'
  <2>1. CASE pc[q] \notin InCall /\ pc'[q] \notin InCall
    BY <2>1 DEF AsleepAt, InCall, InRead, InWrite
  <2>2. CASE pc'[q] = pc[q] /\ loc'[q].k = loc[q].k
    <3>1. \A s \in Procs : pc'[s] = "rcopy" <=> pc[s] = "rcopy"
      BY DEF InCall, InRead
    <3>2. \A s \in Procs : pc'[s] \in InWrite <=> pc[s] \in InWrite
      BY DEF InCall
    <3> QED
      BY <2>2, <3>1, <3>2 DEF AsleepAt
  <2> QED
    BY <2>1, <2>2
<1> QED
  BY <1>1, <1>2

-----------------------------------------------------------------------------
(* References to files come and go. *)

LEMMA Finite ==
  \A f : /\ IsFiniteSet(Fds(f)) /\ IsFiniteSet(First0(f)) /\ IsFiniteSet(Second1(f))
         /\ Cardinality(Fds(f)) \in Nat /\ Cardinality(First0(f)) \in Nat
         /\ Cardinality(Second1(f)) \in Nat
<1>0. 1 \in Int /\ NOFILE \in Int /\ IsFiniteSet(Procs)
  BY PipeSizes
<1>1. IsFiniteSet(1..NOFILE)
  BY <1>0, FS_Interval
<1>2. IsFiniteSet(Procs \X (1..NOFILE))
  BY <1>0, <1>1, FS_Product
<1> SUFFICES ASSUME NEW f
             PROVE  IsFiniteSet(Fds(f)) /\ IsFiniteSet(First0(f)) /\ IsFiniteSet(Second1(f))
  BY FS_CardinalityType
<1>3. /\ Fds(f) \in SUBSET (Procs \X (1..NOFILE)) /\ First0(f) \in SUBSET Procs
      /\ Second1(f) \in SUBSET Procs
  BY DEF Fds, First0, Second1
<1> QED
  BY <1>0, <1>2, <1>3, FS_Subset

LEMMA OneMore ==
  ASSUME NEW S, NEW x, IsFiniteSet(S), x \notin S
  PROVE  Cardinality(S \cup {x}) = Cardinality(S) + 1
BY FS_AddElement

LEMMA OneLess ==
  ASSUME NEW S, NEW x, IsFiniteSet(S), x \in S
  PROVE  Cardinality(S \ {x}) = Cardinality(S) - 1
BY FS_RemoveElement

\* A descriptor that is set, one that is cleared.
LEMMA FdGained ==
  ASSUME Types, NEW p \in Procs, NEW d \in 1..NOFILE, NEW f \in Files, ofile[p][d] = 0, ofile'[p][d] = f,
         \A e \in (1..NOFILE) \ {d} : ofile'[p][e] = ofile[p][e],
         \A q \in Procs \ {p} : ofile'[q] = ofile[q]
  PROVE  /\ Cardinality(Fds(f)') = Cardinality(Fds(f)) + 1
         /\ \A g \in Files \ {f} : Fds(g)' = Fds(g)
<1>1. f # 0
  BY DEF Files
<1>2. Fds(f)' = Fds(f) \cup {<<p, d>>} /\ <<p, d>> \notin Fds(f)
  BY <1>1 DEF Fds
<1>3. \A g \in Files \ {f} : Fds(g)' = Fds(g)
  BY DEF Fds, Files
<1> QED
  BY <1>2, <1>3, Finite, OneMore

LEMMA FdLost ==
  ASSUME Types, NEW p \in Procs, NEW d \in 1..NOFILE, NEW f \in Files, ofile[p][d] = f, ofile'[p][d] = 0,
         \A e \in (1..NOFILE) \ {d} : ofile'[p][e] = ofile[p][e],
         \A q \in Procs \ {p} : ofile'[q] = ofile[q]
  PROVE  /\ Cardinality(Fds(f)') = Cardinality(Fds(f)) - 1
         /\ \A g \in Files \ {f} : Fds(g)' = Fds(g)
<1>1. f # 0
  BY DEF Files
<1>2. Fds(f)' = Fds(f) \ {<<p, d>>} /\ <<p, d>> \in Fds(f)
  BY <1>1 DEF Fds
<1>3. \A g \in Files \ {f} : Fds(g)' = Fds(g)
  BY DEF Fds, Files
<1> QED
  BY <1>2, <1>3, Finite, OneLess

\* A process that takes a file to put it or to make it, and one that has done so.
LEMMA FirstGained ==
  ASSUME NEW p \in Procs, NEW f \in Files, loc[p].f0 = 0, loc'[p].f0 = f,
         \A q \in Procs \ {p} : loc'[q] = loc[q]
  PROVE  /\ Cardinality(First0(f)') = Cardinality(First0(f)) + 1
         /\ \A g \in Files \ {f} : First0(g)' = First0(g)
<1>1. First0(f)' = First0(f) \cup {p} /\ p \notin First0(f)
  BY DEF First0, Files
<1>2. \A g \in Files \ {f} : First0(g)' = First0(g)
  BY DEF First0, Files
<1> QED
  BY <1>1, <1>2, Finite, OneMore

LEMMA FirstLost ==
  ASSUME NEW p \in Procs, NEW f \in Files, loc[p].f0 = f, loc'[p].f0 = 0,
         \A q \in Procs \ {p} : loc'[q] = loc[q]
  PROVE  /\ Cardinality(First0(f)') = Cardinality(First0(f)) - 1
         /\ \A g \in Files \ {f} : First0(g)' = First0(g)
<1>1. First0(f)' = First0(f) \ {p} /\ p \in First0(f)
  BY DEF First0, Files
<1>2. \A g \in Files \ {f} : First0(g)' = First0(g)
  BY DEF First0, Files
<1> QED
  BY <1>1, <1>2, Finite, OneLess

LEMMA SecondGained ==
  ASSUME NEW p \in Procs, NEW f \in Files, loc[p].f1 = 0, loc'[p].f1 = f,
         \A q \in Procs \ {p} : loc'[q] = loc[q]
  PROVE  /\ Cardinality(Second1(f)') = Cardinality(Second1(f)) + 1
         /\ \A g \in Files \ {f} : Second1(g)' = Second1(g)
<1>1. Second1(f)' = Second1(f) \cup {p} /\ p \notin Second1(f)
  BY DEF Second1, Files
<1>2. \A g \in Files \ {f} : Second1(g)' = Second1(g)
  BY DEF Second1, Files
<1> QED
  BY <1>1, <1>2, Finite, OneMore

LEMMA SecondLost ==
  ASSUME NEW p \in Procs, NEW f \in Files, loc[p].f1 = f, loc'[p].f1 = 0,
         \A q \in Procs \ {p} : loc'[q] = loc[q]
  PROVE  /\ Cardinality(Second1(f)') = Cardinality(Second1(f)) - 1
         /\ \A g \in Files \ {f} : Second1(g)' = Second1(g)
<1>1. Second1(f)' = Second1(f) \ {p} /\ p \in Second1(f)
  BY DEF Second1, Files
<1>2. \A g \in Files \ {f} : Second1(g)' = Second1(g)
  BY DEF Second1, Files
<1> QED
  BY <1>1, <1>2, Finite, OneLess

\* Nobody has a free file.
LEMMA FreeFile ==
  ASSUME Refs, NEW f \in Files, ftable[f].ref = 0
  PROVE  /\ \A q \in Procs : ~Has(q, f)
         /\ \A q \in Procs : \A d \in 1..NOFILE : ofile[q][d] # f
<1>1. Cardinality(Fds(f)) = 0 /\ Cardinality(First0(f)) = 0 /\ Cardinality(Second1(f)) = 0
  BY Finite DEF Refs, Counted
<1>2. Fds(f) = {} /\ First0(f) = {} /\ Second1(f) = {}
  BY <1>1, Finite, FS_EmptySet
<1>3. \A q \in Procs : ~Has(q, f)
  BY <1>2 DEF First0, Second1, Has
<1>4. \A q \in Procs : \A d \in 1..NOFILE : <<q, d>> \notin Fds(f)
  BY <1>2
<1> QED
  BY <1>3, <1>4 DEF Fds

\* Who puts the last reference is the only one to have the file.
LEMMA LastRef ==
  ASSUME Refs, NEW f \in Files, ftable[f].ref = 1, NEW p \in Procs, Has(p, f)
  PROVE  /\ \A q \in Procs : \A d \in 1..NOFILE : ofile[q][d] # f
         /\ \A q \in Procs : Has(q, f) => q = p
<1>1. Cardinality(Fds(f)) + Cardinality(First0(f)) + Cardinality(Second1(f)) = 1
  BY DEF Refs, Counted
<1>2. p \in First0(f) \/ p \in Second1(f)
  BY DEF Has, First0, Second1
<1>3. Cardinality(First0(f)) # 0 \/ Cardinality(Second1(f)) # 0
  BY <1>2, Finite, FS_EmptySet
<1>4. /\ Cardinality(Fds(f)) = 0
      /\ Cardinality(First0(f)) <= 1 /\ Cardinality(Second1(f)) <= 1
      /\ Cardinality(First0(f)) = 0 \/ Cardinality(Second1(f)) = 0
  BY <1>1, <1>3, Finite
<1>5. Fds(f) = {}
  BY <1>4, Finite, FS_EmptySet
<1>6. \A q \in Procs : \A d \in 1..NOFILE : <<q, d>> \notin Fds(f)
  BY <1>5
<1>7. First0(f) = {} \/ Second1(f) = {}
  BY <1>4, Finite, FS_EmptySet
<1>8. \A q : q \in First0(f) \cup Second1(f) => q = p
  <2> SUFFICES ASSUME NEW q, q \in First0(f) \cup Second1(f), q # p PROVE FALSE
    OBVIOUS
  <2> DEFINE S == First0(f) \cup Second1(f)
  <2>1. IsFiniteSet(S) /\ Cardinality(S) <= 1
    BY <1>4, <1>7, Finite
  <2>2. {p, q} \in SUBSET S
    BY <1>2
  <2>3. Cardinality({p, q}) = 2
    <3>1. {p, q} = {p} \cup {q} /\ q \notin {p}
      OBVIOUS
    <3>2. IsFiniteSet({p}) /\ Cardinality({p}) = 1
      BY FS_Singleton
    <3>3. Cardinality({p} \cup {q}) = Cardinality({p}) + 1
      BY <3>1, <3>2, OneMore
    <3> QED
      BY <3>1, <3>2, <3>3
  <2>4. Cardinality({p, q}) <= Cardinality(S)
    BY <2>1, <2>2, FS_Subset
  <2>5. Cardinality(S) \in Nat
    BY <2>1, FS_CardinalityType
  <2> HIDE DEF S
  <2> QED
    BY <2>1, <2>3, <2>4, <2>5
<1> QED
  BY <1>6, <1>8 DEF Fds, Has, First0, Second1

\* A file that somebody has is not free.
LEMMA InUse ==
  ASSUME Refs, NEW f \in Files, NEW p \in Procs, Has(p, f) \/ \E d \in 1..NOFILE : ofile[p][d] = f,
         ftable[f].ref \in Nat
  PROVE  ftable[f].ref # 0
BY FreeFile

-----------------------------------------------------------------------------
(* The calls that make, share and put files. *)

LEMMA Known ==
  ASSUME Inv, NEW p \in Procs
  PROVE  /\ Types /\ PlaceAt(p) /\ LockedAt(p) /\ CallAt(p) /\ AsleepAt(p)
         /\ Refs /\ Unset /\ Sides /\ Opened /\ Window
         /\ loc[p] \in Local /\ loc[p].f0 \in {0} \cup Files /\ loc[p].f1 \in {0} \cup Files
         /\ loc[p].k \in {0} \cup Pages /\ loc[p].w \in BOOLEAN /\ pc[p] \in Labels
         /\ \A d \in 1..NOFILE : ofile[p][d] \in {0} \cup Files
         /\ 0 \notin Files
<1>1. Types
  BY DEF Inv
<1>2. loc[p] \in Local /\ pc[p] \in Labels
  BY <1>1 DEF Types
<1>3. \A d \in 1..NOFILE : ofile[p][d] \in {0} \cup Files
  <2>1. ofile[p] \in [1..NOFILE -> {0} \cup Files]
    BY <1>1 DEF Types
  <2> QED
    BY <2>1
<1>4. /\ loc[p].f0 \in {0} \cup Files /\ loc[p].f1 \in {0} \cup Files
      /\ loc[p].k \in {0} \cup Pages /\ loc[p].w \in BOOLEAN
  BY <1>2 DEF Local
<1>5. /\ PlaceAt(p) /\ LockedAt(p) /\ CallAt(p) /\ AsleepAt(p)
      /\ Refs /\ Unset /\ Sides /\ Opened /\ Window
  BY DEF Inv
<1> QED
  BY <1>1, <1>2, <1>3, <1>4, <1>5 DEF Files

\* A step on files and descriptors of p, in which no pipe gains or loses a side.
LEMMA FileStep ==
  ASSUME Inv, Types', NEW p \in Procs,
         pipe' = pipe, pilock' = pilock, silent' = silent, kmem' = kmem,
         \A f \in Files : SameFile(f),
         \A q \in Procs \ {p} : pc'[q] = pc[q] /\ loc'[q] = loc[q] /\ ofile'[q] = ofile[q],
         pc[p] \notin InCall \cup {"pclose"}, pc'[p] \notin InCall \cup {"pclose"},
         PlaceAt(p)', Refs', Unset'
  PROVE  Inv'
<1>1. Window'
  BY DEF Inv, Window
<1>2. Sides' /\ Opened'
  <2>1. \A q \in Procs : SameCloser(q)
    BY DEF SameCloser
  <2> QED
    BY <2>1, SidesKept DEF Inv
<1>3. \A s \in Procs : \/ pc'[s] = pc[s] /\ loc'[s].k = loc[s].k
                       \/ pc[s] \notin InCall /\ pc'[s] \notin InCall
  OBVIOUS
<1>4. ASSUME NEW q \in Procs PROVE AsleepAt(q)' /\ LockedAt(q)'
  BY <1>3, SleepKept DEF Inv
<1>5. ASSUME NEW q \in Procs PROVE PlaceAt(q)' /\ CallAt(q)'
  <2>1. CASE q = p
    BY <2>1, LabelFacts DEF CallAt
  <2>2. CASE q # p
    <3>1. Types /\ PlaceAt(q) /\ CallAt(q)
      BY DEF Inv
    <3>2. \A f \in Files : ftable'[f].type = ftable[f].type
      BY DEF SameFile
    <3>3. PlaceAt(q)'
      BY <2>2, <3>1, <3>2, PlaceKept
    <3>4. CallAt(q)'
      BY <2>2, <3>1, CallKept
    <3> QED
      BY <3>3, <3>4
  <2> QED
    BY <2>1, <2>2
<1> QED
  BY <1>1, <1>2, <1>4, <1>5 DEF Inv

LEMMA FileallocFails ==
  ASSUME Inv, NEW p \in Procs, pc[p] \in {"user", "pipe2"}, PutRest(p, pc, loc[p]),
         UNCHANGED <<ftable, ofile, pipe, kmem, pilock, killed, got, silent>>
  PROVE  Inv'
<1>1. Types /\ pc \in [Procs -> Labels] /\ loc[p] \in Local /\ PlaceAt(p) /\ Refs /\ Unset
  BY Known DEF Types
<1>2. /\ loc' \in [Procs -> Local] /\ pc' \in [Procs -> Labels]
      /\ \A q \in Procs \ {p} : loc'[q] = loc[q] /\ pc'[q] = pc[q]
      /\ loc[p].f0 = 0 /\ loc[p].f1 = 0 => loc'[p] = NoLoc /\ pc'[p] = loc[p].then
      /\ loc[p].f0 # 0 \/ loc[p].f1 # 0 => loc'[p] = loc[p] /\ pc'[p] = "closing"
  BY <1>1, Put
<1>3. /\ loc'[p] = loc[p]
      /\ \/ pc'[p] = "user" /\ loc'[p] = NoLoc
         \/ pc'[p] = "closing" /\ loc[p].f0 # 0 /\ loc[p].k = 0
  BY <1>1, <1>2, NoLocFacts DEF PlaceAt
<1>4. Types'
  BY <1>1, <1>2 DEF Types
<1>5. PlaceAt(p)'
  BY <1>1, <1>3, NoLocFacts DEF PlaceAt, InCall, InRead, InWrite
<1>6. \A q \in Procs : loc'[q].f0 = loc[q].f0 /\ loc'[q].f1 = loc[q].f1
  BY <1>2, <1>3
<1>7. Refs' /\ Unset'
  BY <1>1, <1>6, RefsKept, UnsetKept
<1>8. \A f \in Files : SameFile(f)
  BY DEF SameFile
<1>9. pc[p] \notin InCall \cup {"pclose"} /\ pc'[p] \notin InCall \cup {"pclose"}
  BY <1>3 DEF InCall, InRead, InWrite
<1> QED
  BY <1>2, <1>4, <1>5, <1>7, <1>8, <1>9, FileStep

\* The first file and the second one.
LEMMA FileallocFirst ==
  ASSUME Inv, NEW p \in Procs, NEW f \in Files, ftable[f].ref = 0, ftable' = [ftable EXCEPT ![f].ref = 1],
         pc[p] = "user", loc' = [loc EXCEPT ![p].f0 = f], Goto(p, "pipe2"),
         UNCHANGED <<ofile, pipe, kmem, pilock, killed, got, silent>>
  PROVE  Inv'
<1>1. /\ Types /\ loc[p] \in Local /\ PlaceAt(p) /\ Refs /\ Unset /\ f # 0
      /\ loc[p].f0 = 0 /\ loc[p].f1 = 0 /\ loc[p].k = 0 /\ loc[p].then = "user"
  BY Known, NoLocFacts DEF PlaceAt
<1>2. /\ ftable' \in [Files -> File] /\ ftable'[f].ref = 1
      /\ \A g \in Files \ {f} : ftable'[g].ref = ftable[g].ref
      /\ \A g \in Files : /\ ftable'[g].type = ftable[g].type /\ ftable'[g].page = ftable[g].page
                          /\ ftable'[g].writable <=> ftable[g].writable
  BY <1>1, SetRef
<1> DEFINE r == [loc[p] EXCEPT !.f0 = f]
<1>3. /\ r \in Local /\ r.f0 = f /\ r.f1 = 0 /\ r.k = 0 /\ r.then = "user"
  BY <1>1, SetF0
<1>4. loc' = [loc EXCEPT ![p] = r]
  OBVIOUS
<1> HIDE DEF r
<1>5. loc' \in [Procs -> Local] /\ loc'[p] = r /\ \A q \in Procs \ {p} : loc'[q] = loc[q]
  BY <1>1, <1>3, <1>4, SetLoc
<1>6. pc' \in [Procs -> Labels] /\ pc'[p] = "pipe2" /\ \A q \in Procs \ {p} : pc'[q] = pc[q]
  BY <1>1, LabelFacts, Went
<1>7. Types'
  BY <1>1, <1>2, <1>5, <1>6 DEF Types
<1>8. ftable[f].type = "none"
  BY <1>1 DEF Unset
<1>9. PlaceAt(p)'
  BY <1>1, <1>2, <1>3, <1>5, <1>6, <1>8 DEF PlaceAt, InCall, InRead, InWrite
<1>10. Refs'
  <2>1. /\ Cardinality(First0(f)') = Cardinality(First0(f)) + 1
        /\ \A g \in Files \ {f} : First0(g)' = First0(g)
    BY <1>1, <1>3, <1>5, FirstGained
  <2>2. \A g : Fds(g)' = Fds(g) /\ Second1(g)' = Second1(g)
    BY <1>1, <1>3, <1>5 DEF Fds, Second1
  <2>3. \A g \in Files \ {f} : Counted(g)'
    BY <1>1, <1>2, <2>1, <2>2 DEF Refs, Counted
  <2>4. Counted(f)'
    BY <1>1, <1>2, <2>1, <2>2, Finite DEF Refs, Counted
  <2> QED
    BY <2>3, <2>4 DEF Refs
<1>11. Unset'
  <2>1. \A q \in Procs, g \in Files : Has(q, g)' <=> (Has(q, g) \/ (q = p /\ g = f))
    BY <1>1, <1>3, <1>5 DEF Has, Files
  <2>2. /\ \A q \in Procs : ~Has(q, f)
        /\ \A q \in Procs : \A d \in 1..NOFILE : ofile[q][d] # f
    BY <1>1, FreeFile
  <2>3. ASSUME NEW g \in Files
        PROVE  /\ ftable'[g].ref = 0 => ftable'[g].type = "none"
               /\ ftable'[g].type = "none" =>
                    /\ \A q \in Procs : \A d \in 1..NOFILE : ofile[q][d] # g
                    /\ \A q, s \in Procs : Has(q, g)' /\ Has(s, g)' => q = s
    BY <1>1, <1>2, <2>1, <2>2, <2>3 DEF Unset
  <2> QED
    BY <2>3 DEF Unset
<1>12. \A g \in Files : SameFile(g)
  BY <1>2 DEF SameFile
<1>13. pc[p] \notin InCall \cup {"pclose"} /\ pc'[p] \notin InCall \cup {"pclose"}
  BY <1>6 DEF InCall, InRead, InWrite
<1> QED
  BY <1>5, <1>6, <1>7, <1>9, <1>10, <1>11, <1>12, <1>13, FileStep

LEMMA FileallocSecond ==
  ASSUME Inv, NEW p \in Procs, NEW f \in Files, ftable[f].ref = 0, ftable' = [ftable EXCEPT ![f].ref = 1],
         pc[p] = "pipe2", loc' = [loc EXCEPT ![p].f1 = f], Goto(p, "pipe3"),
         UNCHANGED <<ofile, pipe, kmem, pilock, killed, got, silent>>
  PROVE  Inv'
<1>1. /\ Types /\ loc[p] \in Local /\ PlaceAt(p) /\ Refs /\ Unset /\ f # 0
      /\ loc[p].f0 # 0 /\ loc[p].f1 = 0 /\ loc[p].k = 0 /\ loc[p].then = "user"
      /\ ftable[loc[p].f0].type = "none" /\ loc[p].f0 \in Files
  BY Known DEF PlaceAt
<1>2. /\ ftable' \in [Files -> File] /\ ftable'[f].ref = 1
      /\ \A g \in Files \ {f} : ftable'[g].ref = ftable[g].ref
      /\ \A g \in Files : /\ ftable'[g].type = ftable[g].type /\ ftable'[g].page = ftable[g].page
                          /\ ftable'[g].writable <=> ftable[g].writable
  BY <1>1, SetRef
<1> DEFINE r == [loc[p] EXCEPT !.f1 = f]
<1>3. /\ r \in Local /\ r.f0 = loc[p].f0 /\ r.f1 = f /\ r.k = 0 /\ r.then = "user"
  BY <1>1, SetF1
<1>4. loc' = [loc EXCEPT ![p] = r]
  OBVIOUS
<1> HIDE DEF r
<1>5. loc' \in [Procs -> Local] /\ loc'[p] = r /\ \A q \in Procs \ {p} : loc'[q] = loc[q]
  BY <1>1, <1>3, <1>4, SetLoc
<1>6. pc' \in [Procs -> Labels] /\ pc'[p] = "pipe3" /\ \A q \in Procs \ {p} : pc'[q] = pc[q]
  BY <1>1, LabelFacts, Went
<1>7. Types'
  BY <1>1, <1>2, <1>5, <1>6 DEF Types
<1>8. /\ ftable[f].type = "none"
      /\ \A q \in Procs : ~Has(q, f)
      /\ \A q \in Procs : \A d \in 1..NOFILE : ofile[q][d] # f
  BY <1>1, FreeFile DEF Unset
<1>9. PlaceAt(p)'
  <2>1. loc[p].f0 # f
    BY <1>8 DEF Has
  <2> QED
    BY <1>1, <1>2, <1>3, <1>5, <1>6, <1>8, <2>1 DEF PlaceAt, InCall, InRead, InWrite
<1>10. Refs'
  <2>1. /\ Cardinality(Second1(f)') = Cardinality(Second1(f)) + 1
        /\ \A g \in Files \ {f} : Second1(g)' = Second1(g)
    BY <1>1, <1>3, <1>5, SecondGained
  <2>2. \A g : Fds(g)' = Fds(g) /\ First0(g)' = First0(g)
    BY <1>1, <1>3, <1>5 DEF Fds, First0
  <2>3. \A g \in Files \ {f} : Counted(g)'
    BY <1>1, <1>2, <2>1, <2>2 DEF Refs, Counted
  <2>4. Counted(f)'
    BY <1>1, <1>2, <2>1, <2>2, Finite DEF Refs, Counted
  <2> QED
    BY <2>3, <2>4 DEF Refs
<1>11. Unset'
  <2>1. \A q \in Procs, g \in Files : Has(q, g)' <=> (Has(q, g) \/ (q = p /\ g = f))
    BY <1>1, <1>3, <1>5 DEF Has, Files
  <2>2. ASSUME NEW g \in Files
        PROVE  /\ ftable'[g].ref = 0 => ftable'[g].type = "none"
               /\ ftable'[g].type = "none" =>
                    /\ \A q \in Procs : \A d \in 1..NOFILE : ofile[q][d] # g
                    /\ \A q, s \in Procs : Has(q, g)' /\ Has(s, g)' => q = s
    BY <1>1, <1>2, <1>8, <2>1, <2>2 DEF Unset
  <2> QED
    BY <2>2 DEF Unset
<1>12. \A g \in Files : SameFile(g)
  BY <1>2 DEF SameFile
<1>13. pc[p] \notin InCall \cup {"pclose"} /\ pc'[p] \notin InCall \cup {"pclose"}
  BY <1>6 DEF InCall, InRead, InWrite
<1> QED
  BY <1>5, <1>6, <1>7, <1>9, <1>10, <1>11, <1>12, <1>13, FileStep

LEMMA Least ==
  ASSUME NEW S, S \subseteq Nat, S # {}
  PROVE  Min(S) \in S
<1>1. \E x \in S : \A y \in S : <<y, x>> \notin OpToRel(<, Nat)
  BY NatLessThanWellFounded, WFMin
<1>2. \A x, y \in Nat : <<y, x>> \notin OpToRel(<, Nat) => x <= y
  BY DEF OpToRel
<1>3. \E x \in S : \A y \in S : x <= y
  BY <1>1, <1>2
<1> QED
  BY <1>3 DEF Min

LEMMA FileallocStep ==
  ASSUME Inv, NEW p \in Procs, Filealloc(p)
  PROVE  Inv'
<1> DEFINE free == {f \in Files : ftable[f].ref = 0}
           f == Min(free)
<1>1. pc[p] \in {"user", "pipe2"}
  BY DEF Filealloc, Ready
<1>2. UNCHANGED <<ofile, pipe, kmem, pilock, killed, got, silent>>
  BY DEF Filealloc
<1>3. CASE free = {}
  <2>1. PutRest(p, pc, loc[p]) /\ ftable' = ftable
    BY <1>3 DEF Filealloc
  <2> QED
    BY <1>1, <1>2, <2>1, FileallocFails
<1>4. CASE free # {}
  <2>1. free \subseteq Nat
    BY DEF Files
  <2>2. f \in Files /\ ftable[f].ref = 0
    <3>1. f \in free
      BY <1>4, <2>1, Least
    <3> QED
      BY <3>1
  <2>3. /\ ftable' = [ftable EXCEPT ![f].ref = 1]
        /\ \/ pc[p] = "user" /\ loc' = [loc EXCEPT ![p].f0 = f] /\ Goto(p, "pipe2")
           \/ pc[p] = "pipe2" /\ loc' = [loc EXCEPT ![p].f1 = f] /\ Goto(p, "pipe3")
    BY <1>4 DEF Filealloc
  <2> HIDE DEF f
  <2> QED
    BY <1>2, <2>2, <2>3, FileallocFirst, FileallocSecond
<1> QED
  BY <1>3, <1>4

LEMMA JunkFacts ==
  Junk \in Ring /\ NewPipe \in Ring /\ NewPipe.readopen /\ NewPipe.writeopen /\ Fill(NewPipe) = 0 /\ Fill(Junk) = 0
<1>1. Min(Bytes) \in Bytes
  BY PipeSizes, Least
<1>2. 0 \in 0..(Wrap - 1)
  BY PipeSizes
<1>3. /\ Junk \in Ring /\ Junk.nread = Junk.nwrite
  BY <1>1, <1>2 DEF Junk, Ring
<1> DEFINE x == [Junk EXCEPT !.readopen = TRUE]
           y == [x EXCEPT !.writeopen = TRUE]
           z == [y EXCEPT !.nread = 0]
           u == [z EXCEPT !.nwrite = 0]
<1>4. NewPipe = u
  BY DEF NewPipe
<1>5. x \in Ring /\ x.readopen
  BY <1>3 DEF Ring
<1> HIDE DEF x
<1>6. y \in Ring /\ y.readopen /\ y.writeopen
  BY <1>5 DEF Ring
<1> HIDE DEF y
<1>7. z \in Ring /\ z.readopen /\ z.writeopen /\ z.nread = 0
  BY <1>2, <1>6 DEF Ring
<1> HIDE DEF z
<1>8. u \in Ring /\ u.readopen /\ u.writeopen /\ u.nread = 0 /\ u.nwrite = 0
  BY <1>2, <1>7 DEF Ring
<1> HIDE DEF u
<1>9. NewPipe \in Ring /\ NewPipe.readopen /\ NewPipe.writeopen /\ NewPipe.nread = NewPipe.nwrite
  BY <1>4, <1>8
<1> QED
  BY <1>3, <1>9, RingFacts DEF Empty

LEMMA PipeallocFails ==
  ASSUME Inv, NEW p \in Procs, pc[p] \in {"pipe3", "pipe4"}, Goto(p, "closing"),
         UNCHANGED <<ftable, ofile, pipe, kmem, pilock, loc, killed, got, silent>>
  PROVE  Inv'
<1>1. Types /\ PlaceAt(p) /\ Refs /\ Unset /\ loc[p].f0 # 0 /\ loc[p].k = 0
  BY Known DEF PlaceAt
<1>2. pc' \in [Procs -> Labels] /\ pc'[p] = "closing" /\ \A q \in Procs \ {p} : pc'[q] = pc[q]
  BY <1>1, LabelFacts, Went
<1>3. Types'
  BY <1>1, <1>2 DEF Types
<1>4. PlaceAt(p)'
  BY <1>1, <1>2 DEF PlaceAt, InCall, InRead, InWrite
<1>5. Refs' /\ Unset'
  BY <1>1, RefsKept, UnsetKept
<1>6. \A f \in Files : SameFile(f)
  BY DEF SameFile
<1>7. pc[p] \notin InCall \cup {"pclose"} /\ pc'[p] \notin InCall \cup {"pclose"}
  BY <1>2 DEF InCall, InRead, InWrite
<1> QED
  BY <1>2, <1>3, <1>4, <1>5, <1>6, <1>7, FileStep

LEMMA PipeallocMakes ==
  ASSUME Inv, NEW p \in Procs, pc[p] = "pipe3", NEW k \in kmem, NEW f0 \in Files, NEW f1 \in Files,
         f0 = loc[p].f0, f1 = loc[p].f1,
         kmem' = kmem \ {k}, pipe' = [pipe EXCEPT ![k] = NewPipe],
         ftable' \in [Files -> File], \A f \in Files \ {f0, f1} : ftable'[f] = ftable[f],
         ftable'[f0].ref = ftable[f0].ref, ftable'[f0].type = "pipe",
         ftable'[f0].page = k, ~ftable'[f0].writable,
         ftable'[f1].ref = ftable[f1].ref, ftable'[f1].type = "pipe",
         ftable'[f1].page = k, ftable'[f1].writable,
         Goto(p, "pipe4"), UNCHANGED <<ofile, pilock, loc, killed, got, silent>>
  PROVE  Inv'
<1>1. /\ Types /\ PlaceAt(p) /\ Refs /\ Unset /\ Sides /\ Opened /\ Window
      /\ f0 \in Files /\ f1 \in Files /\ f0 # f1 /\ k \in Pages /\ k # 0
      /\ loc[p].k = 0 /\ loc[p].then = "user" /\ f0 # 0 /\ f1 # 0
      /\ ftable[f0].type = "none" /\ ftable[f1].type = "none"
  BY Known, PipeSizes DEF PlaceAt, Types
<1>2. pc' \in [Procs -> Labels] /\ pc'[p] = "pipe4" /\ \A q \in Procs \ {p} : pc'[q] = pc[q]
  BY <1>1, LabelFacts, Went
<1>3. /\ ftable' \in [Files -> File]
      /\ \A f \in Files : ftable'[f].ref = ftable[f].ref
      /\ \A f \in Files \ {f0, f1} : ftable'[f] = ftable[f]
      /\ ftable'[f0].type = "pipe" /\ ~ftable'[f0].writable /\ ftable'[f0].page = k
      /\ ftable'[f1].type = "pipe" /\ ftable'[f1].writable /\ ftable'[f1].page = k
  <2>1. \A f \in Files : ftable'[f].ref = ftable[f].ref
    OBVIOUS
  <2> QED
    BY <1>1, <2>1
<1>4. /\ pipe' \in [Pages -> Ring] /\ pipe'[k] = NewPipe
      /\ \A j \in Pages \ {k} : pipe'[j] = pipe[j]
  BY <1>1, JunkFacts DEF Types
<1>5. Types'
  BY <1>1, <1>2, <1>3, <1>4 DEF Types
<1>6. Window'
  BY <1>1, <1>4, JunkFacts, PipeSizes DEF Window
<1>7. Refs'
  BY <1>1, <1>3, RefsKept
<1>8. Unset'
  <2>1. ftable[f0].ref # 0 /\ ftable[f1].ref # 0
    BY <1>1, FreeFile DEF Has
  <2> QED
    BY <1>1, <1>3, <2>1 DEF Unset, Has
<1>9. /\ \A f \in Files \ {f0, f1} : \A j, w : FileOf(f, j, w)' <=> FileOf(f, j, w)
      /\ \A j : \A w \in BOOLEAN : /\ FileOf(f0, j, w)' <=> (j = k /\ ~w)
                                   /\ FileOf(f1, j, w)' <=> (j = k /\ w)
      /\ \A j, w : ~FileOf(f0, j, w) /\ ~FileOf(f1, j, w)
  BY <1>1, <1>3 DEF FileOf
<1>10. \A q \in Procs : \A j, w : Closer(q, j, w)' <=> Closer(q, j, w)
  BY <1>1, <1>2 DEF Closer
<1>11. \A w \in BOOLEAN : ~Stands(k, w)
  BY <1>1 DEF Opened
<1>12. Sides'
  <2>1. ASSUME NEW j \in Pages \cup {0}, NEW w \in BOOLEAN
        PROVE  /\ \A f, g \in Files : FileOf(f, j, w)' /\ FileOf(g, j, w)' => f = g
               /\ \A q, s \in Procs : Closer(q, j, w)' /\ Closer(s, j, w)' => q = s
               /\ \A f \in Files, q \in Procs : ~(FileOf(f, j, w)' /\ Closer(q, j, w)')
    <3>1. CASE j # k
      BY <1>1, <1>9, <1>10, <3>1 DEF Sides
    <3>2. CASE j = k
      <4>1. \A f \in Files \ {f0, f1} : ~FileOf(f, j, w)'
        BY <1>9, <1>11, <3>2 DEF Stands
      <4>2. \A q \in Procs : ~Closer(q, j, w)'
        BY <1>10, <1>11, <3>2 DEF Stands
      <4> QED
        BY <1>1, <1>9, <3>2, <4>1, <4>2
    <3> QED
      BY <3>1, <3>2
  <2> QED
    BY <2>1 DEF Sides
<1>13. \A j : \A w \in BOOLEAN : Stands(j, w)' <=> (Stands(j, w) \/ j = k)
  BY <1>1, <1>9, <1>10 DEF Stands
<1>14. Opened'
  BY <1>1, <1>4, <1>13, JunkFacts DEF Opened
<1>15. \A f \in Files : SameFile(f) \/ f \in {f0, f1}
  BY <1>3 DEF SameFile
<1>16. ASSUME NEW q \in Procs PROVE PlaceAt(q)'
  <2>1. CASE q = p
    BY <1>1, <1>2, <1>3, <2>1 DEF PlaceAt, InCall, InRead, InWrite
  <2>2. CASE q # p
    <3>1. \A f \in Files : Has(q, f) => f \notin {f0, f1}
      BY <1>1, <2>2 DEF Unset, Has
    <3>2. \A f \in Files : Has(q, f) => ftable'[f].type = ftable[f].type
      BY <1>3, <3>1
    <3> QED
      BY <1>2, <2>2, <3>2, Known, PlaceKept
  <2> QED
    BY <2>1, <2>2
<1>17. ASSUME NEW q \in Procs PROVE CallAt(q)'
  <2>1. \A d \in 1..NOFILE : ofile[q][d] \notin {f0, f1}
    BY <1>1 DEF Unset
  <2>2. \A f \in Files : (\E d \in 1..NOFILE : ofile[q][d] = f) => SameFile(f)
    BY <1>15, <2>1
  <2>3. pc'[q] = pc[q] \/ pc'[q] = "pipe4"
    BY <1>2
  <2>4. "pipe4" \notin Writing /\ "pipe4" \notin Reading
    BY LabelFacts
  <2> QED
    BY <2>2, <2>3, <2>4, Known, CallKept
<1>18. ASSUME NEW q \in Procs PROVE AsleepAt(q)' /\ LockedAt(q)'
  <2>1. LockedAt(q)'
    BY <1>2, Known DEF LockedAt, InRead, InWrite
  <2>2. pc'[q] \in InCall => pc[q] = pc'[q] /\ loc[q].k # k /\ loc[q].k \in Pages
    <3> SUFFICES ASSUME pc'[q] \in InCall PROVE pc[q] = pc'[q] /\ loc[q].k # k /\ loc[q].k \in Pages
      OBVIOUS
    <3>1. q # p /\ pc[q] = pc'[q]
      BY <1>2 DEF InCall, InRead, InWrite
    <3>2. pc[q] \in Writing \/ pc[q] \in Reading
      BY <3>1 DEF InCall, InRead, InWrite, Writing, Reading
    <3>3. CallAt(q) /\ PlaceAt(q) /\ \A d \in 1..NOFILE : ofile[q][d] \in {0} \cup Files
      BY Known
    <3>4. \E w \in BOOLEAN : Stands(loc[q].k, w)
      BY <3>2, <3>3 DEF CallAt, Stands
    <3> QED
      BY <1>11, <3>1, <3>3, <3>4 DEF PlaceAt
  <2>3. \A s \in Procs : /\ pc'[s] = "rcopy" <=> pc[s] = "rcopy"
                         /\ pc'[s] \in InWrite <=> pc[s] \in InWrite
    BY <1>2 DEF InWrite
  <2>4. AsleepAt(q)'
    <3>1. CASE pc'[q] \in InCall
      BY <1>4, <2>2, <2>3, <3>1, Known DEF AsleepAt
    <3>2. CASE pc'[q] \notin InCall
      BY <3>2 DEF AsleepAt, InCall, InRead, InWrite
    <3> QED
      BY <3>1, <3>2
  <2> QED
    BY <2>1, <2>4
<1> QED
  BY <1>5, <1>6, <1>7, <1>8, <1>12, <1>14, <1>16, <1>17, <1>18 DEF Inv

LEMMA PipeallocStep ==
  ASSUME Inv, NEW p \in Procs, Pipealloc(p)
  PROVE  Inv'
<1>1. pc[p] = "pipe3" /\ UNCHANGED <<ofile, pilock, loc, killed, got, silent>>
  BY DEF Pipealloc
<1>2. CASE Goto(p, "closing") /\ UNCHANGED <<ftable, pipe, kmem>>
  BY <1>1, <1>2, PipeallocFails
<1>3. CASE \E k \in kmem :
             /\ kmem' = kmem \ {k}
             /\ pipe' = [pipe EXCEPT ![k] = NewPipe]
             /\ ftable' = [f \in Files |->
                  IF f \in {loc[p].f0, loc[p].f1}
                  THEN [ref |-> ftable[f].ref, type |-> "pipe", writable |-> f = loc[p].f1, page |-> k]
                  ELSE ftable[f]]
             /\ Goto(p, "pipe4")
  <2>1. PICK k \in kmem :
          /\ kmem' = kmem \ {k}
          /\ pipe' = [pipe EXCEPT ![k] = NewPipe]
          /\ ftable' = [f \in Files |->
               IF f \in {loc[p].f0, loc[p].f1}
               THEN [ref |-> ftable[f].ref, type |-> "pipe", writable |-> f = loc[p].f1, page |-> k]
               ELSE ftable[f]]
          /\ Goto(p, "pipe4")
    BY <1>3
  <2> DEFINE f0 == loc[p].f0
             f1 == loc[p].f1
  <2>2. ftable' = [f \in Files |->
          IF f \in {f0, f1}
          THEN [ref |-> ftable[f].ref, type |-> "pipe", writable |-> f = f1, page |-> k]
          ELSE ftable[f]]
    BY <2>1
  <2>3. f0 = loc[p].f0 /\ f1 = loc[p].f1
    OBVIOUS
  <2> HIDE DEF f0, f1
  <2>4. Types /\ f0 \in Files /\ f1 \in Files /\ f0 # f1 /\ k \in Pages
    BY <1>1, <2>3, Known DEF PlaceAt, Types
  <2>5. \A f \in Files : ftable[f] \in File /\ ftable[f].ref \in Nat
    BY <2>4 DEF Types, File
  <2>6. \A f \in Files \ {f0, f1} : ftable'[f] = ftable[f]
    BY <2>2
  <2>7. /\ ftable'[f0] = [ref |-> ftable[f0].ref, type |-> "pipe", writable |-> FALSE, page |-> k]
        /\ ftable'[f1] = [ref |-> ftable[f1].ref, type |-> "pipe", writable |-> TRUE, page |-> k]
    BY <2>2, <2>4
  <2>8. /\ ftable'[f0] \in File /\ ftable'[f0].ref = ftable[f0].ref
        /\ ftable'[f0].type = "pipe" /\ ftable'[f0].page = k /\ ~ftable'[f0].writable
    BY <2>4, <2>5, <2>7 DEF File
  <2>9. /\ ftable'[f1] \in File /\ ftable'[f1].ref = ftable[f1].ref
        /\ ftable'[f1].type = "pipe" /\ ftable'[f1].page = k /\ ftable'[f1].writable
    BY <2>4, <2>5, <2>7 DEF File
  <2>10. ftable' \in [Files -> File]
    <3>1. \A f \in Files : ftable'[f] \in File
      BY <2>5, <2>6, <2>8, <2>9
    <3> QED
      BY <2>2, <3>1
  <2> QED
    BY <1>1, <2>1, <2>3, <2>4, <2>6, <2>8, <2>9, <2>10, PipeallocMakes
<1> QED
  BY <1>2, <1>3 DEF Pipealloc

LEMMA FdJoins ==
  ASSUME Types, NEW p \in Procs, NEW d \in 1..NOFILE, NEW f \in Files, ofile[p][d] # f, ofile'[p][d] = f,
         \A e \in (1..NOFILE) \ {d} : ofile'[p][e] = f <=> ofile[p][e] = f,
         \A q \in Procs \ {p} : ofile'[q] = ofile[q]
  PROVE  Cardinality(Fds(f)') = Cardinality(Fds(f)) + 1
<1>1. Fds(f)' = Fds(f) \cup {<<p, d>>} /\ <<p, d>> \notin Fds(f)
  BY DEF Fds
<1> QED
  BY <1>1, Finite, OneMore

LEMMA SysPipeMakes ==
  ASSUME Inv, NEW p \in Procs, pc[p] = "pipe4", NEW fd0 \in 1..NOFILE, NEW fd1 \in 1..NOFILE, fd0 # fd1,
         ofile[p][fd0] = 0, ofile[p][fd1] = 0, NEW f0 \in Files, NEW f1 \in Files,
         f0 = loc[p].f0, f1 = loc[p].f1,
         ofile' \in [Procs -> [1..NOFILE -> {0} \cup Files]],
         ofile'[p][fd0] = f0, ofile'[p][fd1] = f1,
         \A d \in (1..NOFILE) \ {fd0, fd1} : ofile'[p][d] = ofile[p][d],
         \A q \in Procs \ {p} : ofile'[q] = ofile[q],
         loc' = [loc EXCEPT ![p] = NoLoc], Goto(p, "user"),
         UNCHANGED <<ftable, pipe, kmem, pilock, killed, got, silent>>
  PROVE  Inv'
<1>1. /\ Types /\ PlaceAt(p) /\ Refs /\ Unset
      /\ f0 # f1 /\ f0 # 0 /\ f1 # 0
      /\ ftable[f0].type = "pipe" /\ ftable[f1].type = "pipe"
  BY Known DEF PlaceAt
<1>3. loc' \in [Procs -> Local] /\ loc'[p] = NoLoc /\ \A q \in Procs \ {p} : loc'[q] = loc[q]
  BY <1>1, NoLocFacts, SetLoc
<1>4. pc' \in [Procs -> Labels] /\ pc'[p] = "user" /\ \A q \in Procs \ {p} : pc'[q] = pc[q]
  BY <1>1, LabelFacts, Went
<1>5. Types'
  BY <1>1, <1>3, <1>4 DEF Types
<1>6. PlaceAt(p)'
  BY <1>3, <1>4, NoLocFacts DEF PlaceAt, InCall, InRead, InWrite
<1>7. Refs'
  <2>1. Cardinality(Fds(f0)') = Cardinality(Fds(f0)) + 1
    <3>1. \A d \in (1..NOFILE) \ {fd0} : ofile'[p][d] = f0 <=> ofile[p][d] = f0
      BY <1>1
    <3> QED
      BY <1>1, <3>1, FdJoins
  <2>2. Cardinality(Fds(f1)') = Cardinality(Fds(f1)) + 1
    <3>1. \A d \in (1..NOFILE) \ {fd1} : ofile'[p][d] = f1 <=> ofile[p][d] = f1
      BY <1>1
    <3> QED
      BY <1>1, <3>1, FdJoins
  <2>3. \A g \in Files \ {f0, f1} : Fds(g)' = Fds(g)
    <3> SUFFICES ASSUME NEW g \in Files \ {f0, f1} PROVE Fds(g)' = Fds(g)
      OBVIOUS
    <3>1. \A q \in Procs, d \in 1..NOFILE : ofile'[q][d] = g <=> ofile[q][d] = g
      BY DEF Files
    <3> QED
      BY <3>1 DEF Fds
  <2>4. /\ Cardinality(First0(f0)') = Cardinality(First0(f0)) - 1
        /\ \A g \in Files \ {f0} : First0(g)' = First0(g)
    BY <1>1, <1>3, NoLocFacts, FirstLost
  <2>5. /\ Cardinality(Second1(f1)') = Cardinality(Second1(f1)) - 1
        /\ \A g \in Files \ {f1} : Second1(g)' = Second1(g)
    BY <1>1, <1>3, NoLocFacts, SecondLost
  <2>6. Counted(f0) /\ Counted(f1)
    BY <1>1 DEF Refs
  <2>7. Counted(f0)'
    BY <1>1, <2>1, <2>4, <2>5, <2>6, Finite DEF Counted
  <2>8. Counted(f1)'
    BY <1>1, <2>2, <2>4, <2>5, <2>6, Finite DEF Counted
  <2>9. \A g \in Files \ {f0, f1} : Counted(g)'
    BY <1>1, <2>3, <2>4, <2>5 DEF Refs, Counted
  <2> QED
    BY <2>7, <2>8, <2>9 DEF Refs
<1>8. Unset'
  <2>1. \A q \in Procs : \A f \in Files : Has(q, f)' => Has(q, f)
    BY <1>3, NoLocFacts DEF Has, Files
  <2>2. \A q \in Procs : \A d \in 1..NOFILE : ofile'[q][d] \in {ofile[q][d], f0, f1}
    OBVIOUS
  <2> QED
    BY <1>1, <2>1, <2>2 DEF Unset
<1>9. \A f \in Files : SameFile(f)
  BY DEF SameFile
<1>10. pc[p] \notin InCall \cup {"pclose"} /\ pc'[p] \notin InCall \cup {"pclose"}
  BY <1>4 DEF InCall, InRead, InWrite
<1> QED
  BY <1>3, <1>4, <1>5, <1>6, <1>7, <1>8, <1>9, <1>10, FileStep

LEMMA SysPipeStep ==
  ASSUME Inv, NEW p \in Procs, SysPipe(p)
  PROVE  Inv'
<1> DEFINE free == {d \in 1..NOFILE : ofile[p][d] = 0}
           fd0 == Min(free)
           fd1 == Min(free \ {fd0})
<1>1. pc[p] = "pipe4" /\ UNCHANGED <<ftable, pipe, kmem, pilock, killed, got, silent>>
  BY DEF SysPipe
<1>2. CASE Goto(p, "closing") /\ UNCHANGED <<ofile, loc>>
  BY <1>1, <1>2, PipeallocFails
<1>3. CASE /\ Cardinality(free) >= 2
           /\ ofile' = [ofile EXCEPT ![p] = [@ EXCEPT ![fd0] = loc[p].f0, ![fd1] = loc[p].f1]]
           /\ loc' = [loc EXCEPT ![p] = NoLoc]
           /\ Goto(p, "user")
  <2>1. free \subseteq Nat /\ IsFiniteSet(free)
    <3>1. free \in SUBSET (1..NOFILE) /\ free \subseteq Nat
      OBVIOUS
    <3>2. 1 \in Int /\ NOFILE \in Int
      BY PipeSizes
    <3>3. IsFiniteSet(1..NOFILE)
      BY <3>2, FS_Interval
    <3> QED
      BY <3>1, <3>3, FS_Subset
  <2>2. free # {}
    <3> HIDE DEF free
    <3> QED
      BY <1>3, FS_EmptySet
  <2>3. fd0 \in free
    BY <2>1, <2>2, Least
  <2>4. free \ {fd0} # {}
    <3> HIDE DEF free, fd0
    <3>1. Cardinality(free \ {fd0}) = Cardinality(free) - 1
      BY <2>1, <2>3, OneLess
    <3>2. Cardinality(free) \in Nat
      BY <2>1, FS_CardinalityType
    <3>3. Cardinality(free \ {fd0}) # 0
      BY <1>3, <3>1, <3>2
    <3> QED
      BY <3>3, FS_EmptySet
  <2>5. fd1 \in free \ {fd0}
    <3>1. free \ {fd0} \subseteq Nat
      BY <2>1
    <3> HIDE DEF free, fd0
    <3> QED
      BY <2>4, <3>1, Least
  <2>6. fd0 \in 1..NOFILE /\ fd1 \in 1..NOFILE /\ fd0 # fd1 /\ ofile[p][fd0] = 0 /\ ofile[p][fd1] = 0
    BY <2>3, <2>5
  <2> HIDE DEF fd0, fd1
  <2> DEFINE f0 == loc[p].f0
             f1 == loc[p].f1
  <2>7. /\ Types /\ f0 = loc[p].f0 /\ f1 = loc[p].f1 /\ f0 \in Files /\ f1 \in Files
        /\ ofile' = [ofile EXCEPT ![p] = [@ EXCEPT ![fd0] = f0, ![fd1] = f1]]
        /\ loc' = [loc EXCEPT ![p] = NoLoc] /\ Goto(p, "user")
    BY <1>1, <1>3, Known DEF PlaceAt
  <2> HIDE DEF f0, f1
  <2>8. /\ ofile' \in [Procs -> [1..NOFILE -> {0} \cup Files]]
        /\ ofile'[p][fd0] = f0 /\ ofile'[p][fd1] = f1
        /\ \A d \in (1..NOFILE) \ {fd0, fd1} : ofile'[p][d] = ofile[p][d]
        /\ \A q \in Procs \ {p} : ofile'[q] = ofile[q]
    <3> DEFINE row == [ofile[p] EXCEPT ![fd0] = f0, ![fd1] = f1]
    <3>1. ofile \in [Procs -> [1..NOFILE -> {0} \cup Files]] /\ ofile[p] \in [1..NOFILE -> {0} \cup Files]
      BY <2>7 DEF Types
    <3>2. /\ row \in [1..NOFILE -> {0} \cup Files] /\ row[fd0] = f0 /\ row[fd1] = f1
          /\ \A d \in (1..NOFILE) \ {fd0, fd1} : row[d] = ofile[p][d]
      BY <2>6, <2>7, <3>1
    <3>3. ofile' = [ofile EXCEPT ![p] = row]
      BY <2>7
    <3> HIDE DEF row
    <3>4. /\ ofile' \in [Procs -> [1..NOFILE -> {0} \cup Files]] /\ ofile'[p] = row
          /\ \A q \in Procs \ {p} : ofile'[q] = ofile[q]
      BY <3>1, <3>2, <3>3
    <3> QED
      BY <3>2, <3>4
  <2> QED
    BY <1>1, <2>6, <2>7, <2>8, SysPipeMakes
<1> QED
  BY <1>2, <1>3 DEF SysPipe

LEMMA DupMakes ==
  ASSUME Inv, NEW p \in Procs, pc[p] = "user", NEW d \in 1..NOFILE, NEW e \in 1..NOFILE,
         NEW f \in Files, f = ofile[p][d], f # 0, ofile[p][e] = 0,
         ofile' \in [Procs -> [1..NOFILE -> {0} \cup Files]], ofile'[p][e] = f,
         \A c \in (1..NOFILE) \ {e} : ofile'[p][c] = ofile[p][c],
         \A q \in Procs \ {p} : ofile'[q] = ofile[q],
         ftable' \in [Files -> File], ftable'[f].ref = ftable[f].ref + 1,
         \A g \in Files \ {f} : ftable'[g].ref = ftable[g].ref,
         \A g \in Files : SameFile(g),
         UNCHANGED <<pipe, kmem, pilock, pc, loc, killed, got, silent>>
  PROVE  Inv'
<1>1. /\ Types /\ PlaceAt(p) /\ Refs /\ Unset /\ f \in Files
      /\ ftable[f].type # "none" /\ ftable[f].ref \in Nat
  <2>1. Types /\ PlaceAt(p) /\ Refs /\ Unset /\ f \in Files
    BY Known
  <2> QED
    BY <2>1 DEF Unset, Types, File
<1>4. Types'
  BY <1>1 DEF Types
<1>5. PlaceAt(p)'
  <2>1. loc[p].f0 = 0 /\ loc[p].f1 = 0
    BY <1>1, NoLocFacts DEF PlaceAt
  <2> QED
    BY <1>1, <2>1 DEF PlaceAt, InCall, InRead, InWrite, SameFile
<1>6. Refs'
  <2>1. /\ Cardinality(Fds(f)') = Cardinality(Fds(f)) + 1
        /\ \A g \in Files \ {f} : Fds(g)' = Fds(g)
    BY <1>1, FdGained
  <2>2. \A g : First0(g)' = First0(g) /\ Second1(g)' = Second1(g)
    BY DEF First0, Second1
  <2>3. \A g \in Files \ {f} : Counted(g)'
    BY <1>1, <2>1, <2>2 DEF Refs, Counted
  <2>4. Counted(f)'
    BY <1>1, <2>1, <2>2, Finite DEF Refs, Counted
  <2> QED
    BY <2>3, <2>4 DEF Refs
<1>7. Unset'
  <2>1. \A q \in Procs : \A c \in 1..NOFILE : ofile'[q][c] \in {ofile[q][c], f}
    OBVIOUS
  <2> QED
    <3>1. \A g \in Files : ftable'[g].type = ftable[g].type
      BY DEF SameFile
    <3>2. ftable'[f].ref # 0 /\ \A g \in Files \ {f} : ftable'[g].ref = ftable[g].ref
      BY <1>1
    <3> QED
      BY <1>1, <2>1, <3>1, <3>2 DEF Unset, Has
<1>9. pc[p] \notin InCall \cup {"pclose"}
  BY DEF InCall, InRead, InWrite
<1> QED
  BY <1>4, <1>5, <1>6, <1>7, <1>9, FileStep

LEMMA SysDupStep ==
  ASSUME Inv, NEW p \in Procs, SysDup(p)
  PROVE  Inv'
<1>1. PICK d \in 1..NOFILE :
        /\ Ready(p) /\ ofile[p][d] # 0 /\ {e \in 1..NOFILE : ofile[p][e] = 0} # {}
        /\ ofile' = [ofile EXCEPT ![p][Min({e \in 1..NOFILE : ofile[p][e] = 0})] = ofile[p][d]]
        /\ ftable' = [ftable EXCEPT ![ofile[p][d]].ref = ftable[ofile[p][d]].ref + 1]
        /\ UNCHANGED <<pipe, kmem, pilock, pc, loc, killed, got, silent>>
  BY DEF SysDup
<1> DEFINE free == {e \in 1..NOFILE : ofile[p][e] = 0}
           e0 == Min(free)
           f == ofile[p][d]
           n == ftable[f].ref + 1
<1>2. e0 \in free
  <2>1. free \subseteq Nat /\ free # {}
    BY <1>1
  <2> HIDE DEF free
  <2> QED
    BY <2>1, Least
<1>3. /\ e0 \in 1..NOFILE /\ ofile[p][e0] = 0 /\ ofile' = [ofile EXCEPT ![p][e0] = f]
      /\ ftable' = [ftable EXCEPT ![f].ref = n]
      /\ f = ofile[p][d] /\ n = ftable[f].ref + 1 /\ f # 0 /\ pc[p] = "user"
      /\ UNCHANGED <<pipe, kmem, pilock, pc, loc, killed, got, silent>>
  BY <1>1, <1>2 DEF Ready
<1> HIDE DEF e0, f, n
<1>4. Types /\ f \in Files
  BY <1>3, Known
<1>5. ftable[f].ref \in Nat
  BY <1>4 DEF Types, File
<1>6. n \in Nat
  BY <1>3, <1>5
<1>7. /\ ofile' \in [Procs -> [1..NOFILE -> {0} \cup Files]] /\ ofile'[p][e0] = f
      /\ \A c \in (1..NOFILE) \ {e0} : ofile'[p][c] = ofile[p][c]
      /\ \A q \in Procs \ {p} : ofile'[q] = ofile[q]
  BY <1>3, <1>4 DEF Types
<1>8. /\ ftable' \in [Files -> File] /\ ftable'[f].ref = n
      /\ \A g \in Files \ {f} : ftable'[g].ref = ftable[g].ref
      /\ \A g \in Files : /\ ftable'[g].type = ftable[g].type /\ ftable'[g].page = ftable[g].page
                          /\ ftable'[g].writable <=> ftable[g].writable
  BY <1>3, <1>4, <1>6, SetRef
<1>9. \A g \in Files : SameFile(g)
  BY <1>8 DEF SameFile
<1>10. ftable'[f].ref = ftable[f].ref + 1
  BY <1>3, <1>8
<1>11. /\ e0 \in 1..NOFILE /\ ofile[p][e0] = 0 /\ f = ofile[p][d] /\ f # 0 /\ pc[p] = "user"
       /\ UNCHANGED <<pipe, kmem, pilock, pc, loc, killed, got, silent>>
  BY <1>3
<1> QED
  BY <1>4, <1>7, <1>8, <1>9, <1>10, <1>11, DupMakes

\* close() and exit(): a descriptor becomes a file that the process has to put.
LEMMA CloseFd ==
  ASSUME Inv, NEW p \in Procs, pc[p] \in {"user", "exiting"}, NEW d \in 1..NOFILE, NEW f \in Files,
         f = ofile[p][d], ofile' \in [Procs -> [1..NOFILE -> {0} \cup Files]], ofile'[p][d] = 0,
         \A c \in (1..NOFILE) \ {d} : ofile'[p][c] = ofile[p][c],
         \A q \in Procs \ {p} : ofile'[q] = ofile[q],
         NEW r \in Local, r.f0 = f, r.f1 = 0, r.k = 0, PutRest(p, pc, r),
         UNCHANGED <<ftable, pipe, kmem, pilock, killed, got, silent>>
  PROVE  Inv'
<1>1. /\ Types /\ PlaceAt(p) /\ Refs /\ Unset /\ f # 0 /\ ftable[f].type # "none"
      /\ loc[p] = NoLoc /\ pc \in [Procs -> Labels]
  BY Known DEF PlaceAt, Unset, Types
<1>3. /\ loc' \in [Procs -> Local] /\ pc' \in [Procs -> Labels]
      /\ \A q \in Procs \ {p} : loc'[q] = loc[q] /\ pc'[q] = pc[q]
      /\ loc'[p] = r /\ pc'[p] = "closing"
  BY <1>1, Put
<1>4. Types'
  BY <1>1, <1>3 DEF Types
<1>5. PlaceAt(p)'
  BY <1>1, <1>3 DEF PlaceAt, InCall, InRead, InWrite
<1>6. Refs'
  <2>1. /\ Cardinality(Fds(f)') = Cardinality(Fds(f)) - 1
        /\ \A g \in Files \ {f} : Fds(g)' = Fds(g)
    BY <1>1, FdLost
  <2>2. /\ Cardinality(First0(f)') = Cardinality(First0(f)) + 1
        /\ \A g \in Files \ {f} : First0(g)' = First0(g)
    BY <1>1, <1>3, NoLocFacts, FirstGained
  <2>3. \A g : Second1(g)' = Second1(g)
    BY <1>1, <1>3, NoLocFacts DEF Second1
  <2>4. \A g \in Files \ {f} : Counted(g)'
    BY <1>1, <2>1, <2>2, <2>3 DEF Refs, Counted
  <2>5. Counted(f)'
    BY <1>1, <2>1, <2>2, <2>3, Finite DEF Refs, Counted
  <2> QED
    BY <2>4, <2>5 DEF Refs
<1>7. Unset'
  <2>1. \A q \in Procs : \A g \in Files \ {f} : Has(q, g)' => Has(q, g)
    BY <1>1, <1>3 DEF Has, Files
  <2>2. \A q \in Procs : \A c \in 1..NOFILE : ofile'[q][c] \in {ofile[q][c], 0}
    OBVIOUS
  <2>3. 0 \notin Files
    BY DEF Files
  <2> QED
    BY <1>1, <2>1, <2>2, <2>3 DEF Unset
<1>8. \A g \in Files : SameFile(g)
  BY DEF SameFile
<1>9. pc[p] \notin InCall \cup {"pclose"} /\ pc'[p] \notin InCall \cup {"pclose"}
  BY <1>3 DEF InCall, InRead, InWrite
<1> QED
  BY <1>3, <1>4, <1>5, <1>6, <1>7, <1>8, <1>9, FileStep

LEMMA SysCloseStep ==
  ASSUME Inv, NEW p \in Procs, SysClose(p)
  PROVE  Inv'
<1>1. PICK d \in 1..NOFILE :
        /\ Ready(p) /\ ofile[p][d] # 0
        /\ ofile' = [ofile EXCEPT ![p][d] = 0]
        /\ PutRest(p, pc, [NoLoc EXCEPT !.f0 = ofile[p][d]])
        /\ UNCHANGED <<ftable, pipe, kmem, pilock, killed, got, silent>>
  BY DEF SysClose
<1> DEFINE f == ofile[p][d]
           r == [NoLoc EXCEPT !.f0 = f]
<1>2. f \in Files /\ pc[p] = "user" /\ PutRest(p, pc, r)
  BY <1>1, Known DEF Ready
<1>3. f = ofile[p][d]
  OBVIOUS
<1> HIDE DEF f
<1>4. r \in Local /\ r.f0 = f /\ r.f1 = 0 /\ r.k = 0
  BY <1>2, NoLocFacts, SetF0
<1> HIDE DEF r
<1>5. Types /\ 0 \in {0} \cup Files
  BY DEF Inv
<1>6. /\ ofile' \in [Procs -> [1..NOFILE -> {0} \cup Files]] /\ ofile'[p][d] = 0
      /\ \A c \in (1..NOFILE) \ {d} : ofile'[p][c] = ofile[p][c]
      /\ \A q \in Procs \ {p} : ofile'[q] = ofile[q]
  BY <1>1, <1>5, SetFd
<1>7. UNCHANGED <<ftable, pipe, kmem, pilock, killed, got, silent>>
  BY <1>1
<1> QED
  BY <1>2, <1>3, <1>4, <1>6, <1>7, CloseFd

\* exit() with everything put.
LEMMA ExitEnds ==
  ASSUME Inv, NEW p \in Procs, pc[p] \in {"user", "exiting"}, \A d \in 1..NOFILE : ofile[p][d] = 0,
         Goto(p, "unused"), killed' = killed \ {p},
         UNCHANGED <<ftable, ofile, pipe, kmem, pilock, loc, got, silent>>
  PROVE  Inv'
<1>1. Types /\ PlaceAt(p) /\ Refs /\ Unset /\ loc[p] = NoLoc
  BY Known DEF PlaceAt
<1>2. pc' \in [Procs -> Labels] /\ pc'[p] = "unused" /\ \A q \in Procs \ {p} : pc'[q] = pc[q]
  BY <1>1, LabelFacts, Went
<1>3. Types'
  BY <1>1, <1>2 DEF Types
<1>4. PlaceAt(p)'
  BY <1>1, <1>2, NoLocFacts DEF PlaceAt, InCall, InRead, InWrite
<1>5. Refs' /\ Unset'
  BY <1>1, RefsKept, UnsetKept
<1>6. \A f \in Files : SameFile(f)
  BY DEF SameFile
<1>7. pc[p] \notin InCall \cup {"pclose"} /\ pc'[p] \notin InCall \cup {"pclose"}
  BY <1>2 DEF InCall, InRead, InWrite
<1> QED
  BY <1>2, <1>3, <1>4, <1>5, <1>6, <1>7, FileStep

LEMMA ExitStep ==
  ASSUME Inv, NEW p \in Procs, Exit(p)
  PROVE  Inv'
<1> DEFINE open == {d \in 1..NOFILE : ofile[p][d] # 0}
           d0 == Min(open)
<1>1. pc[p] \in {"user", "exiting"} /\ UNCHANGED <<ftable, pipe, kmem, pilock, got, silent>>
  BY DEF Exit
<1>2. CASE /\ open # {}
           /\ ofile' = [ofile EXCEPT ![p][d0] = 0]
           /\ PutRest(p, pc, [NoLoc EXCEPT !.f0 = ofile[p][d0], !.then = "exiting"])
           /\ UNCHANGED killed
  <2>1. d0 \in open
    <3>1. open \subseteq Nat
      OBVIOUS
    <3> HIDE DEF open
    <3> QED
      BY <1>2, <3>1, Least
  <2>2. d0 \in 1..NOFILE /\ ofile[p][d0] # 0
    BY <2>1
  <2> HIDE DEF d0
  <2> DEFINE f == ofile[p][d0]
             s == [NoLoc EXCEPT !.f0 = f]
             r == [s EXCEPT !.then = "exiting"]
  <2>3. f \in Files /\ PutRest(p, pc, r)
    BY <1>2, <2>2, Known
  <2>4. f = ofile[p][d0]
    OBVIOUS
  <2> HIDE DEF f
  <2>5. s \in Local /\ s.f0 = f /\ s.f1 = 0 /\ s.k = 0
    BY <2>3, NoLocFacts, SetF0
  <2> HIDE DEF s
  <2>6. r \in Local /\ r.f0 = f /\ r.f1 = 0 /\ r.k = 0
    BY <2>5, SetThen
  <2> HIDE DEF r
  <2>7. ofile' = [ofile EXCEPT ![p][d0] = 0] /\ UNCHANGED killed
    BY <1>2
  <2>8. Types /\ 0 \in {0} \cup Files
    BY DEF Inv
  <2>9. /\ ofile' \in [Procs -> [1..NOFILE -> {0} \cup Files]] /\ ofile'[p][d0] = 0
        /\ \A c \in (1..NOFILE) \ {d0} : ofile'[p][c] = ofile[p][c]
        /\ \A q \in Procs \ {p} : ofile'[q] = ofile[q]
    BY <2>2, <2>7, <2>8, SetFd
  <2> QED
    BY <1>1, <2>2, <2>3, <2>4, <2>6, <2>7, <2>9, CloseFd
<1>3. CASE /\ open = {}
           /\ Goto(p, "unused")
           /\ killed' = killed \ {p}
           /\ UNCHANGED <<ofile, loc>>
  <2>1. \A d \in 1..NOFILE : ofile[p][d] = 0
    BY <1>3
  <2> QED
    BY <1>1, <1>3, <2>1, ExitEnds
<1> QED
  BY <1>2, <1>3 DEF Exit

\* fileclose() by p of f, after which it has rest.
LEMMA FilePut ==
  ASSUME Types, Refs, NEW p \in Procs, NEW f \in Files, UNCHANGED ofile,
         ftable'[f].ref = ftable[f].ref - 1, \A g \in Files \ {f} : ftable'[g] = ftable[g],
         \A q \in Procs \ {p} : loc'[q] = loc[q],
         \/ loc[p].f0 = f /\ loc'[p].f0 = 0 /\ loc'[p].f1 = loc[p].f1
         \/ loc[p].f1 = f /\ loc'[p].f1 = 0 /\ loc'[p].f0 = loc[p].f0
  PROVE  Refs'
<1>1. \A g : Fds(g)' = Fds(g)
  BY DEF Fds
<1>2. \A g \in Files : Counted(g) /\ ftable[g].ref \in Nat
  <2>1. \A g \in Files : ftable[g].ref \in Nat
    BY DEF Types, File
  <2> QED
    BY <2>1 DEF Refs
<1>3. CASE loc[p].f0 = f /\ loc'[p].f0 = 0 /\ loc'[p].f1 = loc[p].f1
  <2>1. /\ Cardinality(First0(f)') = Cardinality(First0(f)) - 1
        /\ \A g \in Files \ {f} : First0(g)' = First0(g)
    BY <1>3, FirstLost
  <2>2. \A g : Second1(g)' = Second1(g)
    BY <1>3 DEF Second1
  <2>3. \A g \in Files \ {f} : Counted(g)'
    BY <1>1, <1>2, <2>1, <2>2 DEF Counted
  <2>4. Counted(f)'
    BY <1>1, <1>2, <2>1, <2>2, Finite DEF Counted
  <2> QED
    BY <2>3, <2>4 DEF Refs
<1>4. CASE loc[p].f1 = f /\ loc'[p].f1 = 0 /\ loc'[p].f0 = loc[p].f0
  <2>1. /\ Cardinality(Second1(f)') = Cardinality(Second1(f)) - 1
        /\ \A g \in Files \ {f} : Second1(g)' = Second1(g)
    BY <1>4, SecondLost
  <2>2. \A g : First0(g)' = First0(g)
    BY <1>4 DEF First0
  <2>3. \A g \in Files \ {f} : Counted(g)'
    BY <1>1, <1>2, <2>1, <2>2 DEF Counted
  <2>4. Counted(f)'
    BY <1>1, <1>2, <2>1, <2>2, Finite DEF Counted
  <2> QED
    BY <2>3, <2>4 DEF Refs
<1> QED
  BY <1>3, <1>4

\* fileclose(), but for the last reference to a pipe.
LEMMA FilecloseRest ==
  ASSUME Inv, NEW p \in Procs, pc[p] = "closing", NEW f \in Files, NEW r \in Local,
         \/ loc[p].f0 = f /\ r.f0 = 0 /\ r.f1 = loc[p].f1
         \/ loc[p].f0 = 0 /\ loc[p].f1 = f /\ r.f1 = 0 /\ r.f0 = 0,
         r.k = 0, ftable' \in [Files -> File], ftable'[f].ref = ftable[f].ref - 1,
         \A g \in Files \ {f} : ftable'[g] = ftable[g], \A g \in Files : SameFile(g),
         ftable[f].ref = 1 => ftable'[f].type = "none",
         PutRest(p, pc, r), UNCHANGED <<ofile, pipe, kmem, pilock, killed, got, silent>>
  PROVE  Inv'
<1>1. Types /\ PlaceAt(p) /\ Refs /\ Unset /\ f # 0 /\ pc \in [Procs -> Labels] /\ ftable[f].ref \in Nat
  <2>1. Types /\ PlaceAt(p) /\ Refs /\ Unset /\ f # 0
    BY Known
  <2> QED
    BY <2>1 DEF Types, File
<1>2. /\ loc' \in [Procs -> Local] /\ pc' \in [Procs -> Labels]
      /\ \A q \in Procs \ {p} : loc'[q] = loc[q] /\ pc'[q] = pc[q]
      /\ loc'[p].f0 = r.f0 /\ loc'[p].f1 = r.f1
      /\ r.f0 = 0 /\ r.f1 = 0 => loc'[p] = NoLoc /\ pc'[p] = r.then
      /\ r.f0 # 0 \/ r.f1 # 0 => loc'[p] = r /\ pc'[p] = "closing"
      /\ pc'[p] \in {"user", "exiting", "closing"}
  BY <1>1, Put
<1>3. Types'
  BY <1>1, <1>2 DEF Types
<1>4. PlaceAt(p)'
  <2>1. r.then \in {"user", "exiting"}
    BY DEF Local
  <2>2. CASE r.f0 = 0 /\ r.f1 = 0
    BY <1>2, <2>1, <2>2, NoLocFacts DEF PlaceAt, InCall, InRead, InWrite
  <2>3. CASE r.f1 # 0
    BY <1>2, <2>3, LabelFacts DEF PlaceAt
  <2> QED
    BY <2>2, <2>3
<1>5. Refs'
  BY <1>1, <1>2, FilePut
<1>6. Unset'
  <2>1. \A q \in Procs : \A g \in Files : Has(q, g)' => Has(q, g)
    BY <1>2 DEF Has, Files
  <2>2. \A g \in Files : ftable'[g].type = ftable[g].type
    BY DEF SameFile
  <2>3. \A g \in Files : ftable'[g].ref = 0 => ftable'[g].type = "none"
    <3>1. ftable'[f].ref = 0 => ftable'[f].type = "none"
      BY <1>1
    <3> QED
      BY <1>1, <3>1 DEF Unset
  <2> QED
    BY <1>1, <2>1, <2>2, <2>3 DEF Unset
<1>7. pc[p] \notin InCall \cup {"pclose"} /\ pc'[p] \notin InCall \cup {"pclose"}
  BY <1>2 DEF InCall, InRead, InWrite
<1> QED
  BY <1>2, <1>3, <1>4, <1>5, <1>6, <1>7, FileStep

\* The last reference to a pipe: the side that the file stood for goes to the process.
LEMMA FilecloseLast ==
  ASSUME Inv, NEW p \in Procs, pc[p] = "closing", NEW f \in Files, NEW r \in Local,
         \/ loc[p].f0 = f /\ r.f0 = 0 /\ r.f1 = loc[p].f1
         \/ loc[p].f0 = 0 /\ loc[p].f1 = f /\ r.f1 = 0 /\ r.f0 = 0,
         NEW k, NEW w \in BOOLEAN, k = ftable[f].page, w <=> ftable[f].writable,
         r.k = k, r.w <=> w, ftable[f].ref = 1, ftable[f].type = "pipe",
         ftable' \in [Files -> File], ftable'[f].ref = 0, ftable'[f].type = "none",
         \A g \in Files \ {f} : ftable'[g] = ftable[g],
         loc' = [loc EXCEPT ![p] = r], Goto(p, "pclose"),
         UNCHANGED <<ofile, pipe, kmem, pilock, killed, got, silent>>
  PROVE  Inv'
<1>1. Types /\ PlaceAt(p) /\ Refs /\ Unset /\ Sides /\ Opened /\ Window /\ f # 0
  BY Known
<1>2. loc' \in [Procs -> Local] /\ loc'[p] = r /\ \A q \in Procs \ {p} : loc'[q] = loc[q]
  BY <1>1, SetLoc
<1>3. pc' \in [Procs -> Labels] /\ pc'[p] = "pclose" /\ \A q \in Procs \ {p} : pc'[q] = pc[q]
  BY <1>1, LabelFacts, Went
<1>4. Types'
  BY <1>1, <1>2, <1>3 DEF Types
<1>5. /\ FileOf(f, k, w) /\ Stands(k, w)
      /\ k \in Pages
  <2>1. FileOf(f, k, w)
    BY DEF FileOf
  <2>2. Stands(k, w)
    BY <2>1 DEF Stands
  <2>3. ftable[f] \in File
    BY <1>1 DEF Types
  <2>4. k \in Pages \cup {0}
    BY <2>3 DEF File
  <2> QED
    BY <1>1, <2>1, <2>2, <2>4 DEF Opened
<1>6. /\ \A q \in Procs : \A d \in 1..NOFILE : ofile[q][d] # f
      /\ \A q \in Procs : Has(q, f) => q = p
  <2>1. Has(p, f)
    BY DEF Has
  <2> QED
    BY <1>1, <2>1, LastRef
<1>7. Refs'
  <2>1. ftable'[f].ref = ftable[f].ref - 1
    OBVIOUS
  <2> QED
    BY <1>1, <1>2, <2>1, FilePut
<1>8. Unset'
  <2>1. \A q \in Procs : \A g \in Files : Has(q, g)' => Has(q, g)
    BY <1>2 DEF Has, Files
  <2> QED
    BY <1>1, <1>6, <2>1 DEF Unset
<1>9. /\ \A g \in Files : \A j : \A v \in BOOLEAN :
           FileOf(g, j, v)' <=> FileOf(g, j, v) /\ g # f
      /\ \A q \in Procs : \A j : \A v \in BOOLEAN :
           Closer(q, j, v)' <=> Closer(q, j, v) \/ (q = p /\ j = k /\ (v <=> w))
  <2>1. \A g \in Files : \A j : \A v \in BOOLEAN : FileOf(g, j, v)' <=> FileOf(g, j, v) /\ g # f
    BY DEF FileOf
  <2>2. \A q \in Procs : \A j : \A v \in BOOLEAN :
          Closer(q, j, v)' <=> Closer(q, j, v) \/ (q = p /\ j = k /\ (v <=> w))
    BY <1>2, <1>3 DEF Closer
  <2> QED
    BY <2>1, <2>2
<1>10. \A j : \A v \in BOOLEAN : FileOf(f, j, v) <=> j = k /\ (v <=> w)
  BY DEF FileOf
<1>11. Sides'
  <2>1. ASSUME NEW j \in Pages \cup {0}, NEW v \in BOOLEAN
        PROVE  /\ \A g, h \in Files : FileOf(g, j, v)' /\ FileOf(h, j, v)' => g = h
               /\ \A q, s \in Procs : Closer(q, j, v)' /\ Closer(s, j, v)' => q = s
               /\ \A g \in Files, q \in Procs : ~(FileOf(g, j, v)' /\ Closer(q, j, v)')
    BY <1>1, <1>9, <1>10 DEF Sides
  <2> QED
    BY <2>1 DEF Sides
<1>12. \A j : \A v \in BOOLEAN : Stands(j, v)' <=> Stands(j, v)
  BY <1>9, <1>10 DEF Stands
<1>13. Opened'
  BY <1>1, <1>12 DEF Opened
<1>14. Window'
  BY <1>1 DEF Window
<1>15. ASSUME NEW q \in Procs PROVE PlaceAt(q)'
  <2>1. CASE q = p
    <3>1. r.f0 = 0 /\ r.k \in Pages
      BY <1>5
    <3> QED
      BY <1>2, <1>3, <2>1, <3>1, LabelFacts DEF PlaceAt
  <2>2. CASE q # p
    <3>1. \A g \in Files : Has(q, g) => ftable'[g].type = ftable[g].type
      BY <1>6, <2>2
    <3> QED
      BY <1>2, <1>3, <2>2, <3>1, Known, PlaceKept
  <2> QED
    BY <2>1, <2>2
<1>16. ASSUME NEW q \in Procs PROVE CallAt(q)'
  <2>1. \A g \in Files : (\E d \in 1..NOFILE : ofile[q][d] = g) => SameFile(g)
    BY <1>6 DEF SameFile
  <2>2. CASE q = p
    BY <1>3, <2>2, LabelFacts DEF CallAt
  <2>3. CASE q # p
    BY <1>2, <1>3, <2>1, <2>3, Known, CallKept
  <2> QED
    BY <2>2, <2>3
<1>17. ASSUME NEW q \in Procs PROVE AsleepAt(q)' /\ LockedAt(q)'
  <2>1. "closing" \notin InCall /\ "pclose" \notin InCall
    BY LabelFacts
  <2>2. \A s \in Procs : \/ pc'[s] = pc[s] /\ loc'[s].k = loc[s].k
                         \/ pc[s] \notin InCall /\ pc'[s] \notin InCall
    BY <1>2, <1>3, <2>1
  <2>3. AsleepAt(q) /\ \A s \in Procs : LockedAt(s)
    BY Known
  <2> QED
    BY <2>2, <2>3, SleepKept
<1> QED
  BY <1>4, <1>7, <1>8, <1>11, <1>13, <1>14, <1>15, <1>16, <1>17 DEF Inv

LEMMA FilecloseStep ==
  ASSUME Inv, NEW p \in Procs, NEW f \in Files, NEW rest \in Local, rest.k = loc[p].k,
         \/ loc[p].f0 = f /\ rest.f0 = 0 /\ rest.f1 = loc[p].f1
         \/ loc[p].f0 = 0 /\ loc[p].f1 = f /\ rest.f1 = 0 /\ rest.f0 = 0,
         Fileclose(p, f, rest)
  PROVE  Inv'
<1> DEFINE e == IF ftable[f].ref = 1 THEN NoFile ELSE [ftable[f] EXCEPT !.ref = @ - 1]
<1>1. pc[p] = "closing" /\ UNCHANGED <<ofile, pipe, kmem, pilock, killed, got, silent>>
  BY DEF Fileclose
<1>2. Types /\ Refs /\ Unset /\ loc[p].k = 0
  BY <1>1, Known DEF PlaceAt
<1>3. rest.k = 0
  BY <1>2
<1>4. ftable' = [ftable EXCEPT ![f] = e]
  BY DEF Fileclose
<1>5. IF ftable[f].ref = 1 /\ ftable[f].type = "pipe"
      THEN /\ loc' = [loc EXCEPT ![p] = [rest EXCEPT !.k = ftable[f].page, !.w = ftable[f].writable]]
           /\ Goto(p, "pclose")
      ELSE PutRest(p, pc, rest)
  BY DEF Fileclose
<1>6. ftable \in [Files -> File] /\ ftable[f] \in File /\ ftable[f].ref # 0
  <2>1. ftable \in [Files -> File] /\ ftable[f] \in File
    BY <1>2 DEF Types
  <2>2. Has(p, f)
    BY DEF Has
  <2>3. ftable[f].ref \in Nat
    BY <2>1 DEF File
  <2> QED
    BY <1>2, <2>1, <2>2, <2>3, InUse
<1>7. /\ e \in File /\ e.ref = ftable[f].ref - 1
      /\ ftable[f].ref # 1 => /\ e.type = ftable[f].type /\ e.page = ftable[f].page
                              /\ e.writable <=> ftable[f].writable
      /\ ftable[f].ref = 1 => e.type = "none"
  <2>1. CASE ftable[f].ref = 1
    BY <1>6, <2>1 DEF NoFile, File
  <2>2. CASE ftable[f].ref # 1
    <3> DEFINE n == ftable[f].ref - 1
    <3>1. n \in Nat
      BY <1>6 DEF File
    <3>2. e = [ftable[f] EXCEPT !.ref = n]
      BY <2>2
    <3> HIDE DEF e, n
    <3>3. e \in File /\ e.ref = n /\ e.type = ftable[f].type /\ e.page = ftable[f].page
          /\ (e.writable <=> ftable[f].writable)
      BY <1>6, <3>1, <3>2 DEF File
    <3> QED
      BY <2>2, <3>3 DEF n
  <2> QED
    BY <2>1, <2>2
<1> HIDE DEF e
<1>8. ftable' \in [Files -> File] /\ ftable'[f] = e /\ \A g \in Files \ {f} : ftable'[g] = ftable[g]
  BY <1>2, <1>4, <1>6, <1>7
<1>9. CASE ~(ftable[f].ref = 1 /\ ftable[f].type = "pipe")
  <2>1. PutRest(p, pc, rest)
    BY <1>5, <1>9
  <2>2. \A g \in Files \ {f} : SameFile(g)
    BY <1>8 DEF SameFile
  <2>3. SameFile(f)
    <3>1. ftable[f].type \in {"none", "pipe"}
      BY <1>6 DEF File
    <3> QED
      BY <1>7, <1>8, <1>9, <3>1 DEF SameFile
  <2>4. /\ ftable'[f].ref = ftable[f].ref - 1 /\ (ftable[f].ref = 1 => ftable'[f].type = "none")
        /\ \A g \in Files : SameFile(g)
    BY <1>7, <1>8, <2>2, <2>3
  <2>5. ftable' \in [Files -> File] /\ \A g \in Files \ {f} : ftable'[g] = ftable[g]
    BY <1>8
  <2> QED
    BY <1>1, <1>2, <1>3, <2>1, <2>4, <2>5, FilecloseRest
<1>10. CASE ftable[f].ref = 1 /\ ftable[f].type = "pipe"
  <2> DEFINE k == ftable[f].page
             w == ftable[f].writable
             s == [rest EXCEPT !.k = k]
             r == [s EXCEPT !.w = w]
  <2>1. loc' = [loc EXCEPT ![p] = r] /\ Goto(p, "pclose")
    BY <1>5, <1>10
  <2>2. k \in {0} \cup Pages /\ w \in BOOLEAN
    BY <1>6 DEF File
  <2>3. k = ftable[f].page /\ (w <=> ftable[f].writable)
    OBVIOUS
  <2> HIDE DEF k, w
  <2>a. s \in Local /\ s.f0 = rest.f0 /\ s.f1 = rest.f1 /\ s.k = k
    BY <2>2, SetK
  <2> HIDE DEF s
  <2>4. r \in Local /\ r.f0 = rest.f0 /\ r.f1 = rest.f1 /\ r.k = k /\ (r.w <=> w)
    BY <2>2, <2>a, SetW
  <2> HIDE DEF r
  <2>5. \/ loc[p].f0 = f /\ r.f0 = 0 /\ r.f1 = loc[p].f1
        \/ loc[p].f0 = 0 /\ loc[p].f1 = f /\ r.f1 = 0 /\ r.f0 = 0
    BY <1>3, <2>4
  <2>6. ftable'[f].ref = 0 /\ ftable'[f].type = "none"
    BY <1>7, <1>8, <1>10
  <2>7. ftable' \in [Files -> File] /\ \A g \in Files \ {f} : ftable'[g] = ftable[g]
    BY <1>8
  <2> QED
    BY <1>1, <1>2, <1>10, <2>1, <2>2, <2>3, <2>4, <2>5, <2>6, <2>7, FilecloseLast
<1> QED
  BY <1>9, <1>10

LEMMA PutStep ==
  ASSUME Inv, NEW p \in Procs,
         \/ loc[p].f0 # 0 /\ Fileclose(p, loc[p].f0, [loc[p] EXCEPT !.f0 = 0])
         \/ loc[p].f0 = 0 /\ Fileclose(p, loc[p].f1, [loc[p] EXCEPT !.f1 = 0])
  PROVE  Inv'
<1>1. pc[p] = "closing" /\ loc[p] \in Local
  BY Known DEF Fileclose
<1>2. CASE loc[p].f0 # 0 /\ Fileclose(p, loc[p].f0, [loc[p] EXCEPT !.f0 = 0])
  <2> DEFINE f == loc[p].f0
             r == [loc[p] EXCEPT !.f0 = 0]
  <2>1. f \in Files /\ loc[p].f0 = f /\ Fileclose(p, f, r)
    BY <1>2, Known
  <2>2. r \in Local /\ r.k = loc[p].k /\ r.f0 = 0 /\ r.f1 = loc[p].f1
    BY <1>1, SetF0
  <2> HIDE DEF f, r
  <2> QED
    BY <2>1, <2>2, FilecloseStep
<1>3. CASE loc[p].f0 = 0 /\ Fileclose(p, loc[p].f1, [loc[p] EXCEPT !.f1 = 0])
  <2> DEFINE f == loc[p].f1
             r == [loc[p] EXCEPT !.f1 = 0]
  <2>1. f \in Files /\ loc[p].f1 = f /\ Fileclose(p, f, r)
    BY <1>1, <1>3, Known DEF PlaceAt
  <2>2. r \in Local /\ r.k = loc[p].k /\ r.f0 = 0 /\ r.f1 = 0
    BY <1>1, <1>3, SetF1
  <2> HIDE DEF f, r
  <2> QED
    BY <1>3, <2>1, <2>2, FilecloseStep
<1> QED
  BY <1>2, <1>3

\* wakeup() moves sleepers to the lock, and nobody else.
LEMMA WokenFacts ==
  ASSUME Types, NEW k, NEW l \in {"rsleep", "wsleep"}
  PROVE  LET next == Woken(k, l) IN
         /\ next \in [Procs -> Labels]
         /\ \A q \in Procs :
              /\ pc[q] = l /\ loc[q].k = k => next[q] = IF l = "wsleep" THEN "wlock" ELSE "rlock"
              /\ ~(pc[q] = l /\ loc[q].k = k) => next[q] = pc[q]
<1>1. "wlock" \in Labels /\ "rlock" \in Labels /\ pc \in [Procs -> Labels]
  BY DEF Types, Labels, InCall
<1> QED
  BY <1>1 DEF Woken

\* What wakeup() at l leaves of the label of a process: n is the new label, o the old one.
Stays(n, o) ==
  /\ n \in InCall <=> o \in InCall
  /\ n \in Writing <=> o \in Writing
  /\ n \in Reading <=> o \in Reading
  /\ n \in InWrite <=> o \in InWrite
  /\ n \in InRead <=> o \in InRead
  /\ n = "rcopy" <=> o = "rcopy"
  /\ n = "rempty" <=> o = "rempty"
  /\ n = "wfull" <=> o = "wfull"
  /\ n = "rsleep" => o = "rsleep"
  /\ n = "wsleep" => o = "wsleep"
  /\ n \notin InCall => n = o

LEMMA StaysFacts ==
  /\ \A n : Stays(n, n)
  /\ Stays("wlock", "wsleep") /\ Stays("rlock", "rsleep")
BY DEF Stays, InCall, Writing, Reading, InWrite, InRead

LEMMA WokenStay ==
  ASSUME Types, NEW k, NEW l \in {"rsleep", "wsleep"}, NEW q \in Procs
  PROVE  Stays(Woken(k, l)[q], pc[q]) /\ ~(Woken(k, l)[q] = l /\ loc[q].k = k)
<1>1. CASE pc[q] = l /\ loc[q].k = k
  BY <1>1, WokenFacts, StaysFacts
<1>2. CASE ~(pc[q] = l /\ loc[q].k = k)
  BY <1>2, WokenFacts, StaysFacts
<1> QED
  BY <1>1, <1>2

LEMMA PlaceMoved ==
  ASSUME Types, NEW q \in Procs, PlaceAt(q), pc[q] \in InCall, pc'[q] \in InCall, loc'[q].k = loc[q].k,
         loc'[q].f0 = loc[q].f0, loc'[q].f1 = loc[q].f1
  PROVE  PlaceAt(q)'
<1>1. loc[q].f0 = 0 /\ loc[q].f1 = 0 /\ loc[q].k \in Pages
  BY DEF PlaceAt
<1> QED
  BY <1>1 DEF PlaceAt, InCall, InRead, InWrite

\* Who reads or writes keeps its side open, so that no process closes it.
LEMMA SideInUse ==
  ASSUME Inv, NEW q \in Procs, pc[q] \in Writing \/ pc[q] \in Reading
  PROVE  /\ loc[q].k \in Pages \ kmem
         /\ Stands(loc[q].k, pc[q] \in Writing)
         /\ \A p \in Procs : ~Closer(p, loc[q].k, pc[q] \in Writing)
<1> DEFINE k == loc[q].k
<1>1. CallAt(q) /\ PlaceAt(q) /\ Sides /\ Opened /\ \A d \in 1..NOFILE : ofile[q][d] \in {0} \cup Files
  BY Known
<1>2. pc[q] \in Reading => pc[q] \notin Writing
  BY DEF Reading, Writing, InRead, InWrite
<1>3. \E f \in Files : FileOf(f, k, pc[q] \in Writing)
  <2>1. CASE pc[q] \in Writing
    <3>1. \E d \in 1..NOFILE : ofile[q][d] # 0 /\ FileOf(ofile[q][d], k, TRUE)
      BY <1>1, <2>1 DEF CallAt
    <3>2. \E f \in Files : FileOf(f, k, TRUE)
      BY <1>1, <3>1
    <3> QED
      BY <2>1, <3>2 DEF FileOf
  <2>2. CASE pc[q] \in Reading
    <3>1. \E d \in 1..NOFILE : ofile[q][d] # 0 /\ FileOf(ofile[q][d], k, FALSE)
      BY <1>1, <2>2 DEF CallAt
    <3>2. \E f \in Files : FileOf(f, k, FALSE)
      BY <1>1, <3>1
    <3> QED
      BY <1>2, <2>2, <3>2 DEF FileOf
  <2> QED
    BY <2>1, <2>2
<1>4. k \in Pages
  BY <1>1, LabelFacts DEF PlaceAt
<1> DEFINE w == pc[q] \in Writing
<1>5. w \in BOOLEAN /\ \E f \in Files : FileOf(f, k, w)
  BY <1>3
<1>6. w <=> pc[q] \in Writing
  OBVIOUS
<1> HIDE DEF w, k
<1>7. Stands(k, w) /\ \A p \in Procs : ~Closer(p, k, w)
  BY <1>1, <1>4, <1>5 DEF Stands, Sides
<1>8. k \notin kmem
  BY <1>1, <1>5, <1>7 DEF Opened
<1> QED
  BY <1>4, <1>7, <1>8 DEF w, k

\* A side of pipe k is closed by p: x is what becomes of the pipe.
LEMMA PipecloseMakes ==
  ASSUME Inv, NEW p \in Procs, pc[p] = "pclose", NEW k, NEW w \in BOOLEAN, k = loc[p].k, w <=> loc[p].w,
         pilock[k] = NoProc, NEW l, l = IF w THEN "rsleep" ELSE "wsleep",
         NEW x \in Ring, Fill(x) <= PIPESIZE, pipe' = [pipe EXCEPT ![k] = x],
         NEW last \in BOOLEAN, last <=> ~(IF w THEN pipe[k].readopen ELSE pipe[k].writeopen),
         ~last => /\ x.readopen <=> (pipe[k].readopen /\ w)
                  /\ x.writeopen <=> (pipe[k].writeopen /\ ~w),
         kmem' = IF last THEN kmem \cup {k} ELSE kmem,
         silent' \in {silent, silent \ {k}},
         NEW r \in Local, r.f0 = loc[p].f0, r.f1 = loc[p].f1, r.k = 0,
         PutRest(p, Woken(k, l), r),
         UNCHANGED <<ftable, ofile, pilock, killed, got>>
  PROVE  Inv'
<1>1. Types /\ PlaceAt(p) /\ Refs /\ Unset /\ Sides /\ Opened /\ Window /\ k \in Pages
  BY Known DEF PlaceAt
<1>2. l \in {"rsleep", "wsleep"} /\ Woken(k, l) \in [Procs -> Labels]
  <2>1. l \in {"rsleep", "wsleep"}
    OBVIOUS
  <2> QED
    BY <1>1, <2>1, WokenFacts
<1>3. /\ loc' \in [Procs -> Local] /\ pc' \in [Procs -> Labels]
      /\ \A q \in Procs \ {p} : loc'[q] = loc[q] /\ pc'[q] = Woken(k, l)[q]
      /\ loc'[p].f0 = r.f0 /\ loc'[p].f1 = r.f1 /\ loc'[p].k \in {0, r.k}
      /\ r.f0 = 0 /\ r.f1 = 0 => loc'[p] = NoLoc /\ pc'[p] = r.then
      /\ r.f0 # 0 \/ r.f1 # 0 => loc'[p] = r /\ pc'[p] = "closing"
      /\ pc'[p] \in {"user", "exiting", "closing"}
  BY <1>1, <1>2, Put
<1>4. \A q \in Procs \ {p} : Stays(pc'[q], pc[q]) /\ ~(pc'[q] = l /\ loc[q].k = k)
  BY <1>1, <1>2, <1>3, WokenStay
<1>5. /\ pipe' \in [Pages -> Ring] /\ pipe'[k] = x
      /\ \A j \in Pages \ {k} : pipe'[j] = pipe[j]
  BY <1>1 DEF Types
<1>6. Types'
  <2>1. kmem' \subseteq Pages /\ silent' \subseteq Pages
    BY <1>1 DEF Types
  <2> QED
    BY <1>1, <1>3, <1>5, <2>1 DEF Types
<1>7. Window'
  BY <1>1, <1>5 DEF Window
<1>8. Refs' /\ Unset'
  <2>1. \A q \in Procs : loc'[q].f0 = loc[q].f0 /\ loc'[q].f1 = loc[q].f1
    BY <1>3
  <2> QED
    BY <1>1, <2>1, RefsKept, UnsetKept
<1>9. pc[p] \notin InCall /\ pc'[p] \notin InCall /\ pc'[p] # "pclose"
  BY <1>3 DEF InCall, InRead, InWrite
<1>10. /\ \A f \in Files : \A j, v : FileOf(f, j, v)' <=> FileOf(f, j, v)
       /\ \A q \in Procs \ {p} : \A j, v : Closer(q, j, v)' <=> Closer(q, j, v)
       /\ \A j, v : ~Closer(p, j, v)'
       /\ \A j : \A v \in BOOLEAN : Closer(p, j, v) <=> j = k /\ (v <=> w)
  <2>1. \A f \in Files : \A j, v : FileOf(f, j, v)' <=> FileOf(f, j, v)
    BY DEF FileOf
  <2>2. \A q \in Procs \ {p} : \A j, v : Closer(q, j, v)' <=> Closer(q, j, v)
    <3> SUFFICES ASSUME NEW q \in Procs \ {p}, NEW j, NEW v PROVE Closer(q, j, v)' <=> Closer(q, j, v)
      OBVIOUS
    <3>1. pc'[q] = "pclose" <=> pc[q] = "pclose"
      BY <1>4, LabelFacts DEF Stays
    <3> QED
      BY <1>3, <3>1 DEF Closer
  <2>3. \A j, v : ~Closer(p, j, v)'
    BY <1>9 DEF Closer
  <2>4. \A j : \A v \in BOOLEAN : Closer(p, j, v) <=> j = k /\ (v <=> w)
    BY DEF Closer
  <2> QED
    BY <2>1, <2>2, <2>3, <2>4
<1>11. Closer(p, k, w) /\ Stands(k, w) /\ k \notin kmem
  <2>1. Closer(p, k, w) /\ Stands(k, w)
    BY <1>10 DEF Stands
  <2> QED
    BY <1>1, <2>1 DEF Opened
<1>12. Sides'
  <2>1. ASSUME NEW j \in Pages \cup {0}, NEW v \in BOOLEAN
        PROVE  /\ \A g, h \in Files : FileOf(g, j, v)' /\ FileOf(h, j, v)' => g = h
               /\ \A q, s \in Procs : Closer(q, j, v)' /\ Closer(s, j, v)' => q = s
               /\ \A g \in Files, q \in Procs : ~(FileOf(g, j, v)' /\ Closer(q, j, v)')
    BY <1>1, <1>10 DEF Sides
  <2> QED
    BY <2>1 DEF Sides
<1>13. /\ \A j : \A v \in BOOLEAN : j # k \/ ~(v <=> w) => (Stands(j, v)' <=> Stands(j, v))
       /\ ~Stands(k, w)'
  <2>1. ASSUME NEW j, NEW v \in BOOLEAN, j # k \/ ~(v <=> w)
        PROVE  Stands(j, v)' <=> Stands(j, v)
    <3>1. ~Closer(p, j, v)
      BY <1>10, <2>1
    <3> QED
      BY <1>10, <3>1 DEF Stands
  <2>2. ~Stands(k, w)'
    <3>1. \A f \in Files : ~FileOf(f, k, w)
      BY <1>1, <1>11 DEF Sides
    <3>2. \A q \in Procs \ {p} : ~Closer(q, k, w)
      BY <1>1, <1>11 DEF Sides
    <3> QED
      BY <1>10, <3>1, <3>2 DEF Stands
  <2> QED
    BY <2>1, <2>2
<1>14. Opened'
  <2>1. \A v \in BOOLEAN : ~Stands(0, v)'
    BY <1>1, <1>13, PipeSizes DEF Opened
  <2>2. last <=> ~Stands(k, ~w)
    <3>1. (pipe[k].readopen <=> Stands(k, FALSE)) /\ (pipe[k].writeopen <=> Stands(k, TRUE))
      BY <1>1, <1>11 DEF Opened
    <3>2. CASE w = TRUE
      BY <3>1, <3>2
    <3>3. CASE w = FALSE
      BY <3>1, <3>3
    <3> QED
      BY <3>2, <3>3
  <2>3. Stands(k, ~w)' <=> Stands(k, ~w)
    BY <1>13
  <2>4. ASSUME NEW j \in kmem' PROVE ~Stands(j, TRUE)' /\ ~Stands(j, FALSE)'
    <3>1. CASE j # k
      BY <1>1, <1>13, <2>4, <3>1 DEF Opened
    <3>2. CASE j = k
      <4>1. last
        BY <1>11, <2>4, <3>2
      <4>2. ~Stands(k, w)' /\ ~Stands(k, ~w)'
        BY <1>13, <2>2, <2>3, <4>1
      <4>3. CASE w = TRUE
        BY <3>2, <4>2, <4>3
      <4>4. CASE w = FALSE
        BY <3>2, <4>2, <4>4
      <4> QED
        BY <4>3, <4>4
    <3> QED
      BY <3>1, <3>2
  <2>5. ASSUME NEW j \in Pages \ kmem'
        PROVE  /\ Stands(j, TRUE)' \/ Stands(j, FALSE)'
               /\ pipe'[j].readopen <=> Stands(j, FALSE)'
               /\ pipe'[j].writeopen <=> Stands(j, TRUE)'
    <3>1. CASE j # k
      <4>1. j \in Pages \ kmem
        BY <2>5
      <4> QED
        BY <1>1, <1>5, <1>13, <3>1, <4>1 DEF Opened
    <3>2. CASE j = k
      <4>1. ~last
        BY <2>5, <3>2
      <4>2. ~Stands(k, w)' /\ Stands(k, ~w)' /\ Stands(k, ~w)
        BY <1>13, <2>2, <2>3, <4>1
      <4>3. (pipe[k].readopen <=> Stands(k, FALSE)) /\ (pipe[k].writeopen <=> Stands(k, TRUE))
        BY <1>1, <1>11 DEF Opened
      <4>4. CASE w = TRUE
        BY <1>5, <3>2, <4>1, <4>2, <4>3, <4>4
      <4>5. CASE w = FALSE
        BY <1>5, <3>2, <4>1, <4>2, <4>3, <4>5
      <4> QED
        BY <4>4, <4>5
    <3> QED
      BY <3>1, <3>2
  <2> QED
    BY <2>1, <2>4, <2>5 DEF Opened
<1>15. ASSUME NEW q \in Procs PROVE PlaceAt(q)'
  <2>1. CASE q = p
    <3>1. loc[p].f0 # 0 => loc[p].f0 # loc[p].f1
      BY <1>1 DEF PlaceAt
    <3>2. r.then \in {"user", "exiting"}
      BY DEF Local
    <3>3. CASE r.f0 = 0 /\ r.f1 = 0
      BY <1>3, <2>1, <3>2, <3>3, NoLocFacts DEF PlaceAt, InCall, InRead, InWrite
    <3>4. CASE r.f0 # 0 \/ r.f1 # 0
      BY <1>3, <2>1, <3>1, <3>4, LabelFacts DEF PlaceAt
    <3> QED
      BY <3>3, <3>4
  <2>2. CASE q # p
    <3>1. PlaceAt(q) /\ loc'[q] = loc[q] /\ Stays(pc'[q], pc[q]) /\ ofile'[q] = ofile[q]
      BY <1>3, <1>4, <2>2, Known
    <3>2. CASE pc[q] \in InCall
      BY <1>1, <3>1, <3>2, PlaceMoved DEF Stays
    <3>3. CASE pc[q] \notin InCall
      <4>1. pc'[q] = pc[q]
        BY <3>1, <3>3 DEF Stays
      <4> QED
        BY <1>1, <3>1, <4>1, PlaceKept
    <3> QED
      BY <3>2, <3>3
  <2> QED
    BY <2>1, <2>2
<1>16. ASSUME NEW q \in Procs PROVE CallAt(q)'
  <2>1. CASE q = p
    BY <1>9, <2>1, LabelFacts DEF CallAt
  <2>2. CASE q # p
    <3>1. (pc'[q] \in Writing => pc[q] \in Writing) /\ (pc'[q] \in Reading => pc[q] \in Reading)
      BY <1>4, <2>2 DEF Stays
    <3>2. \A f \in Files : SameFile(f)
      BY DEF SameFile
    <3> QED
      BY <1>3, <2>2, <3>1, <3>2, Known, CallKept
  <2> QED
    BY <2>1, <2>2
<1>17. ASSUME NEW q \in Procs PROVE LockedAt(q)'
  <2>1. CASE q = p
    BY <1>9, <2>1, Known, LabelFacts DEF LockedAt
  <2>2. CASE q # p
    BY <1>3, <1>4, <2>2, Known DEF LockedAt, Stays
  <2> QED
    BY <2>1, <2>2
<1>18. ASSUME NEW q \in Procs PROVE AsleepAt(q)'
  <2>1. CASE pc'[q] \notin InCall
    BY <2>1 DEF AsleepAt, InCall, InRead, InWrite
  <2>2. CASE pc'[q] \in InCall
    <3>1. /\ q # p /\ loc'[q] = loc[q] /\ Stays(pc'[q], pc[q]) /\ pc[q] \in InCall
          /\ ~(pc'[q] = l /\ loc[q].k = k)
      BY <1>3, <1>4, <1>9, <2>2 DEF Stays
    <3>2. AsleepAt(q) /\ LockedAt(q) /\ PlaceAt(q)
      BY Known
    <3>3. CASE loc[q].k = k
      <4>1. pc[q] \notin InWrite \cup InRead
        <5>1. NoProc \notin Procs
          BY PipeSizes
        <5> QED
          BY <1>1, <3>2, <3>3, <5>1 DEF LockedAt
      <4>2. (pc[q] \in Writing => ~w) /\ (pc[q] \in Reading => w)
        <5>1. pc[q] \in Reading => pc[q] \notin Writing
          BY DEF Reading, Writing, InRead, InWrite
        <5>2. ASSUME pc[q] \in Writing \/ pc[q] \in Reading
              PROVE  ~Closer(p, k, pc[q] \in Writing)
          BY <3>3, <5>2, SideInUse
        <5> QED
          BY <1>10, <5>1, <5>2
      <4>3. pc'[q] \notin {"rempty", "wfull"}
        BY <3>1, <4>1 DEF Stays, InRead, InWrite
      <4>4. pc'[q] # "rsleep"
        <5> SUFFICES ASSUME pc'[q] = "rsleep" PROVE FALSE
          OBVIOUS
        <5>1. pc[q] = "rsleep"
          BY <3>1 DEF Stays
        <5>2. w
          BY <4>2, <5>1 DEF Reading
        <5> QED
          BY <3>1, <3>3, <5>2
      <4>5. pc'[q] # "wsleep"
        <5> SUFFICES ASSUME pc'[q] = "wsleep" PROVE FALSE
          OBVIOUS
        <5>1. pc[q] = "wsleep"
          BY <3>1 DEF Stays
        <5>2. ~w
          BY <4>2, <5>1 DEF Writing
        <5> QED
          BY <3>1, <3>3, <5>2
      <4> QED
        BY <4>3, <4>4, <4>5 DEF AsleepAt
    <3>4. CASE loc[q].k # k
      <4> DEFINE j == loc[q].k
      <4>1. j \in Pages /\ pipe'[j] = pipe[j] /\ (j \in silent' <=> j \in silent)
        BY <1>5, <3>1, <3>2, <3>4 DEF PlaceAt
      <4>2. \A s \in Procs : /\ pc'[s] \in InWrite <=> pc[s] \in InWrite
                             /\ pc'[s] = "rcopy" <=> pc[s] = "rcopy"
        <5>1. \A s \in Procs \ {p} : /\ pc'[s] \in InWrite <=> pc[s] \in InWrite
                                     /\ pc'[s] = "rcopy" <=> pc[s] = "rcopy"
          BY <1>4 DEF Stays
        <5>2. /\ pc'[p] \in InWrite <=> pc[p] \in InWrite
              /\ pc'[p] = "rcopy" <=> pc[p] = "rcopy"
          BY <1>9 DEF InCall, InRead
        <5> QED
          BY <5>1, <5>2
      <4> HIDE DEF j
      <4>3. j = loc[q].k /\ loc'[q].k = j
        BY <3>1 DEF j
      <4> QED
        BY <3>1, <3>2, <4>1, <4>2, <4>3 DEF AsleepAt, Stays
    <3> QED
      BY <3>3, <3>4
  <2> QED
    BY <2>1, <2>2
<1> QED
  BY <1>6, <1>7, <1>8, <1>12, <1>14, <1>15, <1>16, <1>17, <1>18 DEF Inv

LEMMA PipecloseStep ==
  ASSUME Inv, NEW p \in Procs, Pipeclose(p)
  PROVE  Inv'
<1> DEFINE k == loc[p].k
           w == loc[p].w
           l == IF w THEN "rsleep" ELSE "wsleep"
           last == LastSide(pipe[k], w)
           z == IF w THEN [pipe[k] EXCEPT !.writeopen = FALSE] ELSE [pipe[k] EXCEPT !.readopen = FALSE]
           x == IF last THEN Junk ELSE z
           s == [loc[p] EXCEPT !.k = 0]
           r == [s EXCEPT !.w = FALSE]
<1>1. pc[p] = "pclose" /\ pilock[k] = NoProc /\ UNCHANGED <<ftable, ofile, pilock, killed, got>>
  BY DEF Pipeclose
<1>2. Types /\ Window /\ k \in Pages /\ w \in BOOLEAN /\ loc[p] \in Local
  BY <1>1, Known DEF PlaceAt
<1>3. PutRest(p, Woken(k, l), r)
  BY DEF Pipeclose
<1>4. pipe' = [pipe EXCEPT ![k] = x]
  BY DEF Pipeclose
<1>14. kmem' = (IF last THEN kmem \cup {k} ELSE kmem) /\ silent' \in {silent, silent \ {k}}
  <2>1. kmem' = IF last THEN kmem \cup {k} ELSE kmem
    BY DEF Pipeclose
  <2>2. silent' \in {silent, silent \ {k}}
    BY DEF Pipeclose
  <2> QED
    BY <2>1, <2>2
<1>5. k = loc[p].k /\ (w <=> loc[p].w) /\ last \in BOOLEAN
      /\ (last <=> ~(IF w THEN pipe[k].readopen ELSE pipe[k].writeopen))
  BY DEF LastSide
<1>6. pipe[k] \in Ring /\ Fill(pipe[k]) <= PIPESIZE
  BY <1>2 DEF Types, Window
<1> HIDE DEF k, w, last
<1>8. /\ z \in Ring /\ z.nread = pipe[k].nread /\ z.nwrite = pipe[k].nwrite
      /\ z.readopen <=> (pipe[k].readopen /\ w)
      /\ z.writeopen <=> (pipe[k].writeopen /\ ~w)
  BY <1>2, <1>6 DEF Ring
<1> HIDE DEF z
<1>9. Fill(z) <= PIPESIZE
  BY <1>6, <1>8 DEF Fill
<1>10. /\ x \in Ring /\ Fill(x) <= PIPESIZE
       /\ ~last => /\ x.readopen <=> (pipe[k].readopen /\ w)
                   /\ x.writeopen <=> (pipe[k].writeopen /\ ~w)
  BY <1>8, <1>9, JunkFacts, PipeSizes
<1> HIDE DEF x
<1>11. s \in Local /\ s.f0 = loc[p].f0 /\ s.f1 = loc[p].f1 /\ s.k = 0
  BY <1>2, SetK
<1> HIDE DEF s
<1>12. r \in Local /\ r.f0 = loc[p].f0 /\ r.f1 = loc[p].f1 /\ r.k = 0
  BY <1>11, SetW
<1> HIDE DEF r
<1>13. l = IF w THEN "rsleep" ELSE "wsleep"
  OBVIOUS
<1> HIDE DEF l
<1> QED
  BY <1>1, <1>2, <1>3, <1>4, <1>5, <1>10, <1>12, <1>13, <1>14, PipecloseMakes

\* fork(): every descriptor of the parent is one more reference.
LEMMA ForkMakes ==
  ASSUME Inv, NEW p \in Procs, NEW c \in Procs, pc[p] = "user", pc[c] = "unused",
         ofile' = [ofile EXCEPT ![c] = ofile[p]],
         ftable' \in [Files -> File], \A f \in Files : ftable'[f].ref = ftable[f].ref + Copies(p, f),
         \A f \in Files : SameFile(f), Goto(c, "user"),
         UNCHANGED <<pipe, kmem, pilock, loc, killed, got, silent>>
  PROVE  Inv'
<1>1. /\ Types /\ PlaceAt(c) /\ Refs /\ Unset /\ p # c /\ loc[c] = NoLoc
      /\ \A d \in 1..NOFILE : ofile[c][d] = 0
  BY Known DEF PlaceAt
<1>2. /\ ofile' \in [Procs -> [1..NOFILE -> {0} \cup Files]] /\ ofile'[c] = ofile[p]
      /\ \A q \in Procs \ {c} : ofile'[q] = ofile[q]
  BY <1>1 DEF Types
<1>3. pc' \in [Procs -> Labels] /\ pc'[c] = "user" /\ \A q \in Procs \ {c} : pc'[q] = pc[q]
  BY <1>1, LabelFacts, Went
<1>4. Types'
  BY <1>1, <1>2, <1>3 DEF Types
<1>5. PlaceAt(c)'
  BY <1>1, <1>3, NoLocFacts DEF PlaceAt, InCall, InRead, InWrite
<1>6. \A f \in Files : Copies(p, f) \in Nat /\ Cardinality(Fds(f)') = Cardinality(Fds(f)) + Copies(p, f)
  <2> SUFFICES ASSUME NEW f \in Files
               PROVE  Copies(p, f) \in Nat /\ Cardinality(Fds(f)') = Cardinality(Fds(f)) + Copies(p, f)
    OBVIOUS
  <2> DEFINE D == {d \in 1..NOFILE : ofile[p][d] = f}
             N == {c} \X D
             S == Fds(f)
  <2>1. IsFiniteSet(D)
    <3>1. 1 \in Int /\ NOFILE \in Int
      BY PipeSizes
    <3>2. IsFiniteSet(1..NOFILE)
      BY <3>1, FS_Interval
    <3>3. D \in SUBSET (1..NOFILE)
      OBVIOUS
    <3> QED
      BY <3>2, <3>3, FS_Subset
  <2>2. IsFiniteSet({c}) /\ Cardinality({c}) = 1
    BY FS_Singleton
  <2>3. Copies(p, f) = Cardinality(D)
    BY DEF Copies
  <2>4. Fds(f)' = S \cup N
    <3>1. \A q \in Procs, d \in 1..NOFILE : ofile'[q][d] = f <=> ofile[q][d] = f \/ (q = c /\ d \in D)
      <4>1. 0 \notin Files
        BY DEF Files
      <4> QED
        BY <1>1, <1>2, <4>1
    <3> QED
      BY <3>1 DEF Fds
  <2>5. S \cap N = {}
    <3>1. \A d \in 1..NOFILE : <<c, d>> \notin Fds(f)
      BY <1>1 DEF Fds, Files
    <3> QED
      BY <3>1
  <2> HIDE DEF D
  <2>6. Cardinality(D) \in Nat
    BY <2>1, FS_CardinalityType
  <2>7. IsFiniteSet(N) /\ Cardinality(N) = Cardinality({c}) * Cardinality(D)
    BY <2>1, <2>2, FS_Product
  <2>8. Cardinality(N) = Cardinality(D)
    BY <2>2, <2>6, <2>7
  <2>9. IsFiniteSet(S) /\ Cardinality(S) \in Nat
    BY Finite
  <2> HIDE DEF N, S
  <2>10. Cardinality(S \cup N) = Cardinality(S) + Cardinality(N) - Cardinality(S \cap N)
    BY <2>7, <2>9, FS_Union
  <2>11. Cardinality(S \cap N) = 0
    BY <2>5, FS_EmptySet
  <2> QED
    BY <2>3, <2>4, <2>6, <2>8, <2>9, <2>10, <2>11 DEF S
<1>7. Refs'
  <2>1. \A f : First0(f)' = First0(f) /\ Second1(f)' = Second1(f)
    BY DEF First0, Second1
  <2> SUFFICES ASSUME NEW f \in Files PROVE Counted(f)'
    BY DEF Refs
  <2>2. Counted(f)
    BY <1>1 DEF Refs
  <2> QED
    BY <1>6, <2>1, <2>2, Finite DEF Counted
<1>8. Unset'
  <2>1. \A q \in Procs : \A d \in 1..NOFILE : ofile'[q][d] \in {ofile[q][d], ofile[p][d]}
    BY <1>2
  <2>2. \A f \in Files : ftable'[f].type = ftable[f].type
    BY DEF SameFile
  <2>3. \A f \in Files : ftable'[f].ref = 0 => ftable[f].ref = 0
    <3>1. \A f \in Files : ftable[f].ref \in Nat
      BY <1>1 DEF Types, File
    <3> QED
      BY <1>6, <3>1
  <2> QED
    BY <1>1, <2>1, <2>2, <2>3 DEF Unset, Has
<1>9. pc[c] \notin InCall \cup {"pclose"} /\ pc'[c] \notin InCall \cup {"pclose"}
  BY <1>3 DEF InCall, InRead, InWrite
<1> QED
  BY <1>2, <1>3, <1>4, <1>5, <1>7, <1>8, <1>9, FileStep

LEMMA ForkStep ==
  ASSUME Inv, NEW p \in Procs, Fork(p)
  PROVE  Inv'
<1>1. PICK c \in Procs :
        /\ Ready(p) /\ pc[c] = "unused"
        /\ ofile' = [ofile EXCEPT ![c] = ofile[p]]
        /\ ftable' = [f \in Files |-> [ftable[f] EXCEPT !.ref = @ + Copies(p, f)]]
        /\ Goto(c, "user")
        /\ UNCHANGED <<pipe, kmem, pilock, loc, killed, got, silent>>
  BY DEF Fork
<1>2. \A f \in Files : Copies(p, f) \in Nat
  <2> SUFFICES ASSUME NEW f \in Files PROVE Copies(p, f) \in Nat
    OBVIOUS
  <2> DEFINE D == {d \in 1..NOFILE : ofile[p][d] = f}
  <2>1. 1 \in Int /\ NOFILE \in Int
    BY PipeSizes
  <2>2. IsFiniteSet(1..NOFILE)
    BY <2>1, FS_Interval
  <2>3. D \in SUBSET (1..NOFILE)
    OBVIOUS
  <2>4. IsFiniteSet(D)
    BY <2>2, <2>3, FS_Subset
  <2>5. Cardinality(D) \in Nat
    BY <2>4, FS_CardinalityType
  <2> QED
    BY <2>5 DEF Copies
<1>3. Types
  BY DEF Inv
<1>4. ASSUME NEW f \in Files
      PROVE  /\ ftable'[f] \in File /\ ftable'[f].ref = ftable[f].ref + Copies(p, f)
             /\ ftable'[f].type = ftable[f].type /\ ftable'[f].page = ftable[f].page
             /\ ftable'[f].writable <=> ftable[f].writable
  <2> DEFINE n == ftable[f].ref + Copies(p, f)
  <2>1. ftable[f] \in File
    BY <1>3 DEF Types
  <2>2. n \in Nat
    BY <1>2, <2>1 DEF File
  <2>3. ftable'[f] = [ftable[f] EXCEPT !.ref = n]
    BY <1>1
  <2>4. n = ftable[f].ref + Copies(p, f)
    OBVIOUS
  <2> HIDE DEF n
  <2> QED
    BY <2>1, <2>2, <2>3, <2>4 DEF File
<1>5. ftable' \in [Files -> File]
  <2>1. ftable' = [f \in Files |-> ftable'[f]]
    BY <1>1
  <2> QED
    BY <1>4, <2>1
<1>6. \A f \in Files : SameFile(f)
  BY <1>4 DEF SameFile
<1>7. \A f \in Files : ftable'[f].ref = ftable[f].ref + Copies(p, f)
  BY <1>4
<1>8. /\ pc[p] = "user" /\ pc[c] = "unused" /\ ofile' = [ofile EXCEPT ![c] = ofile[p]] /\ Goto(c, "user")
      /\ UNCHANGED <<pipe, kmem, pilock, loc, killed, got, silent>>
  BY <1>1 DEF Ready
<1> QED
  BY <1>5, <1>6, <1>7, <1>8, ForkMakes

-----------------------------------------------------------------------------
(* read() and write(). *)

\* Process q sleeps in k although it has what it sleeps for.
ReaderForgotten(q, k) == pc[q] = "rsleep" /\ loc[q].k = k /\ ~(Empty(pipe[k]) /\ pipe[k].writeopen) /\ k \notin silent
WriterForgotten(q, k) == pc[q] = "wsleep" /\ loc[q].k = k /\ ~(Full(pipe[k]) /\ pipe[k].readopen)

LEMMA Sleepers ==
  ASSUME Inv, NEW p \in Procs, NEW k, pilock[k] \in {p, NoProc}, NEW q \in Procs
  PROVE  /\ ReaderForgotten(q, k) => pilock[k] = p /\ pc[p] \in InWrite
         /\ WriterForgotten(q, k) => pilock[k] = p /\ pc[p] = "rcopy"
<1>1. AsleepAt(q) /\ NoProc \notin Procs
  BY PipeSizes, Known
<1>2. ASSUME ReaderForgotten(q, k) PROVE pilock[k] = p /\ pc[p] \in InWrite
  <2>1. \E s \in Procs : pilock[k] = s /\ pc[s] \in InWrite
    BY <1>1, <1>2 DEF AsleepAt, ReaderForgotten
  <2> QED
    BY <1>1, <2>1
<1>3. ASSUME WriterForgotten(q, k) PROVE pilock[k] = p /\ pc[p] = "rcopy"
  <2>1. \E s \in Procs : pilock[k] = s /\ pc[s] = "rcopy"
    BY <1>1, <1>3 DEF AsleepAt, WriterForgotten
  <2> QED
    BY <1>1, <2>1
<1> QED
  BY <1>2, <1>3

\* A step of p in pipe k that ends in the call, or in user space.
LEMMA CallStep ==
  ASSUME Inv, Types', NEW p \in Procs, NEW k \in Pages,
         pc[p] = "user" \/ (pc[p] \in InCall /\ loc[p].k = k),
         UNCHANGED <<ftable, ofile, kmem>>,
         \A j \in Pages : /\ pipe'[j].readopen <=> pipe[j].readopen
                          /\ pipe'[j].writeopen <=> pipe[j].writeopen,
         \A j \in Pages \ {k} : pipe'[j] = pipe[j] /\ pilock'[j] = pilock[j] /\ (j \in silent' <=> j \in silent),
         Fill(pipe'[k]) <= PIPESIZE,
         pilock[k] \in {p, NoProc}, pilock'[k] \in {p, NoProc},
         pilock'[k] = p <=> pc'[p] \in InWrite \cup InRead,
         \A q \in Procs \ {p} : loc'[q] = loc[q] /\ Stays(pc'[q], pc[q]),
         \/ pc'[p] = "user" /\ loc'[p] = NoLoc
         \/ /\ pc'[p] \in InCall /\ loc'[p].k = k /\ loc'[p].f0 = 0 /\ loc'[p].f1 = 0
            /\ CallAt(p)',
         pc'[p] = "rempty" => Empty(pipe'[k]) /\ pipe'[k].writeopen,
         pc'[p] = "wfull" => Full(pipe'[k]) /\ pipe'[k].readopen,
         pc'[p] \in InWrite \/ \A q \in Procs : ~ReaderForgotten(q, k)',
         pc'[p] = "rcopy" \/ \A q \in Procs : ~WriterForgotten(q, k)'
  PROVE  Inv'
<1>1. /\ Types /\ PlaceAt(p) /\ LockedAt(p) /\ Refs /\ Unset /\ Sides /\ Opened /\ Window
      /\ NoProc \notin Procs
  BY Known, PipeSizes
<1>2. loc[p].f0 = 0 /\ loc[p].f1 = 0 /\ loc'[p].f0 = 0 /\ loc'[p].f1 = 0
  BY <1>1, NoLocFacts DEF PlaceAt
<1>3. Refs' /\ Unset'
  BY <1>1, <1>2, RefsKept, UnsetKept
<1>4. pc[p] # "pclose" /\ pc'[p] # "pclose"
  BY LabelFacts
<1>5. Sides' /\ Opened'
  <2>1. \A q \in Procs : SameCloser(q)
    <3>1. \A q \in Procs \ {p} : pc'[q] = "pclose" <=> pc[q] = "pclose"
      BY LabelFacts DEF Stays
    <3> QED
      BY <1>4, <3>1 DEF SameCloser
  <2>2. \A f \in Files : SameFile(f)
    BY DEF SameFile
  <2> QED
    BY <1>1, <2>1, <2>2, SidesKept
<1>6. Window'
  BY <1>1 DEF Window
<1>7. ASSUME NEW q \in Procs PROVE PlaceAt(q)'
  <2>1. CASE q = p
    <3>1. CASE pc'[p] = "user" /\ loc'[p] = NoLoc
      BY <2>1, <3>1, NoLocFacts DEF PlaceAt, InCall, InRead, InWrite
    <3>2. CASE pc'[p] \in InCall /\ loc'[p].k = k
      BY <1>2, <2>1, <3>2 DEF PlaceAt, InCall, InRead, InWrite
    <3> QED
      BY <3>1, <3>2
  <2>2. CASE q # p
    <3>1. PlaceAt(q) /\ loc'[q] = loc[q] /\ Stays(pc'[q], pc[q]) /\ ofile'[q] = ofile[q]
      BY <2>2, Known
    <3>2. CASE pc[q] \in InCall
      BY <1>1, <3>1, <3>2, PlaceMoved DEF Stays
    <3>3. CASE pc[q] \notin InCall
      <4>1. pc'[q] = pc[q]
        BY <3>1, <3>3 DEF Stays
      <4> QED
        BY <1>1, <3>1, <4>1, PlaceKept
    <3> QED
      BY <3>2, <3>3
  <2> QED
    BY <2>1, <2>2
<1>8. ASSUME NEW q \in Procs PROVE CallAt(q)'
  <2>1. CASE q = p
    <3>1. "user" \notin Writing /\ "user" \notin Reading
      BY LabelFacts
    <3> QED
      BY <2>1, <3>1 DEF CallAt
  <2>2. CASE q # p
    <3>1. (pc'[q] \in Writing => pc[q] \in Writing) /\ (pc'[q] \in Reading => pc[q] \in Reading)
      BY <2>2 DEF Stays
    <3>2. \A f \in Files : SameFile(f)
      BY DEF SameFile
    <3> QED
      BY <1>1, <2>2, <3>1, <3>2, Known, CallKept
  <2> QED
    BY <2>1, <2>2
<1>9. \A j \in Pages \ {k} : pilock[j] # p /\ pilock'[j] # p
  <2>1. pc[p] = "user" => pc[p] \notin InWrite \cup InRead
    BY LabelFacts
  <2> QED
    BY <1>1, <2>1 DEF LockedAt
<1>10. ASSUME NEW q \in Procs PROVE LockedAt(q)'
  <2> SUFFICES ASSUME NEW j \in Pages
               PROVE  pilock'[j] = q <=> pc'[q] \in InWrite \cup InRead /\ loc'[q].k = j
    BY DEF LockedAt
  <2>1. CASE q = p
    <3>1. CASE j = k
      BY <1>1, <2>1, <3>1, LabelFacts
    <3>2. CASE j # k
      BY <1>9, <2>1, <3>2, LabelFacts
    <3> QED
      BY <3>1, <3>2
  <2>2. CASE q # p
    <3>1. LockedAt(q) /\ loc'[q] = loc[q] /\ Stays(pc'[q], pc[q])
      BY <2>2, Known
    <3>2. pilock'[j] = q <=> pilock[j] = q
      BY <1>1, <2>2
    <3> QED
      BY <3>1, <3>2 DEF LockedAt, Stays
  <2> QED
    BY <2>1, <2>2
<1>11. ASSUME NEW q \in Procs, loc'[q].k = k PROVE AsleepAt(q)'
  <2>1. pc'[q] \in {"rempty", "wfull"} => q = p
    <3> SUFFICES ASSUME pc'[q] \in {"rempty", "wfull"}, q # p PROVE FALSE
      OBVIOUS
    <3>1. pc'[q] \in InWrite \cup InRead
      BY DEF InWrite, InRead
    <3> QED
      BY <1>1, <1>10, <1>11, <3>1 DEF LockedAt
  <2>2. pc'[q] = "rsleep" /\ (\A s \in Procs : pilock'[k] = s => pc'[s] \notin InWrite) =>
          (Empty(pipe'[k]) /\ pipe'[k].writeopen) \/ k \in silent'
    <3> SUFFICES ASSUME pc'[q] = "rsleep", \A s \in Procs : pilock'[k] = s => pc'[s] \notin InWrite
                 PROVE  (Empty(pipe'[k]) /\ pipe'[k].writeopen) \/ k \in silent'
      OBVIOUS
    <3>1. pc'[p] \notin InWrite
      OBVIOUS
    <3>2. ~ReaderForgotten(q, k)'
      BY <3>1
    <3>3. Empty(pipe[k])' <=> Empty(pipe'[k])
      BY DEF Empty
    <3> QED
      BY <1>11, <3>2, <3>3 DEF ReaderForgotten
  <2>3. pc'[q] = "wsleep" /\ (\A s \in Procs : pilock'[k] = s => pc'[s] # "rcopy") =>
          Full(pipe'[k]) /\ pipe'[k].readopen
    <3> SUFFICES ASSUME pc'[q] = "wsleep", \A s \in Procs : pilock'[k] = s => pc'[s] # "rcopy"
                 PROVE  Full(pipe'[k]) /\ pipe'[k].readopen
      OBVIOUS
    <3>1. pc'[p] # "rcopy"
      <4>1. "rcopy" \in InRead
        BY DEF InRead
      <4> QED
        BY <4>1
    <3>2. ~WriterForgotten(q, k)'
      BY <3>1
    <3>3. Full(pipe[k])' <=> Full(pipe'[k])
      BY DEF Full
    <3> QED
      BY <1>11, <3>2, <3>3 DEF WriterForgotten
  <2> QED
    BY <1>11, <2>1, <2>2, <2>3 DEF AsleepAt
<1>12. ASSUME NEW q \in Procs, loc'[q].k # k PROVE AsleepAt(q)'
  <2>1. CASE pc'[q] \notin InCall
    BY <2>1 DEF AsleepAt, InCall, InRead, InWrite
  <2>2. CASE pc'[q] \in InCall
    <3>1. q # p
      BY <1>12, <2>2, LabelFacts
    <3>2. /\ loc'[q] = loc[q] /\ Stays(pc'[q], pc[q]) /\ pc[q] \in InCall
          /\ AsleepAt(q) /\ PlaceAt(q)
      BY <2>2, <3>1, Known DEF Stays
    <3> DEFINE j == loc[q].k
    <3>3. j \in Pages \ {k} /\ loc[q].k = j /\ loc'[q].k = j
      BY <1>12, <3>2 DEF PlaceAt
    <3> HIDE DEF j
    <3>4. pipe'[j] = pipe[j] /\ pilock'[j] = pilock[j] /\ (j \in silent' <=> j \in silent)
      BY <3>3
    <3>5. ASSUME NEW s \in Procs, pilock[j] = s
          PROVE  /\ pc'[s] \in InWrite <=> pc[s] \in InWrite
                 /\ pc'[s] = "rcopy" <=> pc[s] = "rcopy"
      BY <1>9, <3>3, <3>5 DEF Stays
    <3> QED
      BY <3>2, <3>3, <3>4, <3>5 DEF AsleepAt, Stays
  <2> QED
    BY <2>1, <2>2
<1> QED
  BY <1>3, <1>5, <1>6, <1>7, <1>8, <1>10, <1>11, <1>12 DEF Inv

\* What the holder of a pipe's lock knows.
LEMMA Holder ==
  ASSUME Inv, NEW p \in Procs, pc[p] \in InWrite \cup InRead
  PROVE  /\ Types /\ loc[p].k \in Pages /\ pilock[loc[p].k] = p
         /\ loc[p].f0 = 0 /\ loc[p].f1 = 0 /\ loc[p].i \in Nat /\ loc[p].n \in Nat
         /\ pipe[loc[p].k] \in Ring /\ Fill(pipe[loc[p].k]) <= PIPESIZE
         /\ pc[p] \in InWrite => pipe[loc[p].k].writeopen
         /\ pc[p] \in InRead => pipe[loc[p].k].readopen
<1> DEFINE k == loc[p].k
<1>1. Types /\ PlaceAt(p) /\ LockedAt(p) /\ Opened /\ Window /\ loc[p] \in Local
  BY Known
<1>2. pc[p] \in Writing \/ pc[p] \in Reading
  BY LabelFacts
<1>3. k \in Pages \ kmem /\ Stands(k, pc[p] \in Writing)
  BY <1>2, SideInUse
<1>4. (pc[p] \in InWrite => pc[p] \in Writing) /\ (pc[p] \in InRead => pc[p] \notin Writing)
  BY DEF InWrite, InRead, Writing
<1>5. /\ pipe[k].readopen <=> Stands(k, FALSE)
      /\ pipe[k].writeopen <=> Stands(k, TRUE)
  BY <1>1, <1>3 DEF Opened
<1>6. pc[p] \in InWrite => pipe[k].writeopen
  <2> SUFFICES ASSUME pc[p] \in InWrite PROVE Stands(k, TRUE)
    BY <1>5
  <2>1. (pc[p] \in Writing) = TRUE
    BY <1>4
  <2> QED
    BY <1>3, <2>1 DEF Stands, FileOf, Closer
<1>7. pc[p] \in InRead => pipe[k].readopen
  <2> SUFFICES ASSUME pc[p] \in InRead PROVE Stands(k, FALSE)
    BY <1>5
  <2>1. (pc[p] \in Writing) = FALSE
    BY <1>4
  <2> QED
    BY <1>3, <2>1 DEF Stands, FileOf, Closer
<1>8. pipe[k] \in Ring /\ Fill(pipe[k]) <= PIPESIZE
  BY <1>1, <1>3 DEF Types, Window
<1>9. pilock[k] = p
  BY <1>1, <1>3 DEF LockedAt
<1>10. loc[p].f0 = 0 /\ loc[p].f1 = 0 /\ loc[p].i \in Nat /\ loc[p].n \in Nat
  <2>1. pc[p] \in InCall
    BY LabelFacts
  <2> QED
    BY <1>1, <2>1 DEF PlaceAt, Local
<1> QED
  BY <1>1, <1>3, <1>6, <1>7, <1>8, <1>9, <1>10

LEMMA SetLock ==
  ASSUME Types, NEW k \in Pages, NEW s \in Procs \cup {NoProc}, pilock' = [pilock EXCEPT ![k] = s]
  PROVE  /\ pilock' \in [Pages -> Procs \cup {NoProc}] /\ pilock'[k] = s
         /\ \A j \in Pages \ {k} : pilock'[j] = pilock[j]
BY DEF Types

LEMMA Left ==
  ASSUME Types, NEW p \in Procs, NEW k \in Pages, k = loc[p].k, NEW l \in {"rsleep", "wsleep"}, Leave(p, l)
  PROVE  /\ loc' \in [Procs -> Local] /\ loc'[p] = NoLoc /\ pc' \in [Procs -> Labels] /\ pc'[p] = "user"
         /\ \A q \in Procs \ {p} : loc'[q] = loc[q] /\ Stays(pc'[q], pc[q])
         /\ \A q \in Procs : ~(pc'[q] = l /\ loc'[q].k = k)
         /\ pilock' \in [Pages -> Procs \cup {NoProc}] /\ pilock'[k] = NoProc
         /\ \A j \in Pages \ {k} : pilock'[j] = pilock[j]
         /\ silent' = IF l = "rsleep" THEN silent \ {k} ELSE silent
<1>1. /\ loc' = [loc EXCEPT ![p] = NoLoc] /\ pilock' = [pilock EXCEPT ![k] = NoProc]
      /\ pc' = [Woken(k, l) EXCEPT ![p] = "user"]
      /\ silent' = IF l = "rsleep" THEN silent \ {k} ELSE silent
  BY DEF Leave
<1>2. loc' \in [Procs -> Local] /\ loc'[p] = NoLoc /\ \A q \in Procs \ {p} : loc'[q] = loc[q]
  BY <1>1, NoLocFacts, SetLoc
<1>3. pilock' \in [Pages -> Procs \cup {NoProc}] /\ pilock'[k] = NoProc
      /\ \A j \in Pages \ {k} : pilock'[j] = pilock[j]
  BY <1>1, SetLock
<1>4. Woken(k, l) \in [Procs -> Labels] /\ "user" \in Labels
  BY WokenFacts, LabelFacts
<1>5. pc' \in [Procs -> Labels] /\ pc'[p] = "user" /\ \A q \in Procs \ {p} : pc'[q] = Woken(k, l)[q]
  BY <1>1, <1>4
<1>6. \A q \in Procs \ {p} : Stays(pc'[q], pc[q]) /\ ~(pc'[q] = l /\ loc[q].k = k)
  BY <1>5, WokenStay
<1>7. \A q \in Procs : ~(pc'[q] = l /\ loc'[q].k = k)
  BY <1>2, <1>5, <1>6
<1> QED
  BY <1>1, <1>2, <1>3, <1>5, <1>6, <1>7

LEMMA GaveUp ==
  ASSUME Types, NEW p \in Procs, NEW k \in Pages, k = loc[p].k, GiveUp(p)
  PROVE  /\ loc' \in [Procs -> Local] /\ loc'[p] = NoLoc /\ pc' \in [Procs -> Labels] /\ pc'[p] = "user"
         /\ \A q \in Procs \ {p} : loc'[q] = loc[q] /\ pc'[q] = pc[q]
         /\ pilock' \in [Pages -> Procs \cup {NoProc}] /\ pilock'[k] = NoProc
         /\ \A j \in Pages \ {k} : pilock'[j] = pilock[j]
         /\ silent' \in {silent, silent \cup {k}}
         /\ ~Empty(pipe[k]) /\ (\E q \in Procs : pc[q] = "rsleep" /\ loc[q].k = k) => k \in silent'
<1>1. /\ loc' = [loc EXCEPT ![p] = NoLoc] /\ pilock' = [pilock EXCEPT ![k] = NoProc] /\ Goto(p, "user")
      /\ silent' = IF ~Empty(pipe[k]) /\ \E q \in Procs : pc[q] = "rsleep" /\ loc[q].k = k
                   THEN silent \cup {k} ELSE silent
  BY DEF GiveUp
<1>2. loc' \in [Procs -> Local] /\ loc'[p] = NoLoc /\ \A q \in Procs \ {p} : loc'[q] = loc[q]
  BY <1>1, NoLocFacts, SetLoc
<1>3. pilock' \in [Pages -> Procs \cup {NoProc}] /\ pilock'[k] = NoProc
      /\ \A j \in Pages \ {k} : pilock'[j] = pilock[j]
  BY <1>1, SetLock
<1>4. pc' \in [Procs -> Labels] /\ pc'[p] = "user" /\ \A q \in Procs \ {p} : pc'[q] = pc[q]
  BY <1>1, LabelFacts, Went
<1> QED
  BY <1>1, <1>2, <1>3, <1>4

\* A call that ends without having changed the ring: with a wakeup, or without.
LEMMA LeaveStep ==
  ASSUME Inv, NEW p \in Procs, NEW k \in Pages, k = loc[p].k, NEW l \in {"rsleep", "wsleep"},
         IF l = "rsleep" THEN pc[p] \in InWrite ELSE pc[p] = "rcopy",
         Leave(p, l), UNCHANGED <<ftable, ofile, pipe, kmem, killed, got>>
  PROVE  Inv'
<1>1. /\ Types /\ pilock[k] = p /\ Fill(pipe[k]) <= PIPESIZE /\ pc[p] \in InCall /\ NoProc \notin Procs
  BY Holder, LabelFacts, PipeSizes DEF InRead
<1>2. /\ loc' \in [Procs -> Local] /\ loc'[p] = NoLoc /\ pc' \in [Procs -> Labels] /\ pc'[p] = "user"
      /\ \A q \in Procs \ {p} : loc'[q] = loc[q] /\ Stays(pc'[q], pc[q])
      /\ \A q \in Procs : ~(pc'[q] = l /\ loc'[q].k = k)
      /\ pilock' \in [Pages -> Procs \cup {NoProc}] /\ pilock'[k] = NoProc
      /\ \A j \in Pages \ {k} : pilock'[j] = pilock[j]
      /\ silent' = IF l = "rsleep" THEN silent \ {k} ELSE silent
  BY <1>1, Left
<1>3. Types'
  <2>1. silent' \subseteq Pages
    BY <1>1, <1>2 DEF Types
  <2> QED
    BY <1>1, <1>2, <2>1 DEF Types
<1>4. "user" \notin InWrite \cup InRead /\ "user" # "rsleep" /\ "user" # "wsleep"
  BY LabelFacts
<1>5. \A q \in Procs : ~ReaderForgotten(q, k)'
  <2> SUFFICES ASSUME NEW q \in Procs, ReaderForgotten(q, k)' PROVE FALSE
    OBVIOUS
  <2>1. /\ q # p /\ pc[q] = "rsleep" /\ loc[q].k = k /\ l # "rsleep"
        /\ ~(Empty(pipe[k]) /\ pipe[k].writeopen) /\ k \notin silent
    BY <1>2, <1>4 DEF ReaderForgotten, Empty, Stays
  <2>2. ReaderForgotten(q, k)
    BY <2>1 DEF ReaderForgotten
  <2>3. pc[p] \notin InWrite
    BY <2>1 DEF InWrite
  <2> QED
    BY <1>1, <2>2, <2>3, Sleepers
<1>6. \A q \in Procs : ~WriterForgotten(q, k)'
  <2> SUFFICES ASSUME NEW q \in Procs, WriterForgotten(q, k)' PROVE FALSE
    OBVIOUS
  <2>1. /\ q # p /\ pc[q] = "wsleep" /\ loc[q].k = k /\ l # "wsleep"
        /\ ~(Full(pipe[k]) /\ pipe[k].readopen)
    BY <1>2, <1>4 DEF WriterForgotten, Full, Stays
  <2>2. WriterForgotten(q, k)
    BY <2>1 DEF WriterForgotten
  <2>3. pc[p] # "rcopy"
    BY <2>1 DEF InWrite
  <2> QED
    BY <1>1, <2>2, <2>3, Sleepers
<1> QED
  BY <1>1, <1>2, <1>3, <1>4, <1>5, <1>6, CallStep

LEMMA GiveUpStep ==
  ASSUME Inv, NEW p \in Procs, NEW k \in Pages, k = loc[p].k, pc[p] \in {"wtest", "rtest"},
         pc[p] = "rtest" => Empty(pipe[k]) /\ pipe[k].writeopen,
         GiveUp(p), UNCHANGED <<ftable, ofile, pipe, kmem, killed, got>>
  PROVE  Inv'
<1>0. pc[p] \in InWrite \cup InRead /\ pc[p] # "rcopy" /\ (pc[p] \in InWrite => pc[p] = "wtest")
  BY DEF InWrite, InRead
<1>1. /\ Types /\ pilock[k] = p /\ Fill(pipe[k]) <= PIPESIZE /\ pc[p] \in InCall /\ NoProc \notin Procs
      /\ pc[p] \in InWrite => pipe[k].writeopen
  BY <1>0, Holder, LabelFacts, PipeSizes
<1>2. /\ loc' \in [Procs -> Local] /\ loc'[p] = NoLoc /\ pc' \in [Procs -> Labels] /\ pc'[p] = "user"
      /\ \A q \in Procs \ {p} : loc'[q] = loc[q] /\ pc'[q] = pc[q]
      /\ pilock' \in [Pages -> Procs \cup {NoProc}] /\ pilock'[k] = NoProc
      /\ \A j \in Pages \ {k} : pilock'[j] = pilock[j]
      /\ silent' \in {silent, silent \cup {k}}
      /\ ~Empty(pipe[k]) /\ (\E q \in Procs : pc[q] = "rsleep" /\ loc[q].k = k) => k \in silent'
  BY <1>1, GaveUp
<1>3. Types'
  <2>1. silent' \subseteq Pages
    BY <1>1, <1>2 DEF Types
  <2> QED
    BY <1>1, <1>2, <2>1 DEF Types
<1>4. "user" \notin InWrite \cup InRead /\ "user" # "rsleep" /\ "user" # "wsleep"
  BY LabelFacts
<1>5. \A q \in Procs : ~ReaderForgotten(q, k)'
  <2> SUFFICES ASSUME NEW q \in Procs, ReaderForgotten(q, k)' PROVE FALSE
    OBVIOUS
  <2>1. /\ q # p /\ pc[q] = "rsleep" /\ loc[q].k = k
        /\ ~(Empty(pipe[k]) /\ pipe[k].writeopen) /\ k \notin silent'
    BY <1>2, <1>4 DEF ReaderForgotten, Empty
  <2>2. Empty(pipe[k])
    BY <1>2, <2>1
  <2>3. pipe[k].writeopen
    BY <1>1 DEF InWrite
  <2> QED
    BY <2>1, <2>2, <2>3
<1>6. \A q \in Procs : ~WriterForgotten(q, k)'
  <2> SUFFICES ASSUME NEW q \in Procs, WriterForgotten(q, k)' PROVE FALSE
    OBVIOUS
  <2>1. /\ q # p /\ pc[q] = "wsleep" /\ loc[q].k = k
        /\ ~(Full(pipe[k]) /\ pipe[k].readopen)
    BY <1>2, <1>4 DEF WriterForgotten, Full
  <2>2. WriterForgotten(q, k)
    BY <2>1 DEF WriterForgotten
  <2> QED
    BY <1>0, <1>1, <2>2, Sleepers
<1>7. \A q \in Procs \ {p} : Stays(pc'[q], pc[q])
  BY <1>2, StaysFacts
<1>8. \A j \in Pages \ {k} : j \in silent' <=> j \in silent
  BY <1>2
<1> QED
  BY <1>1, <1>2, <1>3, <1>4, <1>5, <1>6, <1>7, <1>8, CallStep

\* A step within a call that leaves the ring and the locals alone.
LEMMA StayStep ==
  ASSUME Inv, NEW p \in Procs, NEW k \in Pages, k = loc[p].k, pc[p] \in InCall,
         UNCHANGED <<ftable, ofile, pipe, kmem, loc, killed, got>>,
         pc' \in [Procs -> Labels], pc'[p] \in InCall,
         pc'[p] \in Writing => pc[p] \in Writing, pc'[p] \in Reading => pc[p] \in Reading,
         \A q \in Procs \ {p} : Stays(pc'[q], pc[q]),
         pilock[k] \in {p, NoProc}, NEW s \in {p, NoProc}, pilock' = [pilock EXCEPT ![k] = s],
         s = p <=> pc'[p] \in InWrite \cup InRead,
         silent' \in {silent, silent \ {k}},
         pc'[p] = "rempty" => Empty(pipe[k]) /\ pipe[k].writeopen,
         pc'[p] = "wfull" => Full(pipe[k]) /\ pipe[k].readopen,
         pc'[p] \in InWrite \/ \A q \in Procs : ~ReaderForgotten(q, k)',
         pc'[p] = "rcopy" \/ \A q \in Procs : ~WriterForgotten(q, k)'
  PROVE  Inv'
<1>1. Types /\ PlaceAt(p) /\ CallAt(p) /\ Window
  BY Known
<1>2. /\ pilock' \in [Pages -> Procs \cup {NoProc}] /\ pilock'[k] = s
      /\ \A j \in Pages \ {k} : pilock'[j] = pilock[j]
  BY <1>1, SetLock
<1>3. Types'
  <2>1. silent' \subseteq Pages
    BY <1>1 DEF Types
  <2> QED
    BY <1>1, <1>2, <2>1 DEF Types
<1>4. loc'[p].k = k /\ loc'[p].f0 = 0 /\ loc'[p].f1 = 0
  BY <1>1 DEF PlaceAt
<1>5. CallAt(p)'
  <2>1. \A f \in Files : SameFile(f)
    BY DEF SameFile
  <2> QED
    BY <1>1, <2>1, CallKept
<1>6. Fill(pipe'[k]) <= PIPESIZE
  BY <1>1 DEF Window
<1>7. \A q \in Procs \ {p} : loc'[q] = loc[q]
  OBVIOUS
<1>8. \A j \in Pages \ {k} : j \in silent' <=> j \in silent
  OBVIOUS
<1> QED
  BY <1>2, <1>3, <1>4, <1>5, <1>6, <1>7, <1>8, CallStep

LEMMA WakeStep ==
  ASSUME Inv, NEW p \in Procs, NEW l, NEW next, Wake(p, l, next),
         (l = "wlock" /\ next = "wtest") \/ (l = "rlock" /\ next = "rtest")
  PROVE  Inv'
<1>0. PICK k : k = loc[p].k
  OBVIOUS
<1>1. /\ pc[p] = l /\ pilock[k] = NoProc /\ pilock' = [pilock EXCEPT ![k] = p] /\ Goto(p, next)
      /\ UNCHANGED <<ftable, ofile, pipe, kmem, loc, killed, got, silent>>
  BY <1>0 DEF Wake
<1>2. /\ l \in InCall /\ next \in InCall /\ next \in InWrite \cup InRead /\ next \in Labels
      /\ next \in Writing => l \in Writing
      /\ next \in Reading => l \in Reading
      /\ next \notin {"rempty", "wfull", "rsleep", "wsleep", "rcopy"}
  BY DEF InCall, InWrite, InRead, Writing, Reading, Labels
<1>3. Types /\ k \in Pages
  BY <1>0, <1>1, <1>2, Known DEF PlaceAt
<1>4. pc' \in [Procs -> Labels] /\ pc'[p] = next /\ \A q \in Procs \ {p} : pc'[q] = pc[q]
  BY <1>1, <1>2, <1>3, Went
<1>5. k = loc[p].k /\ loc'[p].k = k
  BY <1>0, <1>1
<1>6. \A q \in Procs : ~ReaderForgotten(q, k)' /\ ~WriterForgotten(q, k)'
  <2> SUFFICES ASSUME NEW q \in Procs PROVE ~ReaderForgotten(q, k)' /\ ~WriterForgotten(q, k)'
    OBVIOUS
  <2>1. ~ReaderForgotten(q, k) /\ ~WriterForgotten(q, k)
    <3>1. NoProc # p
      BY PipeSizes
    <3> QED
      BY <1>1, <3>1, Sleepers
  <2>2. pc'[q] \in {"rsleep", "wsleep"} => pc'[q] = pc[q]
    BY <1>2, <1>4
  <2> QED
    BY <1>1, <2>1, <2>2 DEF ReaderForgotten, WriterForgotten, Empty, Full
<1>7. \A q \in Procs \ {p} : Stays(pc'[q], pc[q])
  BY <1>4, StaysFacts
<1> QED
  BY <1>1, <1>2, <1>3, <1>4, <1>5, <1>6, <1>7, StayStep

LEMMA BeginStep ==
  ASSUME Inv, NEW p \in Procs, NEW w \in BOOLEAN, NEW next, Begin(p, w, next),
         next = IF w THEN "wtest" ELSE "rtest"
  PROVE  Inv'
<1>1. PICK d \in 1..NOFILE, n \in Counts :
        /\ Ready(p) /\ ofile[p][d] # 0
        /\ ftable[ofile[p][d]].writable = w /\ pilock[ftable[ofile[p][d]].page] = NoProc
        /\ pilock' = [pilock EXCEPT ![ftable[ofile[p][d]].page] = p]
        /\ loc' = [loc EXCEPT ![p] = [NoLoc EXCEPT !.k = ftable[ofile[p][d]].page, !.n = n]]
        /\ Goto(p, next)
        /\ UNCHANGED <<ftable, ofile, pipe, kmem, killed, got, silent>>
  BY DEF Begin
<1>0. PICK f, k : f = ofile[p][d] /\ k = ftable[f].page
  OBVIOUS
<1> DEFINE s == [NoLoc EXCEPT !.k = k]
           r == [s EXCEPT !.n = n]
<1>2. Types /\ f \in Files /\ Unset /\ Opened /\ Window /\ n \in Nat /\ pc[p] = "user"
  BY <1>0, <1>1, Known, PipeSizes DEF Ready
<1>3. ftable[f] \in File /\ ftable[f].type # "none"
  BY <1>0, <1>2 DEF Types, Unset
<1>4. FileOf(f, k, w)
  BY <1>0, <1>1, <1>3 DEF FileOf, File
<1>5. k \in Pages
  <2>1. k \in Pages \cup {0}
    BY <1>0, <1>3 DEF File
  <2>2. Stands(k, w)
    BY <1>2, <1>4 DEF Stands
  <2> QED
    BY <1>2, <2>1, <2>2 DEF Opened
<1>6. loc' = [loc EXCEPT ![p] = r]
  BY <1>0, <1>1
<1>7. pilock[k] = NoProc /\ pilock' = [pilock EXCEPT ![k] = p]
  BY <1>0, <1>1
<1>8. f = ofile[p][d] /\ f # 0
  BY <1>0, <1>1
<1>9. s \in Local /\ s.f0 = 0 /\ s.f1 = 0 /\ s.k = k
  BY <1>5, NoLocFacts, SetK
<1> HIDE DEF s
<1>10. r \in Local /\ r.f0 = 0 /\ r.f1 = 0 /\ r.k = k
  BY <1>2, <1>9, SetN
<1> HIDE DEF r
<1>11. loc' \in [Procs -> Local] /\ loc'[p] = r /\ \A q \in Procs \ {p} : loc'[q] = loc[q]
  BY <1>2, <1>6, <1>10, SetLoc
<1>12. /\ next \in InCall /\ next \in InWrite \cup InRead /\ next \in Labels
       /\ next \in Writing => w
       /\ next \in Reading => ~w
       /\ next \notin {"rempty", "wfull", "rsleep", "wsleep", "rcopy"}
  BY DEF InCall, InWrite, InRead, Writing, Reading, Labels
<1>13. pc' \in [Procs -> Labels] /\ pc'[p] = next /\ \A q \in Procs \ {p} : pc'[q] = pc[q]
  BY <1>1, <1>2, <1>12, Went
<1>14. /\ pilock' \in [Pages -> Procs \cup {NoProc}] /\ pilock'[k] = p
       /\ \A j \in Pages \ {k} : pilock'[j] = pilock[j]
  BY <1>2, <1>5, <1>7, SetLock
<1>15. UNCHANGED <<ftable, ofile, pipe, kmem, killed, got, silent>>
  BY <1>1
<1>16. Types'
  BY <1>2, <1>11, <1>13, <1>14, <1>15 DEF Types
<1>17. CallAt(p)'
  <2>1. ofile'[p][d] = f /\ FileOf(f, k, w)'
    BY <1>4, <1>8, <1>15 DEF FileOf
  <2> QED
    BY <1>8, <1>10, <1>11, <1>12, <1>13, <2>1 DEF CallAt, FileOf
<1>18. \A q \in Procs : ~ReaderForgotten(q, k)' /\ ~WriterForgotten(q, k)'
  <2> SUFFICES ASSUME NEW q \in Procs PROVE ~ReaderForgotten(q, k)' /\ ~WriterForgotten(q, k)'
    OBVIOUS
  <2>1. ~ReaderForgotten(q, k) /\ ~WriterForgotten(q, k)
    <3>1. NoProc # p
      BY PipeSizes
    <3> QED
      BY <1>7, <3>1, Sleepers
  <2>2. pc'[q] \in {"rsleep", "wsleep"} => pc'[q] = pc[q] /\ loc'[q] = loc[q]
    BY <1>11, <1>12, <1>13
  <2> QED
    BY <1>15, <2>1, <2>2 DEF ReaderForgotten, WriterForgotten, Empty, Full
<1>19. \A q \in Procs \ {p} : Stays(pc'[q], pc[q])
  BY <1>13, StaysFacts
<1>20. Fill(pipe'[k]) <= PIPESIZE
  BY <1>2, <1>5, <1>15 DEF Window
<1> QED
  BY <1>2, <1>5, <1>7, <1>10, <1>11, <1>12, <1>13, <1>14, <1>15, <1>16, <1>17, <1>18, <1>19, <1>20, CallStep

\* A byte more, a byte less.
LEMMA StoredFacts ==
  ASSUME NEW q \in Ring, NEW b \in Bytes, ~Full(q), Fill(q) <= PIPESIZE
  PROVE  LET r == Stored(q, b) IN
         /\ r \in Ring
         /\ r.readopen <=> q.readopen
         /\ r.writeopen <=> q.writeopen
         /\ r.nread = q.nread /\ r.nwrite = (q.nwrite + 1) % Wrap
         /\ r.data = [q.data EXCEPT ![q.nwrite % PIPESIZE] = b]
         /\ Fill(r) = Fill(q) + 1 /\ Fill(r) <= PIPESIZE
<1> DEFINE i == q.nwrite % PIPESIZE
           m == (q.nwrite + 1) % Wrap
           d == [q.data EXCEPT ![i] = b]
           x == [q EXCEPT !.data = d]
           r == [x EXCEPT !.nwrite = m]
<1>1. m \in 0..(Wrap - 1)
  <2>1. q.nwrite \in 0..(Wrap - 1)
    BY DEF Ring
  <2> QED
    BY <2>1, Advance
<1>2. Stored(q, b) = r
  <2>1. x.nwrite = q.nwrite
    BY DEF Ring
  <2> QED
    BY DEF Stored
<1>3. m = (q.nwrite + 1) % Wrap /\ d = [q.data EXCEPT ![q.nwrite % PIPESIZE] = b]
  OBVIOUS
<1> HIDE DEF i, m
<1>4. d \in [0..(PIPESIZE - 1) -> Bytes]
  BY DEF Ring
<1> HIDE DEF d
<1>5. /\ x \in Ring /\ x.nread = q.nread /\ x.data = d
      /\ x.readopen <=> q.readopen
      /\ x.writeopen <=> q.writeopen
  BY <1>4 DEF Ring
<1> HIDE DEF x
<1>6. /\ r \in Ring /\ r.nread = q.nread /\ r.nwrite = m /\ r.data = d
      /\ r.readopen <=> q.readopen
      /\ r.writeopen <=> q.writeopen
  BY <1>1, <1>5 DEF Ring
<1> HIDE DEF r
<1>7. Fill(r) = Fill(q) + 1 /\ Fill(r) <= PIPESIZE
  BY <1>3, <1>6, OneByteMore
<1> QED
  BY <1>2, <1>3, <1>6, <1>7

LEMMA TakenFacts ==
  ASSUME NEW q \in Ring, ~Empty(q), Fill(q) <= PIPESIZE
  PROVE  LET r == Taken(q) IN
         /\ r \in Ring
         /\ r.readopen <=> q.readopen
         /\ r.writeopen <=> q.writeopen
         /\ r.nread = (q.nread + 1) % Wrap /\ r.nwrite = q.nwrite /\ r.data = q.data
         /\ Fill(r) = Fill(q) - 1 /\ Fill(r) <= PIPESIZE
<1> DEFINE m == (q.nread + 1) % Wrap
           r == [q EXCEPT !.nread = m]
<1>1. m \in 0..(Wrap - 1)
  <2>1. q.nread \in 0..(Wrap - 1)
    BY DEF Ring
  <2> QED
    BY <2>1, Advance
<1>2. Taken(q) = r /\ m = (q.nread + 1) % Wrap
  BY DEF Taken
<1> HIDE DEF m
<1>3. /\ r \in Ring /\ r.nread = m /\ r.nwrite = q.nwrite /\ r.data = q.data
      /\ r.readopen <=> q.readopen
      /\ r.writeopen <=> q.writeopen
  BY <1>1 DEF Ring
<1> HIDE DEF r
<1>4. Fill(r) = Fill(q) - 1 /\ Fill(r) <= PIPESIZE
  BY <1>2, <1>3, OneByteLess
<1> QED
  BY <1>2, <1>3, <1>4

\* A step of a call that moves a byte: x is what becomes of the pipe, and p goes on.
LEMMA ByteStep ==
  ASSUME Inv, NEW p \in Procs, NEW k \in Pages, k = loc[p].k, pc[p] \in {"wtest", "rcopy"},
         NEW x \in Ring, Fill(x) <= PIPESIZE, pipe' = [pipe EXCEPT ![k] = x],
         x.readopen <=> pipe[k].readopen, x.writeopen <=> pipe[k].writeopen,
         IF pc[p] = "wtest" THEN ~Full(pipe[k]) ELSE ~Empty(pipe[k]),
         got' \in Bytes, loc' = [loc EXCEPT ![p].i = @ + 1],
         UNCHANGED <<ftable, ofile, kmem, pilock, pc, killed, silent>>
  PROVE  Inv'
<1>0. pc[p] \in InWrite \cup InRead /\ (pc[p] \in InWrite => pc[p] = "wtest")
  BY DEF InWrite, InRead
<1>1. /\ Types /\ pilock[k] = p /\ pc[p] \in InCall /\ loc[p] \in Local /\ CallAt(p)
      /\ loc[p].f0 = 0 /\ loc[p].f1 = 0 /\ loc[p].i \in Nat
  BY <1>0, Holder, Known, LabelFacts
<1>2. /\ loc' \in [Procs -> Local] /\ loc'[p].f0 = 0 /\ loc'[p].f1 = 0 /\ loc'[p].k = k
      /\ \A q \in Procs \ {p} : loc'[q] = loc[q]
  <2> DEFINE n == loc[p].i + 1
             r == [loc[p] EXCEPT !.i = n]
  <2>1. loc' = [loc EXCEPT ![p] = r] /\ n \in Nat
    BY <1>1
  <2> HIDE DEF n
  <2>2. r \in Local /\ r.f0 = 0 /\ r.f1 = 0 /\ r.k = k
    BY <1>1, <2>1, SetI
  <2> HIDE DEF r
  <2>3. loc' \in [Procs -> Local] /\ loc'[p] = r /\ \A q \in Procs \ {p} : loc'[q] = loc[q]
    BY <1>1, <2>1, <2>2, SetLoc
  <2> QED
    BY <2>2, <2>3
<1>3. /\ pipe' \in [Pages -> Ring] /\ pipe'[k] = x
      /\ \A j \in Pages \ {k} : pipe'[j] = pipe[j]
  BY <1>1 DEF Types
<1>4. Types'
  BY <1>1, <1>2, <1>3 DEF Types
<1>5. CallAt(p)'
  <2>1. \A f \in Files : SameFile(f)
    BY DEF SameFile
  <2> QED
    BY <1>1, <1>2, <2>1, CallKept
<1>6. \A q \in Procs : Stays(pc'[q], pc[q])
  BY StaysFacts
<1>7. pc'[p] \in InWrite \/ \A q \in Procs : ~ReaderForgotten(q, k)'
  <2> SUFFICES ASSUME pc[p] = "rcopy", NEW q \in Procs, ReaderForgotten(q, k)' PROVE FALSE
    BY <1>0 DEF InWrite
  <2>1. pc[q] = "rsleep" /\ loc[q].k = k /\ k \notin silent /\ ~Empty(pipe[k])
    BY <1>2 DEF ReaderForgotten
  <2>2. ReaderForgotten(q, k)
    BY <2>1 DEF ReaderForgotten
  <2>3. pc[p] \notin InWrite
    BY DEF InWrite
  <2> QED
    BY <1>1, <2>2, <2>3, Sleepers
<1>8. pc'[p] = "rcopy" \/ \A q \in Procs : ~WriterForgotten(q, k)'
  <2> SUFFICES ASSUME pc[p] = "wtest", NEW q \in Procs, WriterForgotten(q, k)' PROVE FALSE
    OBVIOUS
  <2>1. pc[q] = "wsleep" /\ loc[q].k = k /\ ~Full(pipe[k])
    BY <1>2 DEF WriterForgotten
  <2>2. WriterForgotten(q, k)
    BY <2>1 DEF WriterForgotten
  <2> QED
    BY <1>1, <2>2, Sleepers
<1>9. pc'[p] \notin {"rempty", "wfull"} /\ pc'[p] \in InWrite \cup InRead
  BY <1>0
<1> QED
  BY <1>1, <1>2, <1>3, <1>4, <1>5, <1>6, <1>7, <1>8, <1>9, CallStep

\* copyout() fails: the byte is gone, and the call ends.
LEMMA LostByte ==
  ASSUME Inv, NEW p \in Procs, NEW k \in Pages, k = loc[p].k, pc[p] = "rcopy",
         NEW x \in Ring, Fill(x) <= PIPESIZE, pipe' = [pipe EXCEPT ![k] = x],
         x.readopen <=> pipe[k].readopen, x.writeopen <=> pipe[k].writeopen,
         ~Empty(pipe[k]), got' \in Bytes, Leave(p, "wsleep"),
         UNCHANGED <<ftable, ofile, kmem, killed>>
  PROVE  Inv'
<1>1. /\ Types /\ pilock[k] = p /\ pc[p] \in InCall
  BY Holder, LabelFacts DEF InRead
<1>2. /\ loc' \in [Procs -> Local] /\ loc'[p] = NoLoc /\ pc' \in [Procs -> Labels] /\ pc'[p] = "user"
      /\ \A q \in Procs \ {p} : loc'[q] = loc[q] /\ Stays(pc'[q], pc[q])
      /\ \A q \in Procs : ~(pc'[q] = "wsleep" /\ loc'[q].k = k)
      /\ pilock' \in [Pages -> Procs \cup {NoProc}] /\ pilock'[k] = NoProc
      /\ \A j \in Pages \ {k} : pilock'[j] = pilock[j]
      /\ silent' = silent
  BY <1>1, Left
<1>3. /\ pipe' \in [Pages -> Ring] /\ pipe'[k] = x
      /\ \A j \in Pages \ {k} : pipe'[j] = pipe[j]
  BY <1>1 DEF Types
<1>4. Types'
  BY <1>1, <1>2, <1>3 DEF Types
<1>5. "user" \notin InWrite \cup InRead /\ "user" # "rsleep" /\ NoProc # p
  BY LabelFacts, PipeSizes
<1>6. \A q \in Procs : ~ReaderForgotten(q, k)'
  <2> SUFFICES ASSUME NEW q \in Procs, ReaderForgotten(q, k)' PROVE FALSE
    OBVIOUS
  <2>1. pc[q] = "rsleep" /\ loc[q].k = k /\ k \notin silent
    BY <1>2, <1>5 DEF ReaderForgotten, Stays
  <2>2. ReaderForgotten(q, k)
    BY <2>1 DEF ReaderForgotten
  <2>3. pc[p] \notin InWrite
    BY DEF InWrite
  <2> QED
    BY <1>1, <2>2, <2>3, Sleepers
<1>7. \A q \in Procs : ~WriterForgotten(q, k)'
  BY <1>2 DEF WriterForgotten
<1> QED
  BY <1>1, <1>2, <1>3, <1>4, <1>5, <1>6, <1>7, CallStep

LEMMA PipewriteStep ==
  ASSUME Inv, NEW p \in Procs, Pipewrite(p)
  PROVE  Inv'
<1>0. PICK k : k = loc[p].k
  OBVIOUS
<1> DEFINE q == pipe[k]
           more == loc[p].i < loc[p].n
           stop == ~q.readopen \/ p \in killed
<1>1. /\ pc[p] = "wtest" /\ pc[p] \in InWrite /\ pc[p] \in InCall /\ UNCHANGED <<ftable, ofile, kmem, killed, got>>
  BY LabelFacts DEF Pipewrite, InWrite
<1>2. /\ Types /\ k \in Pages /\ pilock[k] = p /\ q \in Ring /\ Fill(q) <= PIPESIZE
  BY <1>0, <1>1, Holder
<1>3. CASE Leave(p, "rsleep") /\ UNCHANGED pipe
  BY <1>0, <1>1, <1>2, <1>3, LeaveStep
<1>4. CASE more /\ stop /\ GiveUp(p) /\ UNCHANGED pipe
  BY <1>0, <1>1, <1>2, <1>4, GiveUpStep
<1>5. CASE ~stop /\ Full(q) /\ Goto(p, "wfull") /\ UNCHANGED <<pipe, pilock, loc, silent>>
  <2>1. pc' \in [Procs -> Labels] /\ pc'[p] = "wfull" /\ \A s \in Procs \ {p} : pc'[s] = pc[s]
    <3>1. "wfull" \in Labels
      BY DEF Labels, InCall, InWrite
    <3> QED
      BY <1>2, <1>5, <3>1, Went
  <2>2. \A s \in Procs \ {p} : Stays(pc'[s], pc[s])
    BY <2>1, StaysFacts
  <2>3. pilock' = [pilock EXCEPT ![k] = p]
    BY <1>2, <1>5 DEF Types
  <2>4. \A s \in Procs : ~WriterForgotten(s, k)'
    <3> SUFFICES ASSUME NEW s \in Procs, WriterForgotten(s, k)' PROVE FALSE
      OBVIOUS
    <3>1. WriterForgotten(s, k)
      BY <1>5, <2>1 DEF WriterForgotten, Full
    <3> QED
      BY <1>1, <1>2, <3>1, Sleepers
  <2>5. /\ pc'[p] \in InWrite /\ pc'[p] \in InCall /\ pc'[p] \in InWrite \cup InRead
        /\ pc'[p] \in Writing => pc[p] \in Writing
        /\ pc'[p] \in Reading => pc[p] \in Reading
        /\ pc'[p] # "rempty"
    BY <1>1, <2>1 DEF InWrite, InCall, Writing, Reading, InRead
  <2>6. Full(pipe[k]) /\ pipe[k].readopen
    BY <1>5
  <2> QED
    BY <1>0, <1>1, <1>2, <1>5, <2>1, <2>2, <2>3, <2>4, <2>5, <2>6, StayStep
<1>6. CASE /\ ~Full(q)
           /\ \E b \in Bytes : pipe' = [pipe EXCEPT ![k] = Stored(q, b)]
           /\ loc' = [loc EXCEPT ![p].i = @ + 1]
           /\ UNCHANGED <<pilock, pc, silent>>
  <2>1. PICK b \in Bytes : pipe' = [pipe EXCEPT ![k] = Stored(q, b)]
    BY <1>6
  <2>2. PICK y : y = pipe[k]
    OBVIOUS
  <2>3. y \in Ring /\ ~Full(y) /\ Fill(y) <= PIPESIZE
    BY <1>2, <1>6, <2>2
  <2>4. PICK x : x = Stored(y, b)
    OBVIOUS
  <2>5. x \in Ring /\ Fill(x) <= PIPESIZE /\ (x.readopen <=> y.readopen) /\ (x.writeopen <=> y.writeopen)
    BY <2>3, <2>4, StoredFacts
  <2>6. /\ x \in Ring /\ Fill(x) <= PIPESIZE /\ pipe' = [pipe EXCEPT ![k] = x]
        /\ x.readopen <=> pipe[k].readopen
        /\ x.writeopen <=> pipe[k].writeopen
    BY <2>1, <2>2, <2>4, <2>5
  <2>7. ~Full(pipe[k]) /\ got' \in Bytes
    BY <1>1, <1>2, <1>6 DEF Types
  <2> QED
    BY <1>0, <1>1, <1>2, <1>6, <2>6, <2>7, ByteStep
<1> QED
  BY <1>0, <1>3, <1>4, <1>5, <1>6 DEF Pipewrite

LEMMA WriteSleepStep ==
  ASSUME Inv, NEW p \in Procs, WriteSleep(p)
  PROVE  Inv'
<1>0. PICK k : k = loc[p].k
  OBVIOUS
<1>1. /\ pc[p] = "wfull" /\ pc' = [Woken(k, "rsleep") EXCEPT ![p] = "wsleep"]
      /\ silent' = silent \ {k} /\ pilock' = [pilock EXCEPT ![k] = NoProc]
      /\ UNCHANGED <<ftable, ofile, pipe, kmem, loc, killed, got>>
  BY <1>0 DEF WriteSleep, Sleep
<1>2. pc[p] \in InWrite /\ pc[p] \in InCall /\ pc[p] \in Writing /\ NoProc # p
  BY <1>1, LabelFacts, PipeSizes DEF InWrite
<1>3. Types /\ k \in Pages /\ pilock[k] = p
  BY <1>0, <1>2, Holder
<1>4. Woken(k, "rsleep") \in [Procs -> Labels] /\ "wsleep" \in Labels
  <2>1. "wsleep" \in Labels
    BY DEF Labels, InCall
  <2> QED
    BY <1>3, <2>1, WokenFacts
<1>5. pc' \in [Procs -> Labels] /\ pc'[p] = "wsleep" /\ \A q \in Procs \ {p} : pc'[q] = Woken(k, "rsleep")[q]
  BY <1>1, <1>4
<1>6. \A q \in Procs \ {p} : Stays(pc'[q], pc[q]) /\ ~(pc'[q] = "rsleep" /\ loc[q].k = k)
  BY <1>3, <1>5, WokenStay
<1>7. \A q \in Procs : ~ReaderForgotten(q, k)'
  BY <1>1, <1>5, <1>6 DEF ReaderForgotten
<1>8. Full(pipe[k]) /\ pipe[k].readopen
  BY <1>0, <1>1, Known DEF AsleepAt
<1>9. \A q \in Procs : ~WriterForgotten(q, k)'
  BY <1>1, <1>8 DEF WriterForgotten, Full
<1>10. /\ pc'[p] \in InCall /\ pc'[p] \notin InWrite \cup InRead /\ pc'[p] \notin {"rempty", "wfull"}
       /\ pc'[p] \notin Reading
  BY <1>5 DEF InWrite, InCall, Writing, Reading, InRead
<1> QED
  BY <1>0, <1>1, <1>2, <1>3, <1>5, <1>6, <1>7, <1>9, <1>10, StayStep

LEMMA PipereadStep ==
  ASSUME Inv, NEW p \in Procs, Piperead(p)
  PROVE  Inv'
<1>0. PICK k : k = loc[p].k
  OBVIOUS
<1> DEFINE q == pipe[k]
           wait == Empty(q) /\ q.writeopen
<1>1. /\ pc[p] = "rtest" /\ pc[p] \in InRead /\ pc[p] \notin InWrite /\ pc[p] \in InCall /\ pc[p] \in Reading
      /\ pc[p] # "rcopy" /\ UNCHANGED <<ftable, ofile, pipe, kmem, killed, got>>
  BY LabelFacts DEF Piperead, InRead, InWrite
<1>2. /\ Types /\ k \in Pages /\ pilock[k] = p
  BY <1>0, <1>1, Holder
<1>3. CASE wait /\ GiveUp(p)
  BY <1>0, <1>1, <1>2, <1>3, GiveUpStep
<1>4. ASSUME NEW l, l = "rcopy" \/ (l = "rempty" /\ wait), Goto(p, l), UNCHANGED <<pilock, loc, silent>>
      PROVE  Inv'
  <2>1. /\ l \in Labels /\ l \in InCall /\ l \in InRead /\ l \notin Writing /\ l \notin {"wfull", "rsleep", "wsleep"}
    BY <1>4 DEF Labels, InCall, InRead, Writing, InWrite
  <2>2. pc' \in [Procs -> Labels] /\ pc'[p] = l /\ \A s \in Procs \ {p} : pc'[s] = pc[s]
    BY <1>2, <1>4, <2>1, Went
  <2>3. \A s \in Procs \ {p} : Stays(pc'[s], pc[s])
    BY <2>2, StaysFacts
  <2>4. pilock' = [pilock EXCEPT ![k] = p]
    BY <1>2, <1>4 DEF Types
  <2>5. \A s \in Procs : ~ReaderForgotten(s, k)' /\ ~WriterForgotten(s, k)'
    <3> SUFFICES ASSUME NEW s \in Procs PROVE ~ReaderForgotten(s, k)' /\ ~WriterForgotten(s, k)'
      OBVIOUS
    <3>1. ~ReaderForgotten(s, k) /\ ~WriterForgotten(s, k)
      BY <1>1, <1>2, Sleepers
    <3>2. pc'[s] \in {"rsleep", "wsleep"} => pc'[s] = pc[s]
      BY <2>1, <2>2
    <3> QED
      BY <1>1, <1>4, <3>1, <3>2 DEF ReaderForgotten, WriterForgotten, Empty, Full
  <2>6. pc'[p] = "rempty" => Empty(pipe[k]) /\ pipe[k].writeopen
    BY <1>4, <2>2
  <2> QED
    BY <1>0, <1>1, <1>2, <1>4, <2>1, <2>2, <2>3, <2>4, <2>5, <2>6, StayStep
<1>5. CASE wait /\ Goto(p, "rempty") /\ UNCHANGED <<pilock, loc, silent>>
  BY <1>4, <1>5
<1>6. CASE Goto(p, "rcopy") /\ UNCHANGED <<pilock, loc, silent>>
  BY <1>4, <1>6
<1> QED
  BY <1>0, <1>3, <1>5, <1>6 DEF Piperead

LEMMA ReadSleepStep ==
  ASSUME Inv, NEW p \in Procs, ReadSleep(p)
  PROVE  Inv'
<1>0. PICK k : k = loc[p].k
  OBVIOUS
<1>1. /\ pc[p] = "rempty" /\ Goto(p, "rsleep") /\ pilock' = [pilock EXCEPT ![k] = NoProc]
      /\ UNCHANGED <<ftable, ofile, pipe, kmem, loc, killed, got, silent>>
  BY <1>0 DEF ReadSleep, Sleep
<1>2. pc[p] \in InRead /\ pc[p] \notin InWrite /\ pc[p] # "rcopy" /\ pc[p] \in InCall /\ pc[p] \in Reading /\ NoProc # p
  BY <1>1, LabelFacts, PipeSizes DEF InRead, InWrite
<1>3. Types /\ k \in Pages /\ pilock[k] = p
  BY <1>0, <1>2, Holder
<1>4. pc' \in [Procs -> Labels] /\ pc'[p] = "rsleep" /\ \A q \in Procs \ {p} : pc'[q] = pc[q]
  <2>1. "rsleep" \in Labels
    BY DEF Labels, InCall
  <2> QED
    BY <1>1, <1>3, <2>1, Went
<1>5. \A q \in Procs \ {p} : Stays(pc'[q], pc[q])
  BY <1>4, StaysFacts
<1>6. Empty(pipe[k]) /\ pipe[k].writeopen
  BY <1>0, <1>1, Known DEF AsleepAt
<1>7. \A q \in Procs : ~ReaderForgotten(q, k)'
  BY <1>1, <1>6 DEF ReaderForgotten, Empty
<1>8. \A q \in Procs : ~WriterForgotten(q, k)'
  <2> SUFFICES ASSUME NEW q \in Procs, WriterForgotten(q, k)' PROVE FALSE
    OBVIOUS
  <2>1. WriterForgotten(q, k)
    BY <1>1, <1>4 DEF WriterForgotten, Full
  <2> QED
    BY <1>2, <1>3, <2>1, Sleepers
<1>9. /\ pc'[p] \in InCall /\ pc'[p] \notin InWrite \cup InRead /\ pc'[p] \notin {"rempty", "wfull"}
      /\ pc'[p] \notin Writing
  BY <1>4 DEF InWrite, InCall, Writing, Reading, InRead
<1> QED
  BY <1>0, <1>1, <1>2, <1>3, <1>4, <1>5, <1>7, <1>8, <1>9, StayStep

LEMMA PipereadCopyStep ==
  ASSUME Inv, NEW p \in Procs, PipereadCopy(p)
  PROVE  Inv'
<1>0. PICK k : k = loc[p].k
  OBVIOUS
<1> DEFINE q == pipe[k]
<1>1. /\ pc[p] = "rcopy" /\ pc[p] \in InRead /\ pc[p] \notin InWrite /\ UNCHANGED <<ftable, ofile, kmem, killed>>
  BY DEF PipereadCopy, InRead, InWrite
<1>2. /\ Types /\ k \in Pages /\ pilock[k] = p /\ q \in Ring /\ Fill(q) <= PIPESIZE
  BY <1>0, <1>1, Holder
<1>3. CASE Leave(p, "wsleep") /\ UNCHANGED <<pipe, got>>
  BY <1>0, <1>1, <1>2, <1>3, LeaveStep
<1>4. CASE /\ ~Empty(q)
           /\ got' = q.data[q.nread % PIPESIZE]
           /\ pipe' = [pipe EXCEPT ![k] = Taken(q)]
           /\ \/ Leave(p, "wsleep")
              \/ loc' = [loc EXCEPT ![p].i = @ + 1] /\ UNCHANGED <<pilock, pc, silent>>
  <2>1. got' \in Bytes
    <3> DEFINE j == q.nread % PIPESIZE
    <3>1. q.nread \in Int /\ q.data \in [0..(PIPESIZE - 1) -> Bytes]
      BY <1>2, PipeSizes DEF Ring
    <3>2. j \in 0..(PIPESIZE - 1)
      BY <3>1, PipeSizes, Divided
    <3>3. got' = q.data[j]
      BY <1>4
    <3> HIDE DEF j
    <3> QED
      BY <3>1, <3>2, <3>3
  <2>2. PICK x, y : x = Taken(y) /\ y = pipe[k]
    OBVIOUS
  <2>3. /\ x \in Ring /\ Fill(x) <= PIPESIZE /\ pipe' = [pipe EXCEPT ![k] = x]
        /\ x.readopen <=> pipe[k].readopen
        /\ x.writeopen <=> pipe[k].writeopen
    <3>1. y \in Ring /\ ~Empty(y) /\ Fill(y) <= PIPESIZE
      BY <1>2, <1>4, <2>2
    <3>2. x \in Ring /\ Fill(x) <= PIPESIZE /\ (x.readopen <=> y.readopen) /\ (x.writeopen <=> y.writeopen)
      BY <2>2, <3>1, TakenFacts
    <3> QED
      BY <1>4, <2>2, <3>2
  <2>4. ~Empty(pipe[k])
    BY <1>4
  <2>5. CASE Leave(p, "wsleep")
    BY <1>0, <1>1, <1>2, <2>1, <2>3, <2>4, <2>5, LostByte
  <2>6. CASE loc' = [loc EXCEPT ![p].i = @ + 1] /\ UNCHANGED <<pilock, pc, silent>>
    BY <1>0, <1>1, <1>2, <2>1, <2>3, <2>4, <2>6, ByteStep
  <2> QED
    BY <1>4, <2>5, <2>6
<1> QED
  BY <1>0, <1>3, <1>4 DEF PipereadCopy

LEMMA KillStep ==
  ASSUME Inv, NEW p \in Procs, Kill(p)
  PROVE  Inv'
<1> DEFINE l == IF pc[p] = "rsleep" THEN "rlock" ELSE IF pc[p] = "wsleep" THEN "wlock" ELSE pc[p]
<1>1. /\ pc[p] \in InCall /\ killed' = killed \cup {p} /\ Goto(p, l)
      /\ UNCHANGED <<ftable, ofile, pipe, kmem, pilock, loc, got, silent>>
  BY DEF Kill
<1>2. Types /\ Refs /\ Unset /\ Sides /\ Opened /\ Window
  BY Known
<1>3. Stays(l, pc[p]) /\ l \in Labels
  <2>1. "wlock" \in Labels /\ "rlock" \in Labels
    BY DEF Labels, InCall
  <2> QED
    BY <2>1, StaysFacts, Known
<1> HIDE DEF l
<1>4. pc' \in [Procs -> Labels] /\ pc'[p] = l /\ \A q \in Procs \ {p} : pc'[q] = pc[q]
  BY <1>1, <1>2, <1>3, Went
<1>5. \A q \in Procs : Stays(pc'[q], pc[q])
  BY <1>3, <1>4, StaysFacts
<1>6. Types'
  BY <1>1, <1>2, <1>4 DEF Types
<1>7. Refs' /\ Unset' /\ Window'
  BY <1>1, <1>2, RefsKept, UnsetKept DEF Window
<1>8. \A f \in Files : SameFile(f)
  BY <1>1 DEF SameFile
<1>9. Sides' /\ Opened'
  <2>1. \A q \in Procs : SameCloser(q)
    BY <1>1, <1>5, LabelFacts DEF SameCloser, Stays
  <2> QED
    BY <1>1, <1>2, <1>8, <2>1, SidesKept
<1>10. ASSUME NEW q \in Procs PROVE PlaceAt(q)' /\ CallAt(q)' /\ LockedAt(q)' /\ AsleepAt(q)'
  <2>1. PlaceAt(q) /\ CallAt(q) /\ LockedAt(q) /\ AsleepAt(q) /\ Stays(pc'[q], pc[q])
    BY <1>5, Known
  <2>2. PlaceAt(q)'
    <3>1. CASE pc[q] \in InCall
      BY <1>1, <1>2, <2>1, <3>1, PlaceMoved DEF Stays
    <3>2. CASE pc[q] \notin InCall
      <4>1. pc'[q] = pc[q]
        BY <2>1, <3>2 DEF Stays
      <4> QED
        BY <1>1, <1>2, <2>1, <4>1, PlaceKept
    <3> QED
      BY <3>1, <3>2
  <2>3. CallAt(q)'
    BY <1>1, <1>2, <1>8, <2>1, CallKept DEF Stays
  <2>4. LockedAt(q)'
    BY <1>1, <2>1 DEF LockedAt, Stays
  <2>5. AsleepAt(q)'
    <3>1. \A s \in Procs : /\ pc'[s] \in InWrite <=> pc[s] \in InWrite
                           /\ pc'[s] = "rcopy" <=> pc[s] = "rcopy"
      BY <1>5 DEF Stays
    <3> QED
      BY <1>1, <2>1, <3>1 DEF AsleepAt, Stays
  <2> QED
    BY <2>2, <2>3, <2>4, <2>5
<1> QED
  BY <1>6, <1>7, <1>9, <1>10 DEF Inv

LEMMA InvInit == PipeInit => Inv
<1> SUFFICES ASSUME PipeInit PROVE Inv
  OBVIOUS
<1>1. First \in Procs /\ NoProc \notin Procs /\ 0 \notin Pages
  BY PipeSizes
<1>2. Min(Bytes) \in Bytes
  BY PipeSizes, Least
<1>3. /\ ftable = [f \in Files |-> NoFile] /\ ofile = [p \in Procs |-> NoFds]
      /\ pipe = [k \in Pages |-> Junk] /\ kmem = Pages /\ pilock = [k \in Pages |-> NoProc]
      /\ pc = [p \in Procs |-> IF p = First THEN "user" ELSE "unused"]
      /\ loc = [p \in Procs |-> NoLoc] /\ killed = {} /\ silent = {} /\ got = Min(Bytes)
  BY DEF PipeInit
<1>4. /\ \A f \in Files : ftable[f] = NoFile
      /\ NoFile \in File /\ NoFile.ref = 0 /\ NoFile.type = "none"
  BY <1>3 DEF NoFile, File
<1>5. \A p \in Procs : ofile[p] \in [1..NOFILE -> {0} \cup Files] /\ \A d \in 1..NOFILE : ofile[p][d] = 0
  BY <1>3 DEF NoFds
<1>6. \A p \in Procs : loc[p] = NoLoc /\ pc[p] \in {"user", "unused"}
  BY <1>3
<1>7. \A p \in Procs : pc[p] \notin InCall \cup {"pclose"}
  BY <1>6, LabelFacts
<1>8. Types
  <2>1. ftable \in [Files -> File]
    BY <1>3, <1>4
  <2>2. ofile \in [Procs -> [1..NOFILE -> {0} \cup Files]]
    BY <1>3, <1>5
  <2>3. pipe \in [Pages -> Ring]
    BY <1>3, JunkFacts
  <2>4. pc \in [Procs -> Labels] /\ loc \in [Procs -> Local]
    BY <1>3, LabelFacts, NoLocFacts
  <2> QED
    BY <1>2, <1>3, <2>1, <2>2, <2>3, <2>4 DEF Types
<1>9. Window
  BY <1>3, JunkFacts, PipeSizes DEF Window
<1>10. Refs
  <2> SUFFICES ASSUME NEW f \in Files PROVE Counted(f)
    BY DEF Refs
  <2>1. f # 0
    BY DEF Files
  <2>2. Fds(f) = {} /\ First0(f) = {} /\ Second1(f) = {}
    BY <1>5, <1>6, <2>1, NoLocFacts DEF Fds, First0, Second1
  <2>3. Cardinality({}) = 0
    BY FS_EmptySet
  <2> QED
    BY <1>4, <2>2, <2>3 DEF Counted
<1>11. Unset
  BY <1>4, <1>5, <1>6, NoLocFacts DEF Unset, Has, Files
<1>12. \A f \in Files : \A k, w : ~FileOf(f, k, w)
  BY <1>4 DEF FileOf
<1>13. \A p \in Procs : \A k, w : ~Closer(p, k, w)
  BY <1>7 DEF Closer
<1>14. Sides
  BY <1>12, <1>13 DEF Sides
<1>15. Opened
  BY <1>3, <1>12, <1>13 DEF Opened, Stands
<1>16. ASSUME NEW p \in Procs PROVE PlaceAt(p) /\ LockedAt(p) /\ CallAt(p) /\ AsleepAt(p)
  <2>1. PlaceAt(p)
    BY <1>5, <1>6, <1>7, NoLocFacts DEF PlaceAt
  <2>2. LockedAt(p)
    BY <1>1, <1>3, <1>7, LabelFacts DEF LockedAt
  <2>3. CallAt(p)
    BY <1>7, LabelFacts DEF CallAt
  <2>4. AsleepAt(p)
    BY <1>7 DEF AsleepAt, InCall, InRead, InWrite
  <2> QED
    BY <2>1, <2>2, <2>3, <2>4
<1> QED
  BY <1>8, <1>9, <1>10, <1>11, <1>14, <1>15, <1>16 DEF Inv

LEMMA InvNext == Inv /\ [PipeNext]_pvars => Inv'
<1> SUFFICES ASSUME Inv, [PipeNext]_pvars PROVE Inv'
  OBVIOUS
<1>1. CASE UNCHANGED pvars
  <2>1. UNCHANGED <<ftable, ofile, pipe, kmem, pilock, pc, loc, killed, got, silent>>
    BY <1>1 DEF pvars
  <2>2. Types' /\ Window'
    BY <2>1 DEF Inv, Types, Window
  <2>3. Refs' /\ Unset'
    BY <2>1, RefsKept, UnsetKept DEF Inv
  <2>4. Sides' /\ Opened'
    <3>1. (\A f \in Files : SameFile(f)) /\ (\A q \in Procs : SameCloser(q))
      BY <2>1 DEF SameFile, SameCloser
    <3> QED
      BY <2>1, <3>1, SidesKept DEF Inv
  <2>5. ASSUME NEW p \in Procs PROVE PlaceAt(p)' /\ LockedAt(p)' /\ CallAt(p)' /\ AsleepAt(p)'
    <3>1. PlaceAt(p) /\ LockedAt(p) /\ CallAt(p) /\ AsleepAt(p)
      BY Known
    <3> QED
      BY <2>1, <3>1 DEF PlaceAt, LockedAt, CallAt, AsleepAt, FileOf
  <2> QED
    BY <2>2, <2>3, <2>4, <2>5 DEF Inv
<1>2. ASSUME NEW p \in Procs, PipeStep(p) PROVE Inv'
  <2>1. CASE Filealloc(p)
    BY <2>1, FileallocStep
  <2>2. CASE Pipealloc(p)
    BY <2>2, PipeallocStep
  <2>3. CASE SysPipe(p)
    BY <2>3, SysPipeStep
  <2>4. CASE SysDup(p)
    BY <2>4, SysDupStep
  <2>5. CASE SysClose(p)
    BY <2>5, SysCloseStep
  <2>6. CASE \/ loc[p].f0 # 0 /\ Fileclose(p, loc[p].f0, [loc[p] EXCEPT !.f0 = 0])
             \/ loc[p].f0 = 0 /\ Fileclose(p, loc[p].f1, [loc[p] EXCEPT !.f1 = 0])
    BY <2>6, PutStep
  <2>7. CASE Pipeclose(p)
    BY <2>7, PipecloseStep
  <2>8. CASE Fork(p)
    BY <2>8, ForkStep
  <2>9. CASE Exit(p)
    BY <2>9, ExitStep
  <2>10. CASE Kill(p)
    BY <2>10, KillStep
  <2>11. CASE Begin(p, TRUE, "wtest") \/ Begin(p, FALSE, "rtest")
    <3>1. "wtest" = IF TRUE THEN "wtest" ELSE "rtest"
      OBVIOUS
    <3>2. "rtest" = IF FALSE THEN "wtest" ELSE "rtest"
      OBVIOUS
    <3> QED
      BY <2>11, <3>1, <3>2, BeginStep
  <2>12. CASE Wake(p, "wlock", "wtest") \/ Wake(p, "rlock", "rtest")
    BY <2>12, WakeStep
  <2>13. CASE Pipewrite(p)
    BY <2>13, PipewriteStep
  <2>14. CASE WriteSleep(p)
    BY <2>14, WriteSleepStep
  <2>15. CASE Piperead(p)
    BY <2>15, PipereadStep
  <2>16. CASE ReadSleep(p)
    BY <2>16, ReadSleepStep
  <2>17. CASE PipereadCopy(p)
    BY <2>17, PipereadCopyStep
  <2> QED
    BY <1>2, <2>1, <2>2, <2>3, <2>4, <2>5, <2>6, <2>7, <2>8, <2>9, <2>10, <2>11, <2>12, <2>13,
       <2>14, <2>15, <2>16, <2>17 DEF PipeStep
<1> QED
  BY <1>1, <1>2 DEF PipeNext


-----------------------------------------------------------------------------
(* What the invariant says of the promises of Pipe.tla. *)

LEMMA SideStands ==
  ASSUME Types, NEW k, NEW w \in BOOLEAN
  PROVE  Side(k, w) <=> Stands(k, w)
<1>1. ASSUME NEW f \in Files
      PROVE  ftable[f] = [ref |-> ftable[f].ref, type |-> "pipe", writable |-> w, page |-> k] <=> FileOf(f, k, w)
  <2>1. ftable[f] \in File /\ ftable[f].writable \in BOOLEAN
    BY DEF Types, File
  <2> QED
    BY <2>1 DEF FileOf, File
<1>2. ASSUME NEW p \in Procs
      PROVE  (pc[p] = "pclose" /\ loc[p].k = k /\ loc[p].w = w) <=> Closer(p, k, w)
  <2>1. loc[p].w \in BOOLEAN
    BY DEF Types, Local
  <2> QED
    BY <2>1 DEF Closer
<1> QED
  BY <1>1, <1>2 DEF Side, Stands

LEMMA InvLives == Inv => PipeLives
<1> SUFFICES ASSUME Inv PROVE PipeLives
  OBVIOUS
<1>1. Types /\ Refs /\ Opened
  BY DEF Inv
<1>2. RefsCounted
  BY <1>1 DEF Refs, Counted, Fds, First0, Second1, RefsCounted
<1>3. ASSUME NEW k \in Pages
      PROVE  /\ k \in kmem <=> ~Side(k, TRUE) /\ ~Side(k, FALSE)
             /\ k \notin kmem => /\ pipe[k].readopen <=> Side(k, FALSE)
                                 /\ pipe[k].writeopen <=> Side(k, TRUE)
  <2>1. (Side(k, TRUE) <=> Stands(k, TRUE)) /\ (Side(k, FALSE) <=> Stands(k, FALSE))
    BY <1>1, SideStands
  <2> QED
    BY <1>1, <2>1 DEF Opened
<1>4. ASSUME NEW k \in Pages, NEW p \in Procs, pc[p] \notin {"unused", "user", "exiting"}, loc[p].k = k
      PROVE  k \notin kmem
  <2>1. PlaceAt(p) /\ pc[p] \in Labels /\ loc[p].w \in BOOLEAN /\ k # 0
    BY Known, PipeSizes
  <2>2. pc[p] \in InCall \/ pc[p] = "pclose"
    <3>1. pc[p] \notin {"pipe2", "pipe3", "pipe4", "closing"}
      BY <1>4, <2>1 DEF PlaceAt
    <3>2. pc[p] \in InCall \/ pc[p] \in {"unused", "user", "exiting", "pipe2", "pipe3", "pipe4", "closing", "pclose"}
      BY <2>1 DEF Labels
    <3>3. pc[p] \notin {"unused", "user", "exiting"}
      BY <1>4
    <3> QED
      BY <3>1, <3>2, <3>3
  <2>3. CASE pc[p] \in InCall
    <3>1. pc[p] \in Writing \/ pc[p] \in Reading
      BY <2>3 DEF InCall, Writing, Reading
    <3> QED
      BY <1>4, <3>1, SideInUse
  <2>4. CASE pc[p] = "pclose"
    <3>1. PICK w \in BOOLEAN : w <=> loc[p].w
      BY <2>1
    <3>2. Stands(k, w)
      BY <1>4, <2>4, <3>1 DEF Stands, Closer
    <3> QED
      BY <1>1, <3>2 DEF Opened
  <2> QED
    BY <2>2, <2>3, <2>4
<1> QED
  BY <1>2, <1>3, <1>4 DEF PipeLives

LEMMA InvTypes == Inv => PipeTypeOK
  BY DEF Inv, Types, Window, LockedAt, File, Ring, Local, PipeTypeOK

LEMMA InvSleepers == Inv => NoSleeperForgotten
<1> SUFFICES ASSUME Inv, NEW p \in Procs
             PROVE  LET q == pipe[loc[p].k] IN
                    /\ pc[p] = "rsleep" /\ pilock[loc[p].k] = NoProc =>
                         (Empty(q) /\ q.writeopen) \/ loc[p].k \in silent
                    /\ pc[p] = "wsleep" /\ pilock[loc[p].k] = NoProc => Full(q) /\ q.readopen
  BY DEF NoSleeperForgotten
<1>1. AsleepAt(p) /\ NoProc \notin Procs
  BY Known, PipeSizes
<1> QED
  BY <1>1 DEF AsleepAt

-----------------------------------------------------------------------------
(* Theorems. *)

\* What holds between any two steps of pipe.c, file.c and the calls that use them.
THEOREM Inductive == PipeSpec => []Inv
  BY InvInit, InvNext, PTL DEF PipeSpec

\* struct pipe: nread and nwrite wrap around separately, and yet never more than
\* PIPESIZE bytes lie between them; who is inside pipewrite() or piperead() has pi->lock.
THEOREM WindowKept == PipeSpec => []PipeTypeOK
  BY Inductive, InvTypes, PTL

\* fileclose(), pipealloc() and pipeclose(): however many processes share files,
\* and wherever exit() or a kill comes in, f->ref counts its holders exactly, a
\* pipe has its page as long as one of its sides stands, no longer, and nobody
\* reads or writes in a page that was given back.
THEOREM PipesLive == PipeSpec => []PipeLives
  BY Inductive, InvLives, PTL

\* sleep() and wakeup() in pipewrite(), piperead() and pipeclose(): once pi->lock is
\* free, a reader sleeps only in an empty pipe that can still be written, or one
\* whose last writer was killed, and a writer in a full one that can still be read.
THEOREM SleepersAreWoken == PipeSpec => []NoSleeperForgotten
  BY Inductive, InvSleepers, PTL

-----------------------------------------------------------------------------
(* The ring and its two counters implement the stream of ByteStream.tla. *)

At(q, j) == q.data[(q.nread + j - 1) % PIPESIZE]
Ringed(q) == [j \in 1..Fill(q) |-> At(q, j)]
Qs == [k \in Pages |-> Queue(k)]

LEMMA QueueIs ==
  ASSUME NEW k
  PROVE  Queue(k) = IF k \in kmem THEN <<>> ELSE Ringed(pipe[k])
BY DEF Queue, Ringed, At

LEMMA RingedFacts ==
  ASSUME NEW q \in Ring, Fill(q) <= PIPESIZE
  PROVE  /\ Ringed(q) \in Seq(Bytes) /\ Len(Ringed(q)) = Fill(q) /\ Fill(q) \in Nat
         /\ \A j \in 1..Fill(q) : Ringed(q)[j] = At(q, j)
<1>1. Fill(q) \in Nat /\ q.nread \in Nat /\ q.data \in [0..(PIPESIZE - 1) -> Bytes] /\ PIPESIZE \in Nat \ {0}
  BY RingFacts, PipeSizes DEF Ring
<1>2. ASSUME NEW j \in 1..Fill(q) PROVE At(q, j) \in Bytes
  <2> DEFINE a == q.nread + j - 1
             i == a % PIPESIZE
  <2>1. a \in Int
    BY <1>1
  <2> HIDE DEF a
  <2>2. i \in 0..(PIPESIZE - 1)
    BY <1>1, <2>1, Divided
  <2>3. At(q, j) = q.data[i]
    BY DEF At, a
  <2> HIDE DEF i
  <2> QED
    BY <1>1, <2>2, <2>3
<1>3. Ringed(q) \in [1..Fill(q) -> Bytes] /\ \A j \in 1..Fill(q) : Ringed(q)[j] = At(q, j)
  BY <1>2 DEF Ringed
<1> QED
  BY <1>1, <1>3

LEMMA Appended ==
  ASSUME NEW S, NEW s \in Seq(S), NEW t \in Seq(S), NEW b \in S, Len(t) = Len(s) + 1,
         \A j \in 1..Len(s) : t[j] = s[j], t[Len(s) + 1] = b
  PROVE  t = Append(s, b)
<1>1. /\ Append(s, b) \in Seq(S) /\ Len(Append(s, b)) = Len(s) + 1
      /\ \A j \in 1..Len(s) : Append(s, b)[j] = s[j]
      /\ Append(s, b)[Len(s) + 1] = b
  BY AppendProperties
<1>2. Len(s) \in Nat
  BY LenProperties
<1>3. \A j \in 1..Len(t) : t[j] = Append(s, b)[j]
  BY <1>1, <1>2
<1> QED
  BY <1>1, <1>3, SeqEqual

LEMMA Tailed ==
  ASSUME NEW S, NEW s \in Seq(S), NEW t \in Seq(S), s # <<>>, Len(t) = Len(s) - 1,
         \A j \in 1..Len(t) : t[j] = s[j + 1]
  PROVE  t = Tail(s) /\ Head(s) = s[1]
<1>1. Tail(s) \in Seq(S) /\ Len(Tail(s)) = Len(s) - 1 /\ \A j \in 1..Len(Tail(s)) : Tail(s)[j] = s[j + 1]
  BY HeadTailProperties
<1>2. \A j \in 1..Len(t) : t[j] = Tail(s)[j]
  BY <1>1
<1>3. t = Tail(s)
  BY <1>1, <1>2, SeqEqual
<1> QED
  BY <1>3

LEMMA SameElements ==
  ASSUME NEW q \in Ring, NEW r \in Ring, r.nread = q.nread, r.nwrite = q.nwrite, r.data = q.data
  PROVE  Ringed(r) = Ringed(q)
BY DEF Ringed, At, Fill

\* The j-th byte in the ring, and the place for the next one, differ.
LEMMA Places ==
  ASSUME NEW q \in Ring, Fill(q) < PIPESIZE
  PROVE  /\ (q.nread + Fill(q)) % PIPESIZE = q.nwrite % PIPESIZE
         /\ \A j \in 1..Fill(q) : (q.nread + j - 1) % PIPESIZE # q.nwrite % PIPESIZE
<1>1. q.nread \in 0..(Wrap - 1) /\ q.nwrite \in 0..(Wrap - 1) /\ Wrap \in Nat /\ PIPESIZE \in Nat \ {0}
  BY PipeSizes DEF Ring
<1> DEFINE a == q.nread
           b == q.nwrite
           n == Fill(q)
<1>2. n \in Nat /\ (a + n = b \/ a + n = b + Wrap)
  BY <1>1, RingFacts
<1>3. a \in Int /\ b \in Int /\ n < PIPESIZE
  BY <1>1
<1> HIDE DEF a, b, n
<1>4. (a + n) % PIPESIZE = b % PIPESIZE
  <2>1. (b + Wrap) % PIPESIZE = b % PIPESIZE
    BY <1>3, SamePlace
  <2> QED
    BY <1>2, <2>1
<1>5. ASSUME NEW j \in 1..n PROVE (a + j - 1) % PIPESIZE # b % PIPESIZE
  <2> DEFINE c == a + j - 1
             d == a + n
  <2>1. c \in Int /\ d \in Int /\ c < d /\ d < c + PIPESIZE
    BY <1>1, <1>2, <1>3
  <2>2. d % PIPESIZE = b % PIPESIZE
    BY <1>4
  <2> HIDE DEF d
  <2>3. c % PIPESIZE # d % PIPESIZE
    <3> HIDE DEF c
    <3> QED
      BY <1>1, <2>1, PlacesDiffer
  <2> QED
    BY <2>2, <2>3
<1> QED
  BY <1>4, <1>5 DEF a, b, n

LEMMA StoredQueue ==
  ASSUME NEW q \in Ring, NEW b \in Bytes, ~Full(q), Fill(q) <= PIPESIZE
  PROVE  /\ Ringed(Stored(q, b)) = Append(Ringed(q), b)
         /\ Len(Ringed(q)) < PIPESIZE
<1>1. PICK r : r = Stored(q, b)
  OBVIOUS
<1>2. /\ r \in Ring /\ r.nread = q.nread /\ Fill(r) = Fill(q) + 1 /\ Fill(r) <= PIPESIZE
      /\ r.data = [q.data EXCEPT ![q.nwrite % PIPESIZE] = b]
  BY <1>1, StoredFacts
<1>3. /\ Ringed(q) \in Seq(Bytes) /\ Len(Ringed(q)) = Fill(q) /\ Fill(q) \in Nat
      /\ \A j \in 1..Fill(q) : Ringed(q)[j] = At(q, j)
  BY RingedFacts
<1>4. /\ Ringed(r) \in Seq(Bytes) /\ Len(Ringed(r)) = Fill(q) + 1
      /\ \A j \in 1..(Fill(q) + 1) : Ringed(r)[j] = At(r, j)
  BY <1>2, RingedFacts
<1>5. Fill(q) < PIPESIZE
  BY <1>2, <1>3, PipeSizes
<1>6. PICK e : e = q.nwrite % PIPESIZE
  OBVIOUS
<1>7. e \in 0..(PIPESIZE - 1) /\ q.data \in [0..(PIPESIZE - 1) -> Bytes] /\ q.nread \in Nat
  <2>1. q.nwrite \in Int /\ q.data \in [0..(PIPESIZE - 1) -> Bytes] /\ q.nread \in Nat
    BY PipeSizes DEF Ring
  <2> QED
    BY <1>6, <2>1, Divided, PipeSizes
<1>8. r.data[e] = b /\ \A i \in (0..(PIPESIZE - 1)) \ {e} : r.data[i] = q.data[i]
  BY <1>2, <1>6, <1>7
<1>9. ASSUME NEW j \in 1..Fill(q) PROVE Ringed(r)[j] = Ringed(q)[j]
  <2>1. PICK i : i = (q.nread + j - 1) % PIPESIZE
    OBVIOUS
  <2>2. i # e
    BY <1>5, <1>6, <2>1, Places
  <2>3. i \in 0..(PIPESIZE - 1)
    <3> DEFINE a == q.nread + j - 1
    <3>1. a \in Int /\ i = a % PIPESIZE
      BY <1>3, <1>7, <2>1
    <3> HIDE DEF a
    <3> QED
      BY <3>1, Divided, PipeSizes
  <2>4. At(r, j) = r.data[i] /\ At(q, j) = q.data[i]
    BY <1>2, <2>1 DEF At
  <2>5. j \in 1..(Fill(q) + 1)
    BY <1>3
  <2> QED
    BY <1>3, <1>4, <1>8, <2>2, <2>3, <2>4, <2>5
<1>10. Ringed(r)[Fill(q) + 1] = b
  <2>1. (q.nread + (Fill(q) + 1) - 1) % PIPESIZE = e
    <3>1. q.nread + (Fill(q) + 1) - 1 = q.nread + Fill(q)
      BY <1>3, <1>7
    <3> QED
      BY <1>5, <1>6, <3>1, Places
  <2>2. At(r, Fill(q) + 1) = r.data[e]
    BY <1>2, <2>1 DEF At
  <2>3. Fill(q) + 1 \in 1..(Fill(q) + 1)
    BY <1>3
  <2> QED
    BY <1>4, <1>8, <2>2, <2>3
<1>11. Ringed(r) = Append(Ringed(q), b)
  BY <1>3, <1>4, <1>9, <1>10, Appended
<1> QED
  BY <1>1, <1>3, <1>5, <1>11

LEMMA TakenQueue ==
  ASSUME NEW q \in Ring, ~Empty(q), Fill(q) <= PIPESIZE
  PROVE  /\ Ringed(Taken(q)) = Tail(Ringed(q)) /\ Ringed(q) # <<>>
         /\ Head(Ringed(q)) = q.data[q.nread % PIPESIZE]
<1>1. PICK r : r = Taken(q)
  OBVIOUS
<1>2. /\ r \in Ring /\ r.nread = (q.nread + 1) % Wrap /\ Fill(r) = Fill(q) - 1 /\ Fill(r) <= PIPESIZE
      /\ r.data = q.data
  BY <1>1, TakenFacts
<1>3. /\ Ringed(q) \in Seq(Bytes) /\ Len(Ringed(q)) = Fill(q) /\ Fill(q) \in Nat
      /\ \A j \in 1..Fill(q) : Ringed(q)[j] = At(q, j)
  BY RingedFacts
<1>4. /\ Ringed(r) \in Seq(Bytes) /\ Len(Ringed(r)) = Fill(q) - 1
      /\ \A j \in 1..(Fill(q) - 1) : Ringed(r)[j] = At(r, j)
  BY <1>2, RingedFacts
<1>5. Fill(q) >= 1
  BY <1>3, RingFacts
<1>6. Ringed(q) # <<>>
  BY <1>3, <1>5, EmptySeq
<1>7. q.nread \in 0..(Wrap - 1)
  BY DEF Ring
<1>8. ASSUME NEW j \in 1..(Fill(q) - 1) PROVE Ringed(r)[j] = Ringed(q)[j + 1]
  <2> DEFINE a == r.nread + j - 1
             c == q.nread + (j + 1) - 1
  <2>1. a \in Int /\ c \in Int /\ (a = c \/ c = a + Wrap)
    <3>1. r.nread = IF q.nread + 1 = Wrap THEN 0 ELSE q.nread + 1
      BY <1>2, <1>7, Advance
    <3>2. j \in Int /\ Wrap \in Int /\ q.nread \in Int
      BY <1>3, <1>7, PipeSizes
    <3> QED
      BY <3>1, <3>2
  <2>2. At(r, j) = r.data[a % PIPESIZE] /\ At(q, j + 1) = q.data[c % PIPESIZE]
    BY DEF At
  <2> HIDE DEF a, c
  <2>3. a % PIPESIZE = c % PIPESIZE
    BY <2>1, SamePlace
  <2>4. j + 1 \in 1..Fill(q)
    BY <1>3
  <2> QED
    BY <1>2, <1>3, <1>4, <2>2, <2>3, <2>4
<1>9. Ringed(r) = Tail(Ringed(q)) /\ Head(Ringed(q)) = Ringed(q)[1]
  BY <1>3, <1>4, <1>6, <1>8, Tailed
<1>10. Ringed(q)[1] = q.data[q.nread % PIPESIZE]
  <2>1. q.nread + 1 - 1 = q.nread /\ 1 \in 1..Fill(q)
    BY <1>3, <1>5, <1>7
  <2> QED
    BY <1>3, <2>1 DEF At
<1> QED
  BY <1>1, <1>6, <1>9, <1>10

LEMMA QueueKept ==
  ASSUME Types, NEW k \in Pages, pipe'[k] = pipe[k], k \in kmem' <=> k \in kmem
  PROVE  Queue(k)' = Queue(k)
BY DEF Queue

LEMMA QueuesKept ==
  ASSUME \A k \in Pages : Queue(k)' = Queue(k)
  PROVE  Qs' = Qs
BY DEF Qs

LEMMA OneQueue ==
  ASSUME NEW k \in Pages, NEW s, Queue(k)' = s, \A j \in Pages \ {k} : Queue(j)' = Queue(j)
  PROVE  Qs[k] = Queue(k) /\ Qs' = [Qs EXCEPT ![k] = s]
BY DEF Qs

LEMMA PutSeen ==
  ASSUME NEW k \in Pages, NEW b \in Bytes, Len(Queue(k)) < PIPESIZE, Queue(k)' = Append(Queue(k), b),
         \A j \in Pages \ {k} : Queue(j)' = Queue(j), got' = got
  PROVE  Stream!Put(k, b)
<1> DEFINE s == Append(Queue(k), b)
<1>1. Queue(k)' = s
  OBVIOUS
<1>2. Qs[k] = Queue(k) /\ Qs' = [Qs EXCEPT ![k] = s]
  BY <1>1, OneQueue
<1>3. Len(Qs[k]) < PIPESIZE /\ Qs' = [Qs EXCEPT ![k] = Append(Qs[k], b)]
  BY <1>2
<1> QED
  BY <1>3 DEF Stream!Put, Qs

LEMMA TakeSeen ==
  ASSUME NEW k \in Pages, Queue(k) # <<>>, Queue(k)' = Tail(Queue(k)), got' = Head(Queue(k)),
         \A j \in Pages \ {k} : Queue(j)' = Queue(j)
  PROVE  Stream!Take(k)
<1>1. Qs[k] = Queue(k) /\ Qs' = [Qs EXCEPT ![k] = Tail(Queue(k))]
  BY OneQueue
<1>2. Qs[k] # <<>> /\ got' = Head(Qs[k]) /\ Qs' = [Qs EXCEPT ![k] = Tail(Qs[k])]
  BY <1>1
<1> QED
  BY <1>2 DEF Stream!Take, Qs

LEMMA DropSeen ==
  ASSUME NEW k \in Pages, Queue(k)' = <<>>, \A j \in Pages \ {k} : Queue(j)' = Queue(j), got' = got
  PROVE  Stream!Drop(k) \/ (Qs' = Qs /\ got' = got)
<1>1. CASE Queue(k) = <<>>
  <2>1. \A j \in Pages : Queue(j)' = Queue(j)
    BY <1>1
  <2> QED
    BY <2>1, QueuesKept
<1>2. CASE Queue(k) # <<>>
  <2>1. Qs[k] = Queue(k) /\ Qs' = [Qs EXCEPT ![k] = <<>>]
    BY OneQueue
  <2> QED
    BY <1>2, <2>1 DEF Stream!Drop, Qs
<1> QED
  BY <1>1, <1>2

LEMMA OthersKept ==
  ASSUME Types, NEW k, NEW x, pipe' = [pipe EXCEPT ![k] = x], \A j \in Pages \ {k} : j \in kmem' <=> j \in kmem
  PROVE  \A j \in Pages \ {k} : Queue(j)' = Queue(j)
<1> SUFFICES ASSUME NEW j \in Pages \ {k} PROVE Queue(j)' = Queue(j)
  OBVIOUS
<1>1. pipe'[j] = pipe[j]
  BY DEF Types
<1> QED
  BY <1>1, QueueKept

LEMMA PipeallocSeen ==
  ASSUME Inv, NEW p \in Procs, Pipealloc(p)
  PROVE  Qs' = Qs /\ got' = got
<1>1. Types /\ got' = got
  BY Known DEF Pipealloc
<1>2. CASE UNCHANGED <<pipe, kmem>>
  BY <1>1, <1>2, QueueKept, QueuesKept
<1>3. CASE \E k \in kmem : kmem' = kmem \ {k} /\ pipe' = [pipe EXCEPT ![k] = NewPipe]
  <2>1. PICK k \in kmem : kmem' = kmem \ {k} /\ pipe' = [pipe EXCEPT ![k] = NewPipe]
    BY <1>3
  <2>2. k \in Pages
    BY <1>1 DEF Types
  <2>3. \A j \in Pages \ {k} : Queue(j)' = Queue(j)
    BY <1>1, <2>1, OthersKept
  <2>4. Queue(k) = <<>>
    BY <2>1, QueueIs
  <2>5. Queue(k)' = <<>>
    <3>1. pipe'[k] = NewPipe /\ k \notin kmem'
      BY <1>1, <2>1, <2>2 DEF Types
    <3>2. Queue(k)' = Ringed(NewPipe)
      BY <3>1 DEF Queue, Ringed, At
    <3>3. Ringed(NewPipe) \in Seq(Bytes) /\ Len(Ringed(NewPipe)) = 0
      BY JunkFacts, RingedFacts, PipeSizes
    <3> QED
      BY <3>2, <3>3, EmptySeq
  <2> QED
    BY <1>1, <2>3, <2>4, <2>5, QueuesKept
<1> QED
  BY <1>2, <1>3 DEF Pipealloc

LEMMA PipecloseSeen ==
  ASSUME Inv, NEW p \in Procs, Pipeclose(p)
  PROVE  (Qs' = Qs /\ got' = got) \/ \E k \in Pages : Stream!Drop(k)
<1>0. PICK k, w : k = loc[p].k /\ w = loc[p].w
  OBVIOUS
<1> DEFINE z == IF w THEN [pipe[k] EXCEPT !.writeopen = FALSE] ELSE [pipe[k] EXCEPT !.readopen = FALSE]
<1>1. /\ pc[p] = "pclose" /\ got' = got
      /\ pipe' = [pipe EXCEPT ![k] = IF LastSide(pipe[k], w) THEN Junk ELSE z]
      /\ kmem' = IF LastSide(pipe[k], w) THEN kmem \cup {k} ELSE kmem
  BY <1>0 DEF Pipeclose
<1>2. Types /\ k \in Pages /\ pipe[k] \in Ring /\ PlaceAt(p)
  <2>1. Types /\ k \in Pages /\ PlaceAt(p)
    BY <1>0, <1>1, Known DEF PlaceAt
  <2> QED
    BY <2>1 DEF Types
<1>3. \A j \in Pages \ {k} : Queue(j)' = Queue(j)
  BY <1>1, <1>2, OthersKept
<1>4. CASE LastSide(pipe[k], w)
  <2>1. Queue(k)' = <<>>
    BY <1>1, <1>4 DEF Queue
  <2> QED
    BY <1>1, <1>2, <1>3, <2>1, DropSeen
<1>5. CASE ~LastSide(pipe[k], w)
  <2>1. kmem' = kmem /\ pipe'[k] = z
    BY <1>1, <1>2, <1>5 DEF Types
  <2>2. z \in Ring /\ z.nread = pipe[k].nread /\ z.nwrite = pipe[k].nwrite /\ z.data = pipe[k].data
    BY <1>2 DEF Ring
  <2> HIDE DEF z
  <2>3. Ringed(z) = Ringed(pipe[k])
    BY <1>2, <2>2, SameElements
  <2>4. Queue(k)' = IF k \in kmem' THEN <<>> ELSE Ringed(z)
    BY <2>1 DEF Queue, Ringed, At
  <2>5. Queue(k)' = Queue(k)
    BY <2>1, <2>3, <2>4, QueueIs
  <2> QED
    BY <1>1, <1>3, <2>5, QueuesKept
<1> QED
  BY <1>4, <1>5

LEMMA PipewriteSeen ==
  ASSUME Inv, NEW p \in Procs, Pipewrite(p)
  PROVE  (Qs' = Qs /\ got' = got) \/ \E k \in Pages, b \in Bytes : Stream!Put(k, b)
<1>0. PICK k : k = loc[p].k
  OBVIOUS
<1>1. pc[p] = "wtest" /\ pc[p] \in InWrite /\ got' = got /\ kmem' = kmem
  BY DEF Pipewrite, InWrite
<1>2. Types /\ k \in Pages /\ k \notin kmem /\ pipe[k] \in Ring /\ Fill(pipe[k]) <= PIPESIZE
  BY <1>0, <1>1, Holder, SideInUse, LabelFacts
<1>3. CASE UNCHANGED pipe
  BY <1>1, <1>2, <1>3, QueueKept, QueuesKept
<1>4. CASE ~Full(pipe[k]) /\ \E b \in Bytes : pipe' = [pipe EXCEPT ![k] = Stored(pipe[k], b)]
  <2>1. PICK b \in Bytes : pipe' = [pipe EXCEPT ![k] = Stored(pipe[k], b)]
    BY <1>4
  <2>2. PICK y, x : y = pipe[k] /\ x = Stored(y, b)
    OBVIOUS
  <2>3. y \in Ring /\ ~Full(y) /\ Fill(y) <= PIPESIZE /\ pipe' = [pipe EXCEPT ![k] = x]
    BY <1>2, <1>4, <2>1, <2>2
  <2>4. Ringed(x) = Append(Ringed(y), b) /\ Len(Ringed(y)) < PIPESIZE
    BY <2>2, <2>3, StoredQueue
  <2>5. \A j \in Pages \ {k} : Queue(j)' = Queue(j)
    BY <1>1, <1>2, <2>3, OthersKept
  <2>6. pipe'[k] = x
    BY <1>2, <2>3 DEF Types
  <2>7. Queue(k) = Ringed(y)
    BY <1>2, <2>2, QueueIs
  <2>8. Queue(k)' = Ringed(x)
    BY <1>1, <1>2, <2>6 DEF Queue, Ringed, At
  <2>9. Stream!Put(k, b)
    BY <1>1, <1>2, <2>4, <2>5, <2>7, <2>8, PutSeen
  <2> QED
    BY <1>2, <2>9
<1> QED
  BY <1>0, <1>3, <1>4 DEF Pipewrite

LEMMA PipereadCopySeen ==
  ASSUME Inv, NEW p \in Procs, PipereadCopy(p)
  PROVE  (Qs' = Qs /\ got' = got) \/ \E k \in Pages : Stream!Take(k)
<1>0. PICK k : k = loc[p].k
  OBVIOUS
<1>1. pc[p] = "rcopy" /\ pc[p] \in InRead /\ kmem' = kmem
  BY DEF PipereadCopy, InRead
<1>2. Types /\ k \in Pages /\ k \notin kmem /\ pipe[k] \in Ring /\ Fill(pipe[k]) <= PIPESIZE
  BY <1>0, <1>1, Holder, SideInUse, LabelFacts
<1>3. CASE UNCHANGED <<pipe, got>>
  BY <1>1, <1>2, <1>3, QueueKept, QueuesKept
<1>4. CASE /\ ~Empty(pipe[k]) /\ got' = pipe[k].data[pipe[k].nread % PIPESIZE]
           /\ pipe' = [pipe EXCEPT ![k] = Taken(pipe[k])]
  <2>1. PICK y, x : y = pipe[k] /\ x = Taken(y)
    OBVIOUS
  <2>2. /\ y \in Ring /\ ~Empty(y) /\ Fill(y) <= PIPESIZE /\ pipe' = [pipe EXCEPT ![k] = x]
        /\ got' = y.data[y.nread % PIPESIZE]
    BY <1>2, <1>4, <2>1
  <2>3. Ringed(x) = Tail(Ringed(y)) /\ Ringed(y) # <<>> /\ Head(Ringed(y)) = got'
    BY <2>1, <2>2, TakenQueue
  <2>4. \A j \in Pages \ {k} : Queue(j)' = Queue(j)
    BY <1>1, <1>2, <2>2, OthersKept
  <2>5. pipe'[k] = x
    BY <1>2, <2>2 DEF Types
  <2>6. Queue(k) = Ringed(y)
    BY <1>2, <2>1, QueueIs
  <2>7. Queue(k)' = Ringed(x)
    BY <1>1, <1>2, <2>5 DEF Queue, Ringed, At
  <2>8. Stream!Take(k)
    BY <1>2, <2>3, <2>4, <2>6, <2>7, TakeSeen
  <2> QED
    BY <1>2, <2>8
<1> QED
  BY <1>0, <1>3, <1>4 DEF PipereadCopy


LEMMA StreamInitSeen == PipeInit => Stream!StreamInit
<1> SUFFICES ASSUME PipeInit PROVE Stream!StreamInit
  OBVIOUS
<1>1. got \in Bytes
  BY InvInit DEF Inv, Types
<1>2. \A k \in Pages : Queue(k) = <<>>
  BY DEF PipeInit, Queue
<1> QED
  BY <1>1, <1>2 DEF Stream!StreamInit

LEMMA StreamStep ==
  ASSUME Inv, [PipeNext]_pvars
  PROVE  (Qs' = Qs /\ got' = got) \/ Stream!StreamNext
<1>1. ASSUME UNCHANGED <<pipe, kmem, got>> PROVE Qs' = Qs /\ got' = got
  BY <1>1, QueueKept, QueuesKept DEF Inv
<1>2. CASE UNCHANGED pvars
  BY <1>1, <1>2 DEF pvars
<1>3. ASSUME NEW p \in Procs, PipeStep(p) PROVE (Qs' = Qs /\ got' = got) \/ Stream!StreamNext
  <2>1. CASE Filealloc(p) \/ SysPipe(p) \/ SysDup(p) \/ SysClose(p) \/ Fork(p) \/ Exit(p) \/ Kill(p)
    BY <1>1, <2>1 DEF Filealloc, SysPipe, SysDup, SysClose, Fork, Exit, Kill
  <2>2. CASE \/ loc[p].f0 # 0 /\ Fileclose(p, loc[p].f0, [loc[p] EXCEPT !.f0 = 0])
             \/ loc[p].f0 = 0 /\ Fileclose(p, loc[p].f1, [loc[p] EXCEPT !.f1 = 0])
    BY <1>1, <2>2 DEF Fileclose
  <2>3. CASE Begin(p, TRUE, "wtest") \/ Begin(p, FALSE, "rtest")
    BY <1>1, <2>3 DEF Begin
  <2>4. CASE Wake(p, "wlock", "wtest") \/ Wake(p, "rlock", "rtest")
    BY <1>1, <2>4 DEF Wake
  <2>5. CASE WriteSleep(p) \/ Piperead(p) \/ ReadSleep(p)
    BY <1>1, <2>5 DEF WriteSleep, Piperead, ReadSleep, Sleep
  <2>6. CASE Pipealloc(p)
    BY <2>6, PipeallocSeen
  <2>7. CASE Pipeclose(p)
    BY <2>7, PipecloseSeen DEF Stream!StreamNext
  <2>8. CASE Pipewrite(p)
    BY <2>8, PipewriteSeen DEF Stream!StreamNext
  <2>9. CASE PipereadCopy(p)
    BY <2>9, PipereadCopySeen DEF Stream!StreamNext
  <2> QED
    BY <1>3, <2>1, <2>2, <2>3, <2>4, <2>5, <2>6, <2>7, <2>8, <2>9 DEF PipeStep
<1> QED
  BY <1>2, <1>3 DEF PipeNext

\* pipewrite() and piperead() with nread and nwrite that wrap around: for any number
\* of pipes, readers and writers and any size of ring, each byte that is put in leaves
\* the ring once, in order, at one reader, unless both sides are closed first.
THEOREM PipesAreStreams == PipeSpec => StreamSpec
<1>1. Inv /\ [PipeNext]_pvars => [Stream!StreamNext]_(Stream!svars)
  BY StreamStep DEF Qs, Stream!svars
<1> QED
  BY <1>1, Inductive, StreamInitSeen, PTL DEF PipeSpec, StreamSpec, Stream!StreamSpec
=============================================================================
