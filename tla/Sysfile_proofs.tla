--------------------------- MODULE Sysfile_proofs ---------------------------
(***************************************************************************)
(* Proofs about the file system calls, Sysfile.tla over Fs.tla.            *)
(***************************************************************************)
EXTENDS Sysfile, FiniteSetTheorems, WellFoundedInduction, TLAPS

-----------------------------------------------------------------------------
(* The fields of everything.  Nothing is said here of the sign of a count   *)
(* of links or of references.                                               *)

Node == [type : Types, nlink : Int, size : 0..MAXFILE, addrs : [0..NDIRECT -> {0} \cup Blocks]]
Todo == Steps \cup Walks
AllCalls == {NoCall} \cup UNION {Calls[p] : p \in Procs}

OnDiskTypes ==
  /\ dino \in [Inums -> Node] /\ bitmap \subseteq Blocks
  /\ ind \in [Blocks -> [0..(NINDIRECT - 1) -> {0} \cup Blocks]]
  /\ dents \in [Inums -> [DirNames -> {0} \cup Inums]]
  /\ lost \subseteq Inums

InMemoryTypes ==
  /\ itable \in [Inums -> [ref : Int, valid : BOOLEAN, d : Node]]
  /\ ilk \in [Inums -> Procs \cup {NoProc}]

ProcTypes ==
  /\ cwd \in [Procs -> Inums]
  /\ file \in [Procs -> [ip : {0} \cup Inums, off : 0..MAXFILE, writable : BOOLEAN]]
  /\ todo \in [Procs -> Seq(Todo)] /\ call \in [Procs -> AllCalls]

-----------------------------------------------------------------------------
(* What is left of a call: an iput() under way, or the freeing of an inode, *)
(* and after that one step more.                                            *)

Lead(op) == CASE op = "itrunc" -> 4 [] op = "ifree" -> 3 [] op = "irelease" -> 2
              [] op \in {"iput", "idrop"} -> 1 [] OTHER -> 0
Skip(q) == IF q = <<>> THEN 0 ELSE Lead(q[1].op)
Busy(q) == Len(q) > Skip(q)
Main(q) == q[Len(q)]

\* The references of a step: to i, and with these to j too.
TwoRefs(s) == s.op \in {"make", "unlink2", "link2"} \/ (s.op = "namex" /\ s.then = "link2")
Ends == {"namex", "linkbad", "exists", "iunlockput", "opened", "unlink3", "iput"}
Starts == {"create", "make", "open", "unlink", "unlink2", "link", "link2", "chdir"} \cup Ends
Proper(s) == /\ s.op \in Starts /\ (s.j # 0 <=> TwoRefs(s))
             /\ s.op = "namex" => s.then \in Thens

\* An inode that is freed goes through all of these.
Freeing(q) ==
  /\ q[1].op = "itrunc" => q[2].op = "ifree" /\ q[2].i = q[1].i
  /\ q[1].op = "itrunc" => q[3].op = "irelease" /\ q[3].i = q[1].i
  /\ q[1].op = "itrunc" => q[4].op = "idrop" /\ q[4].i = q[1].i
  /\ q[1].op = "ifree" => q[2].op = "irelease" /\ q[2].i = q[1].i
  /\ q[1].op = "ifree" => q[3].op = "idrop" /\ q[3].i = q[1].i
  /\ q[1].op = "irelease" => q[2].op = "idrop" /\ q[2].i = q[1].i

Making(q) == Len(q) = 2 /\ q[1].op = "iget" /\ q[2].op = "make" /\ q[2].i = q[1].i

Formed(q) ==
  /\ Len(q) >= Skip(q) /\ (Len(q) <= Skip(q) + 1 \/ Making(q))
  /\ q # <<>> => Freeing(q)
  /\ Busy(q) => /\ Proper(Main(q))
                /\ Skip(q) > 0 => Main(q).op \in Ends
                /\ q[1].op = "iget" => Making(q)

\* How many references to i these steps have, and which inodes they have locked.
Bit(b) == IF b THEN 1 ELSE 0
PutRef(q, i) == Bit(Skip(q) > 0 /\ q[1].i = i)
MainRef(q, i) ==
  IF Busy(q) THEN Bit(Main(q).i = i /\ q[1].op # "iget") + Bit(Main(q).j = i) ELSE 0
Refs(q, i) == PutRef(q, i) + MainRef(q, i)

PutLock(q) == IF q # <<>> /\ q[1].op \in {"itrunc", "ifree", "irelease"} THEN {q[1].i} ELSE {}
StepLock(s) ==
  IF s.op \in {"opened", "unlink3", "iunlockput"} THEN {s.i}
  ELSE IF s.op \in {"make", "unlink2"} THEN {s.j} ELSE {}
MainLock(q) == IF Busy(q) THEN StepLock(Main(q)) ELSE {}

\* ip->ref counts current directories, open files and what calls refer to.
Held(p, i) == Bit(cwd[p] = i) + Bit(file[p].ip = i) + Refs(todo[p], i)
Units(i) == {u \in Procs \X (1..5) : u[2] <= Held(u[1], i)}
Counted == \A i \in Inums : itable[i].ref = Cardinality(Units(i))

\* A sleep lock is with the call whose steps say so, and not twice.
Locking == \A p \in Procs :
  /\ PutLock(todo[p]) \cap MainLock(todo[p]) = {}
  /\ \A i \in Inums : ilk[i] = p <=> i \in PutLock(todo[p]) \cup MainLock(todo[p])

\* A path that link() has to look up is one of the call that was made.
Linking(s) == s.op = "link" \/ (s.op = "namex" /\ s.then = "link")
LinkCall(p) == call[p] \in Calls[p] /\ call[p].op = "link"
Recalled == \A p \in Procs : todo[p] # <<>> /\ Linking(Main(todo[p])) => LinkCall(p)

Shapes == \A p \in Procs : Formed(todo[p])

Types0 == OnDiskTypes /\ InMemoryTypes /\ ProcTypes
RefInv == Types0 /\ Shapes /\ Recalled /\ Counted /\ Locking

-----------------------------------------------------------------------------
(* Sequences of steps. *)

LEMMA Pop ==
  ASSUME NEW S, NEW q \in Seq(S), q # <<>>
  PROVE  /\ <<>> \o Tail(q) \in Seq(S) /\ Len(<<>> \o Tail(q)) = Len(q) - 1
         /\ \A k \in 1..(Len(q) - 1) : (<<>> \o Tail(q))[k] = q[k + 1]
OBVIOUS

LEMMA PutFour ==
  ASSUME NEW S, NEW q \in Seq(S), q # <<>>, NEW a \in S, NEW b \in S, NEW c \in S, NEW d \in S
  PROVE  LET r == <<a, b, c, d>> \o Tail(q)
         IN  /\ r \in Seq(S) /\ Len(r) = Len(q) + 3
             /\ r[1] = a /\ r[2] = b /\ r[3] = c /\ r[4] = d
             /\ \A k \in 2..Len(q) : r[k + 3] = q[k]
OBVIOUS

LEMMA ShortIs ==
  ASSUME NEW S, NEW q \in Seq(S)
  PROVE  /\ Len(q) = 0 <=> q = <<>>
         /\ q # <<>> /\ Len(q) <= 1 => Len(q) = 1
<1>1. ASSUME Len(q) = 0 PROVE q = <<>>
  BY <1>1
<1>2. Len(q) \in Nat /\ Len(<<>>) = 0
  OBVIOUS
<1>3. Len(q) <= 1 => Len(q) = 0 \/ Len(q) = 1
  BY <1>2
<1> QED
  BY <1>1, <1>2, <1>3

LEMMA HeadIs ==
  ASSUME NEW S, NEW q \in Seq(S), q # <<>>
  PROVE  /\ Head(q) = q[1] /\ Len(q) \in Nat /\ Len(q) >= 1 /\ q[1] \in S
         /\ \A k \in 1..Len(q) : q[k] \in S
         /\ Len(q) = 1 => Tail(q) = <<>> /\ q = <<q[1]>>
<1>1. /\ Head(q) = q[1] /\ Len(q) \in Nat /\ Len(q) >= 1 /\ q[1] \in S
      /\ Tail(q) \in Seq(S) /\ Len(Tail(q)) = Len(q) - 1 /\ <<>> \in Seq(S) /\ Len(<<>>) = 0
  OBVIOUS
<1>2. \A k \in 1..Len(q) : q[k] \in S
  OBVIOUS
<1> DEFINE r == Tail(q)
<1>0. r \in Seq(S) /\ Len(r) = Len(q) - 1
  BY <1>1
<1> HIDE DEF r
<1>3. ASSUME Len(q) = 1 PROVE Tail(q) = <<>>
  <2>1. Len(r) = 0
    BY <1>0, <1>3
  <2> QED
    BY <1>0, <2>1, ShortIs DEF r
<1>4. ASSUME Len(q) = 1 PROVE q = <<q[1]>>
  <2>1. q \in [1..1 -> S]
    BY <1>4
  <2>2. <<q[1]>> \in [1..1 -> S] /\ <<q[1]>>[1] = q[1]
    BY <2>1
  <2> QED
    BY <2>1, <2>2
<1> QED
  BY <1>1, <1>2, <1>3, <1>4

LEMMA OneIs ==
  ASSUME NEW S, NEW a \in S
  PROVE  /\ <<a>> \in Seq(S) /\ Len(<<a>>) = 1 /\ <<a>>[1] = a /\ <<a>> # <<>>
         /\ <<a>> \o <<>> = <<a>>
OBVIOUS

LEMMA TwoAre ==
  ASSUME NEW S, NEW a \in S, NEW b \in S
  PROVE  /\ <<a, b>> \in Seq(S) /\ Len(<<a, b>>) = 2 /\ <<a, b>>[1] = a /\ <<a, b>>[2] = b
         /\ <<a, b>> # <<>> /\ <<a>> \o <<b>> = <<a, b>> /\ <<a, b>> \o <<>> = <<a, b>>
<1>1. /\ <<a, b>> \in Seq(S) /\ Len(<<a, b>>) = 2 /\ <<a, b>>[1] = a /\ <<a, b>>[2] = b
  OBVIOUS
<1>2. <<a, b>> # <<>>
  OBVIOUS
<1>3. /\ <<a>> \o <<b>> \in Seq(S) /\ Len(<<a>> \o <<b>>) = 2
      /\ (<<a>> \o <<b>>)[1] = a /\ (<<a>> \o <<b>>)[2] = b
  OBVIOUS
<1> DEFINE q == <<a, b>>
           r == <<a>> \o <<b>>
<1> HIDE DEF q, r
<1>4. q = r
  <2>1. q \in Seq(S) /\ r \in Seq(S) /\ Len(q) = 2 /\ Len(r) = 2 /\ q[1] = r[1] /\ q[2] = r[2]
    BY <1>1, <1>3 DEF q, r
  <2>2. \A k \in 1..2 : q[k] = r[k]
    BY <2>1
  <2> QED
    BY <2>1, <2>2
<1>5. <<a, b>> \o <<>> = <<a, b>>
  OBVIOUS
<1> QED
  BY <1>1, <1>2, <1>4, <1>5 DEF q, r

LEMMA EmptyIs ==
  ASSUME NEW S
  PROVE  <<>> \in Seq(S) /\ Len(<<>>) = 0 /\ <<>> \o <<>> = <<>>
OBVIOUS

LEMMA LeadIs ==
  /\ Lead("itrunc") = 4 /\ Lead("ifree") = 3 /\ Lead("irelease") = 2
  /\ Lead("iput") = 1 /\ Lead("idrop") = 1 /\ Lead("iget") = 0
  /\ \A op \in Starts : op # "iput" => Lead(op) = 0
  /\ \A op : Lead(op) \in 0..4
  /\ \A op : Lead(op) > 0 <=> op \in {"itrunc", "ifree", "irelease", "iput", "idrop"}
BY DEF Lead, Starts, Ends

\* Nothing left.
LEMMA Done ==
  /\ Formed(<<>>) /\ PutLock(<<>>) = {} /\ MainLock(<<>>) = {} /\ <<>> \in Seq(Todo)
  /\ \A i : Refs(<<>>, i) = 0
BY EmptyIs DEF Formed, PutLock, MainLock, Busy, Skip, Refs, PutRef, MainRef, Bit

\* One step left.
LEMMA OneLeft ==
  ASSUME NEW a \in Todo, Proper(a)
  PROVE  LET q == <<a>> IN
         /\ q \in Seq(Todo) /\ q # <<>> /\ Formed(q) /\ PutLock(q) = {} /\ MainLock(q) = StepLock(a)
         /\ \A i \in Inums : Refs(q, i) = Bit(a.i = i) + Bit(a.j = i)
         /\ Main(q) = a
<1> DEFINE q == <<a>>
<1>1. q \in Seq(Todo) /\ Len(q) = 1 /\ q[1] = a /\ q # <<>>
  BY OneIs
<1> HIDE DEF q
<1>2. a.op \in Starts /\ (a.op # "iput" => Skip(q) = 0) /\ (a.op = "iput" => Skip(q) = 1 /\ a.j = 0)
  BY <1>1, LeadIs DEF Proper, TwoRefs, Skip
<1>3. a.op \notin {"iget", "itrunc", "ifree", "irelease"}
  BY <1>2 DEF Starts, Ends
<1>4. Formed(q)
  BY <1>1, <1>2, <1>3 DEF Formed, Freeing, Busy, Main
<1>5. PutLock(q) = {} /\ MainLock(q) = StepLock(a)
  BY <1>1, <1>2, <1>3 DEF PutLock, MainLock, Busy, StepLock, Main
<1>6. \A i \in Inums : Refs(q, i) = Bit(a.i = i) + Bit(a.j = i)
  BY <1>1, <1>2, <1>3 DEF Refs, PutRef, MainRef, Busy, Main, Bit, Inums
<1>7. Main(q) = a
  BY <1>1 DEF Main
<1> QED
  BY <1>1, <1>4, <1>5, <1>6, <1>7 DEF q

\* An iput() and one step more.
LEMMA PutAndOne ==
  ASSUME NEW a \in Todo, a.op = "iput", NEW b \in Todo, Proper(b), b.op \in Ends
  PROVE  LET q == <<a, b>> IN
         /\ q \in Seq(Todo) /\ q # <<>> /\ Formed(q) /\ PutLock(q) = {} /\ MainLock(q) = StepLock(b)
         /\ \A i \in Inums : Refs(q, i) = Bit(a.i = i) + Bit(b.i = i) + Bit(b.j = i)
         /\ Main(q) = b
<1> DEFINE q == <<a, b>>
<1>1. q \in Seq(Todo) /\ Len(q) = 2 /\ q[1] = a /\ q[2] = b /\ q # <<>>
  BY TwoAre
<1> HIDE DEF q
<1>2. Skip(q) = 1 /\ Main(q) = b
  BY <1>1, LeadIs DEF Skip, Main
<1>4. Formed(q)
  BY <1>1, <1>2 DEF Formed, Freeing, Busy
<1>5. PutLock(q) = {} /\ MainLock(q) = StepLock(b)
  BY <1>1, <1>2 DEF PutLock, MainLock, Busy
<1>6. \A i \in Inums : Refs(q, i) = Bit(a.i = i) + Bit(b.i = i) + Bit(b.j = i)
  BY <1>1, <1>2 DEF Refs, PutRef, MainRef, Busy, Bit
<1> QED
  BY <1>1, <1>2, <1>4, <1>5, <1>6 DEF q

\* The end of ialloc() and what create() does with the inode.
LEMMA GetAndMake ==
  ASSUME NEW a \in Todo, a.op = "iget", NEW b \in Todo, b.op = "make", b.i = a.i, b.j # 0
  PROVE  LET q == <<a, b>> IN
         /\ q \in Seq(Todo) /\ q # <<>> /\ Formed(q) /\ PutLock(q) = {} /\ MainLock(q) = {b.j}
         /\ \A i \in Inums : Refs(q, i) = Bit(b.j = i)
         /\ Main(q) = b
<1> DEFINE q == <<a, b>>
<1>1. q \in Seq(Todo) /\ Len(q) = 2 /\ q[1] = a /\ q[2] = b /\ q # <<>>
  BY TwoAre
<1> HIDE DEF q
<1>2. Skip(q) = 0 /\ Main(q) = b
  BY <1>1, LeadIs DEF Skip, Main
<1>4. Formed(q)
  BY <1>1, <1>2 DEF Formed, Freeing, Making, Busy, Proper, TwoRefs, Starts
<1>5. PutLock(q) = {} /\ MainLock(q) = {b.j}
  BY <1>1, <1>2 DEF PutLock, MainLock, Busy, StepLock
<1>6. \A i \in Inums : Refs(q, i) = Bit(b.j = i)
  BY <1>1, <1>2 DEF Refs, PutRef, MainRef, Busy, Bit
<1> QED
  BY <1>1, <1>2, <1>4, <1>5, <1>6 DEF q

\* A process at a step other than these has only that step left.
LEMMA Alone ==
  ASSUME NEW q \in Seq(Todo), Formed(q), q # <<>>,
         q[1].op \notin {"iput", "idrop", "itrunc", "ifree", "irelease", "iget"}
  PROVE  /\ q = <<q[1]>> /\ Tail(q) = <<>> /\ q[1] \in Todo /\ Proper(q[1])
         /\ Main(q) = q[1]
<1>1. Len(q) \in Nat /\ Len(q) >= 1 /\ q[1] \in Todo
  BY HeadIs
<1>2. Skip(q) = 0
  BY LeadIs DEF Skip
<1>3. ~Making(q)
  BY DEF Making
<1>4. Len(q) = 1
  <2>1. Len(q) <= 1
    BY <1>2, <1>3 DEF Formed
  <2> QED
    BY <2>1, ShortIs
<1>5. Busy(q) /\ Main(q) = q[1]
  BY <1>2, <1>4 DEF Busy, Main
<1> QED
  BY <1>1, <1>4, <1>5, HeadIs DEF Formed

-----------------------------------------------------------------------------
(* Counting references, and the locks of one process. *)

Pile(f) == {u \in Procs \X (1..5) : u[2] <= f[u[1]]}

LEMMA PileFinite ==
  ASSUME NEW f
  PROVE  IsFiniteSet(Pile(f)) /\ Cardinality(Pile(f)) \in Nat
<1>0. 1 \in Int /\ 5 \in Int
  OBVIOUS
<1>1. IsFiniteSet(1..5)
  BY <1>0, FS_Interval, Zenon
<1>2. IsFiniteSet(Procs \X (1..5))
  BY <1>1, FS_Product, FsConstants
<1> QED
  BY <1>2, FS_Subset, FS_CardinalityType DEF Pile

LEMMA PileMoves ==
  ASSUME NEW f \in [Procs -> 0..5], NEW p \in Procs, NEW n \in 0..5, n - f[p] \in {-1, 0, 1}
  PROVE  Cardinality(Pile([f EXCEPT ![p] = n])) = Cardinality(Pile(f)) + (n - f[p])
<1> DEFINE g == [f EXCEPT ![p] = n]
           A == Pile(f)
           B == Pile(g)
<1>1. IsFiniteSet(A) /\ IsFiniteSet(B) /\ Cardinality(A) \in Nat /\ Cardinality(B) \in Nat
  BY PileFinite
<1>2. CASE n = f[p]
  <2>0. g = f
    BY <1>2
  <2>1. B = A
    BY <2>0
  <2>2. n - f[p] = 0
    BY <1>2
  <2> HIDE DEF A, B
  <2> QED
    BY <1>1, <2>1, <2>2 DEF A, B
<1>3. CASE n = f[p] + 1
  <2>1. <<p, n>> \notin A /\ B = A \cup {<<p, n>>}
    BY <1>3 DEF Pile
  <2> HIDE DEF A, B
  <2>2. Cardinality(B) = Cardinality(A) + 1
    BY <1>1, <2>1, FS_AddElement
  <2> QED
    BY <1>1, <1>3, <2>2 DEF A, B
<1>4. CASE n = f[p] - 1
  <2>1. <<p, f[p]>> \in A /\ B = A \ {<<p, f[p]>>}
    BY <1>4 DEF Pile
  <2> HIDE DEF A, B
  <2>2. Cardinality(B) = Cardinality(A) - 1
    BY <1>1, <2>1, FS_RemoveElement
  <2> QED
    BY <1>1, <1>4, <2>2 DEF A, B
<1> QED
  BY <1>2, <1>3, <1>4

LEMMA HeldIs ==
  ASSUME NEW p, NEW i
  PROVE  Held(p, i) \in 0..5
BY DEF Held, Refs, PutRef, MainRef, Bit

LEMMA UnitsAre ==
  ASSUME NEW i
  PROVE  Units(i) = Pile([t \in Procs |-> Held(t, i)])
BY DEF Units, Pile

\* What a step of p leaves alone, and what it has to keep in step.
Others(p) == \A t \in Procs \ {p} :
  todo'[t] = todo[t] /\ call'[t] = call[t] /\ cwd'[t] = cwd[t] /\ file'[t].ip = file[t].ip

Balance(p) == \A i \in Inums :
  /\ itable'[i].ref = itable[i].ref + (Held(p, i)' - Held(p, i))
  /\ Held(p, i)' - Held(p, i) \in {-1, 0, 1}

Keeping(p) ==
  /\ PutLock(todo'[p]) \cap MainLock(todo'[p]) = {}
  /\ \A i \in Inums :
       /\ ilk'[i] = p <=> i \in PutLock(todo'[p]) \cup MainLock(todo'[p])
       /\ ilk'[i] = ilk[i] \/ (ilk[i] \in {p, NoProc} /\ ilk'[i] \in {p, NoProc})

LEMMA CountedStep ==
  ASSUME Counted, NEW p \in Procs, Others(p), Balance(p)
  PROVE  Counted'
<1> SUFFICES ASSUME NEW i \in Inums
             PROVE  itable'[i].ref = Cardinality(Units(i)')
  BY DEF Counted
<1> DEFINE f == [t \in Procs |-> Held(t, i)]
           g == [t \in Procs |-> Held(t, i)']
           n == Held(p, i)'
<1>1. /\ f \in [Procs -> 0..5] /\ g \in [Procs -> 0..5] /\ n \in 0..5
  <2>1. \A t \in Procs : Held(t, i) \in 0..5
    BY HeldIs
  <2>2. \A t \in Procs : Held(t, i)' \in 0..5
    BY DEF Held, Refs, PutRef, MainRef, Bit
  <2> QED
    BY <2>1, <2>2
<1>2. \A t \in Procs \ {p} : Held(t, i)' = Held(t, i)
  BY DEF Others, Held
<1>3. g = [f EXCEPT ![p] = n]
  BY <1>2
<1>4. Units(i) = Pile(f) /\ Units(i)' = Pile(g)
  <2>1. Units(i)' = Pile(g)
    BY DEF Units, Pile
  <2> QED
    BY <2>1, UnitsAre
<1>5. n - f[p] \in {-1, 0, 1} /\ itable'[i].ref = itable[i].ref + (n - f[p])
  BY DEF Balance
<1> HIDE DEF f, g, n
<1>6. Cardinality(Pile(g)) = Cardinality(Pile(f)) + (n - f[p])
  BY <1>1, <1>3, <1>5, PileMoves
<1> QED
  BY <1>4, <1>5, <1>6 DEF Counted

LEMMA LockingStep ==
  ASSUME Locking, NEW p \in Procs, Others(p), Keeping(p)
  PROVE  Locking'
<1> SUFFICES ASSUME NEW t \in Procs
             PROVE  /\ PutLock(todo'[t]) \cap MainLock(todo'[t]) = {}
                    /\ \A i \in Inums : ilk'[i] = t <=> i \in PutLock(todo'[t]) \cup MainLock(todo'[t])
  BY DEF Locking, PutLock, MainLock, Busy, Skip, Main
<1>1. CASE t = p
  BY <1>1 DEF Keeping
<1>2. CASE t # p
  <2>1. todo'[t] = todo[t]
    BY <1>2 DEF Others
  <2>2. \A i \in Inums : ilk'[i] = t <=> ilk[i] = t
    BY <1>2, FsConstants DEF Keeping
  <2> QED
    BY <2>1, <2>2 DEF Locking
<1> QED
  BY <1>1, <1>2

LEMMA RefsAreNumbers ==
  ASSUME Counted
  PROVE  \A i \in Inums : itable[i].ref \in Nat
BY UnitsAre, PileFinite DEF Counted

\* The in-memory inodes after iget(), ilock() and iupdate().
Table == [Inums -> [ref : Int, valid : BOOLEAN, d : Node]]

LEMMA TableIs ==
  ASSUME NEW T \in Table, NEW i \in Inums, T[i].ref \in Nat, dino \in [Inums -> Node]
  PROVE  /\ iget(T, i) \in Table /\ ilock(T, i) \in Table
         /\ \A k \in Inums : iget(T, i)[k].ref = T[k].ref + Bit(k = i)
         /\ \A k \in Inums : ilock(T, i)[k].ref = T[k].ref
<1>0. /\ T \in [Inums -> [ref : Int, valid : BOOLEAN, d : Node]]
      /\ T[i] \in [ref : Int, valid : BOOLEAN, d : Node] /\ dino[i] \in Node
  BY DEF Table
<1> HIDE DEF Inums
<1>1. iget(T, i) \in Table /\ \A k \in Inums : iget(T, i)[k].ref = T[k].ref + Bit(k = i)
  <2>1. CASE T[i].ref > 0
    BY <1>0, <2>1 DEF Table, iget, Bit
  <2>2. CASE T[i].ref = 0
    BY <1>0, <2>2 DEF Table, iget, Bit
  <2> QED
    BY <2>1, <2>2
<1>2. ilock(T, i) \in Table /\ \A k \in Inums : ilock(T, i)[k].ref = T[k].ref
  BY <1>0 DEF Table, ilock
<1> QED
  BY <1>1, <1>2

-----------------------------------------------------------------------------
(* One step of a process. *)

\* The step keeps references and locks with the steps that have them.
Moved(p) ==
  /\ Others(p) /\ Balance(p) /\ Keeping(p) /\ Formed(todo'[p]) /\ todo'[p] \in Seq(Todo)
  /\ todo'[p] # <<>> /\ Linking(Main(todo'[p])) => LinkCall(p)'

LEMMA MovedIs ==
  ASSUME Shapes, Recalled, Counted, Locking, NEW p \in Procs, Moved(p)
  PROVE  Shapes' /\ Recalled' /\ Counted' /\ Locking'
<1>1. Counted' /\ Locking'
  BY CountedStep, LockingStep DEF Moved
<1>2. Shapes'
  <2>1. \A t \in Procs : Formed(todo'[t])
    BY DEF Moved, Others, Shapes
  <2> QED
    BY <2>1 DEF Shapes, Formed, Busy, Skip, Making, Main, Freeing
<1>3. Recalled'
  <2>1. \A t \in Procs : todo'[t] # <<>> /\ Linking(Main(todo'[t])) => LinkCall(t)'
    BY DEF Moved, Others, Recalled, LinkCall
  <2> QED
    BY <2>1 DEF Recalled, Main
<1> QED
  BY <1>1, <1>2, <1>3

LEMMA ReturnIs ==
  ASSUME Types0, NEW p \in Procs, NEW r, Return(p, r)
  PROVE  /\ todo'[p] = r /\ \A t \in Procs \ {p} : todo'[t] = todo[t] /\ call'[t] = call[t]
         /\ r # <<>> => call'[p] = call[p]
BY DEF Types0, ProcTypes, Return

LEMMA StartIs ==
  ASSUME RefInv, NEW p \in Procs, todo[p] = <<>>
  PROVE  /\ \A i \in Inums : Refs(todo[p], i) = 0
         /\ \A i \in Inums : ilk[i] # p
BY Done DEF RefInv, Locking

\* The process is at a step that is the only one it has left.
LEMMA SingleIs ==
  ASSUME RefInv, NEW p \in Procs, todo[p] # <<>>,
         Now(p).op \notin {"iput", "idrop", "itrunc", "ifree", "irelease", "iget"}
  PROVE  LET t == Now(p) IN
         /\ Tail(todo[p]) = <<>> /\ t \in Todo /\ Proper(t)
         /\ t.i \in Inums /\ t.j \in {0} \cup Inums
         /\ Linking(t) => LinkCall(p)
         /\ \A i \in Inums : Refs(todo[p], i) = Bit(t.i = i) + Bit(t.j = i)
         /\ \A i \in Inums : ilk[i] = p <=> i \in StepLock(t)
<1> DEFINE q == todo[p]
           t == q[1]
<1>1. q \in Seq(Todo) /\ q # <<>> /\ Formed(q) /\ Now(p) = t
  BY HeadIs DEF RefInv, Types0, ProcTypes, Shapes, Now
<1> HIDE DEF q
<1>2. q = <<t>> /\ Tail(q) = <<>> /\ t \in Todo /\ Proper(t) /\ Main(q) = t
  BY <1>1, Alone DEF q
<1>3. t.i \in Inums /\ t.j \in {0} \cup Inums
  BY <1>2 DEF Todo, Steps, Walks
<1>4. Linking(t) => LinkCall(p)
  BY <1>1, <1>2 DEF q, RefInv, Recalled
<1> HIDE DEF t
<1>5. /\ \A i \in Inums : Refs(q, i) = Bit(t.i = i) + Bit(t.j = i)
      /\ PutLock(q) = {} /\ MainLock(q) = StepLock(t)
  BY <1>2, OneLeft
<1>6. \A i \in Inums : ilk[i] = p <=> i \in StepLock(t)
  BY <1>5 DEF q, RefInv, Locking
<1> QED
  BY <1>1, <1>2, <1>3, <1>4, <1>5, <1>6 DEF q

\* It is enough to look at the difference that the step makes.
Weighs(p, r) == \A i \in Inums :
  /\ itable'[i].ref = itable[i].ref + (Refs(r, i) - Refs(todo[p], i))
  /\ Refs(r, i) - Refs(todo[p], i) \in {-1, 0, 1}

Holds(p, S) == \A i \in Inums :
  /\ ilk'[i] = p <=> i \in S
  /\ ilk'[i] = ilk[i] \/ (ilk[i] \in {p, NoProc} /\ ilk'[i] \in {p, NoProc})

Continues(p, r) ==
  r # <<>> /\ Linking(Main(r)) => LinkCall(p)

\* The same when cwd or file changes.
Worth(p, i) == Bit(cwd[p] = i) + Bit(file[p].ip = i)
Suits(p, r) == \A i \in Inums :
  LET n == Worth(p, i)' + Refs(r, i) - Worth(p, i) - Refs(todo[p], i) IN
  itable'[i].ref = itable[i].ref + n /\ n \in {-1, 0, 1}

LEMMA MovedWith ==
  ASSUME RefInv, NEW p \in Procs, NEW r \in Seq(Todo), Formed(r), PutLock(r) \cap MainLock(r) = {},
         todo'[p] = r, Others(p), Suits(p, r), Holds(p, PutLock(r) \cup MainLock(r)),
         r # <<>> /\ Linking(Main(r)) => LinkCall(p)'
  PROVE  Moved(p)
<1>1. \A i : /\ Refs(r, i) \in 0..3 /\ Refs(todo[p], i) \in 0..3
             /\ Worth(p, i) \in 0..2 /\ Worth(p, i)' \in 0..2
  BY DEF Refs, PutRef, MainRef, Bit, Worth
<1>2. \A i : Held(p, i) = Worth(p, i) + Refs(todo[p], i)
  BY DEF Held, Worth
<1>3. \A i : Held(p, i)' = Worth(p, i)' + Refs(r, i)
  BY DEF Held, Worth, Refs, PutRef, MainRef, Busy, Skip, Main
<1>4. Balance(p)
  <2>1. \A i : Held(p, i)' - Held(p, i) = Worth(p, i)' + Refs(r, i) - Worth(p, i) - Refs(todo[p], i)
    BY <1>1, <1>2, <1>3
  <2> QED
    BY <2>1 DEF Suits, Balance
<1>5. Keeping(p)
  BY DEF Holds, Keeping
<1> QED
  BY <1>4, <1>5 DEF Moved

LEMMA MovedBy ==
  ASSUME RefInv, NEW p \in Procs, NEW r \in Seq(Todo), Formed(r), PutLock(r) \cap MainLock(r) = {},
         Return(p, r), UNCHANGED procs, Continues(p, r), Weighs(p, r),
         Holds(p, PutLock(r) \cup MainLock(r))
  PROVE  Moved(p)
<1>1. /\ todo'[p] = r /\ \A t \in Procs \ {p} : todo'[t] = todo[t] /\ call'[t] = call[t]
      /\ r # <<>> => call'[p] = call[p]
  BY ReturnIs DEF RefInv
<1>2. Others(p)
  BY <1>1 DEF procs, Others
<1>3. \A i : /\ Refs(r, i) \in 0..3 /\ Refs(todo[p], i) \in 0..3
             /\ Worth(p, i) \in 0..2 /\ Worth(p, i)' = Worth(p, i)
  BY DEF Refs, PutRef, MainRef, Bit, Worth, procs
<1>4. Suits(p, r)
  <2>1. \A i : Worth(p, i)' + Refs(r, i) - Worth(p, i) - Refs(todo[p], i) = Refs(r, i) - Refs(todo[p], i)
    BY <1>3
  <2> QED
    BY <2>1 DEF Weighs, Suits
<1> QED
  BY <1>1, <1>2, <1>4, MovedWith DEF Continues, LinkCall

\* The references of the inodes of T are those of itable, and one more to i.
Keeps(T) == \A k \in Inums : T[k].ref = itable[k].ref
Takes(T, i) == \A k \in Inums : T[k].ref = itable[k].ref + Bit(k = i)

LEMMA Locked ==
  ASSUME RefInv, NEW i \in Inums
  PROVE  /\ ilock(itable, i) \in Table /\ Keeps(ilock(itable, i))
         /\ iget(itable, i) \in Table /\ Takes(iget(itable, i), i)
<1>1. itable \in Table /\ dino \in [Inums -> Node] /\ itable[i].ref \in Nat
  BY RefsAreNumbers DEF RefInv, Types0, InMemoryTypes, OnDiskTypes, Table
<1> QED
  BY <1>1, TableIs DEF Keeps, Takes

LEMMA LockedAndGot ==
  ASSUME RefInv, NEW i \in Inums, NEW k \in Inums
  PROVE  iget(ilock(itable, i), k) \in Table /\ Takes(iget(ilock(itable, i), k), k)
<1> DEFINE T == ilock(itable, i)
<1>1. dino \in [Inums -> Node] /\ itable[k].ref \in Nat
  BY RefsAreNumbers DEF RefInv, Types0, OnDiskTypes
<1>2. T \in Table /\ Keeps(T)
  BY Locked
<1> HIDE DEF T
<1>3. T[k].ref \in Nat
  BY <1>1, <1>2 DEF Keeps
<1>4. iget(T, k) \in Table /\ Takes(iget(T, k), k)
  BY <1>1, <1>2, <1>3, TableIs DEF Takes, Keeps
<1> QED
  BY <1>4 DEF T

\* What has to be shown of a step after which a is left, or a and b.
Ref1(a, i) == Bit(a.i = i) + Bit(a.j = i)
Ref2(a, b, i) == Bit(a.i = i) + Bit(b.i = i) + Bit(b.j = i)
FairOne(p, a) == \A i \in Inums :
  /\ itable'[i].ref = itable[i].ref + (Ref1(a, i) - Refs(todo[p], i))
  /\ Ref1(a, i) - Refs(todo[p], i) \in {-1, 0, 1}
FairTwo(p, a, b) == \A i \in Inums :
  /\ itable'[i].ref = itable[i].ref + (Ref2(a, b, i) - Refs(todo[p], i))
  /\ Ref2(a, b, i) - Refs(todo[p], i) \in {-1, 0, 1}

LEMMA ToOne ==
  ASSUME RefInv, NEW p \in Procs, NEW a \in Todo, Proper(a), Return(p, <<a>>),
         Linking(a) => LinkCall(p),
         UNCHANGED procs, FairOne(p, a), Holds(p, StepLock(a))
  PROVE  Moved(p)
<1> DEFINE r == <<a>>
<1>1. /\ r \in Seq(Todo) /\ r # <<>> /\ Formed(r) /\ PutLock(r) = {} /\ MainLock(r) = StepLock(a)
      /\ \A i \in Inums : Refs(r, i) = Ref1(a, i)
      /\ Main(r) = a
  BY OneLeft DEF Ref1
<1> HIDE DEF r
<1>2. Weighs(p, r) /\ Continues(p, r) /\ Return(p, r)
  BY <1>1 DEF Weighs, FairOne, Continues, r
<1> QED
  BY <1>1, <1>2, MovedBy

LEMMA ToTwo ==
  ASSUME RefInv, NEW p \in Procs, NEW a \in Todo, a.op = "iput", NEW b \in Todo, Proper(b),
         b.op \in Ends, Return(p, <<a, b>>),
         Linking(b) => LinkCall(p),
         UNCHANGED procs, FairTwo(p, a, b), Holds(p, StepLock(b))
  PROVE  Moved(p)
<1> DEFINE r == <<a, b>>
<1>1. /\ r \in Seq(Todo) /\ r # <<>> /\ Formed(r) /\ PutLock(r) = {} /\ MainLock(r) = StepLock(b)
      /\ \A i \in Inums : Refs(r, i) = Ref2(a, b, i)
      /\ Main(r) = b
  BY PutAndOne DEF Ref2
<1> HIDE DEF r
<1>2. Weighs(p, r)
  BY <1>1 DEF Weighs, FairTwo
<1>3. Continues(p, r) /\ Return(p, r)
  BY <1>1 DEF Continues, r
<1> QED
  BY <1>1, <1>2, <1>3, MovedBy

\* The inode that is locked or unlocked is p's own.
LEMMA LockIs ==
  ASSUME RefInv, NEW p \in Procs, NEW i \in Inums
  PROVE  /\ Free(i) /\ (\A k \in Inums : ilk[k] # p) /\ ilk' = Lock(p, {i}) => Holds(p, {i})
         /\ (\A k \in Inums : ilk[k] = p <=> k = i) /\ ilk' = Lock(NoProc, {i}) => Holds(p, {})
         /\ (\A k \in Inums : ilk[k] # p) /\ ilk' = ilk => Holds(p, {})
         /\ (\A k \in Inums : ilk[k] = p <=> k = i) /\ ilk' = ilk => Holds(p, {i})
BY FsConstants DEF Free, Lock, Holds, RefInv, Types0, InMemoryTypes

-----------------------------------------------------------------------------
(* Every step moves references and locks as it should. *)

\* The steps that calls leave behind are proper ones.
LEMMA StepsAre ==
  ASSUME NEW i \in Inums, NEW j \in {0} \cup Inums, NEW n \in DirNames, NEW op \in Starts \ {"namex"}
  PROVE  /\ Step(op, i, j, n) \in Todo
         /\ Step(op, i, j, n).op = op /\ Step(op, i, j, n).i = i /\ Step(op, i, j, n).j = j
         /\ (j # 0) = (op \in {"make", "unlink2", "link2"}) => Proper(Step(op, i, j, n))
         /\ op # "link" => ~Linking(Step(op, i, j, n))
         /\ StepLock(Step(op, i, j, n)) = IF op \in {"opened", "unlink3", "iunlockput"} THEN {i}
                                          ELSE IF op \in {"make", "unlink2"} THEN {j} ELSE {}
<1>1. Step(op, i, j, n) \in Steps
  BY DEF Step, Steps, Starts, Ends, Ops, Thens
<1> QED
  BY <1>1 DEF Step, Todo, Proper, TwoRefs, Linking, StepLock, Starts, Ends

LEMMA iputIs ==
  ASSUME NEW i \in Inums
  PROVE  /\ iput(i) \in Todo /\ Proper(iput(i)) /\ iput(i).op = "iput"
         /\ iput(i).i = i /\ iput(i).j = 0 /\ StepLock(iput(i)) = {} /\ ~Linking(iput(i))
         /\ "." \in DirNames
<1>1. "iput" \in Starts /\ "." \in DirNames
  BY DEF Starts, Ends, DirNames
<1> QED
  BY <1>1, StepsAre DEF iput

\* From the references of the inodes to those of the steps.
LEMMA WeightIs ==
  ASSUME RefInv, NEW p \in Procs
  PROVE  /\ \A a : Keeps(itable') /\ (\A i \in Inums : Ref1(a, i) = Refs(todo[p], i)) => FairOne(p, a)
         /\ \A a, k : Takes(itable', k) /\ (\A i \in Inums : Ref1(a, i) = Refs(todo[p], i) + Bit(k = i))
              => FairOne(p, a)
         /\ \A a, b : Keeps(itable') /\ (\A i \in Inums : Ref2(a, b, i) = Refs(todo[p], i)) => FairTwo(p, a, b)
         /\ \A a, b, k : Takes(itable', k) /\ (\A i \in Inums : Ref2(a, b, i) = Refs(todo[p], i) + Bit(k = i))
              => FairTwo(p, a, b)
<1>1. \A i \in Inums : itable[i].ref \in Nat /\ Refs(todo[p], i) \in Int
  BY RefsAreNumbers DEF RefInv, Refs, PutRef, MainRef, Bit
<1>2. \A a, b, i : Ref1(a, i) \in 0..2 /\ Ref2(a, b, i) \in 0..3
  BY DEF Ref1, Ref2, Bit
<1> QED
  BY <1>1, <1>2 DEF FairOne, FairTwo, Keeps, Takes, Bit

LEMMA UpdatedIs ==
  ASSUME NEW T \in Table, NEW i \in Inums, NEW d, NEW k
  PROVE  /\ Keeps(T) => Keeps([T EXCEPT ![i].d = d])
         /\ Takes(T, k) => Takes([T EXCEPT ![i].d = d], k)
BY DEF Table, Keeps, Takes

\* The step that the process is at is its only one; a follows, or a and b.
Sole(p) == /\ p \in Procs /\ todo[p] # <<>>
           /\ Now(p).op \notin {"iput", "idrop", "itrunc", "ifree", "irelease", "iget"}
Follows(p, a) == a \in Todo /\ Proper(a) /\ (Linking(a) => LinkCall(p))
OneFor(t, a) ==
  \/ Keeps(itable') /\ \A i \in Inums : Ref1(a, i) = Ref1(t, i)
  \/ \E k : Takes(itable', k) /\ \A i \in Inums : Ref1(a, i) = Ref1(t, i) + Bit(k = i)
TwoFor(t, a, b) ==
  \/ Keeps(itable') /\ \A i \in Inums : Ref2(a, b, i) = Ref1(t, i)
  \/ \E k : Takes(itable', k) /\ \A i \in Inums : Ref2(a, b, i) = Ref1(t, i) + Bit(k = i)

LEMMA SoleIs ==
  ASSUME RefInv, NEW p, Sole(p)
  PROVE  LET t == Now(p) IN
         /\ Tail(todo[p]) = <<>> /\ t \in Todo /\ Proper(t)
         /\ t.i \in Inums /\ t.j \in {0} \cup Inums /\ (t.j # 0 <=> TwoRefs(t))
         /\ t.op # "namex" => t.name \in DirNames
         /\ Linking(t) => LinkCall(p)
         /\ \A i \in Inums : Refs(todo[p], i) = Ref1(t, i)
         /\ \A i \in Inums : ilk[i] = p <=> i \in StepLock(t)
<1>1. Now(p) \in Todo /\ Proper(Now(p))
  BY SingleIs DEF Sole
<1>2. Now(p).op # "namex" => Now(p).name \in DirNames
  BY <1>1 DEF Todo, Steps, Walks
<1> QED
  BY <1>1, <1>2, SingleIs DEF Ref1, Sole, Proper

LEMMA OneFollows ==
  ASSUME RefInv, NEW p, Sole(p), NEW a, Follows(p, a), Return(p, <<a>>), UNCHANGED procs,
         OneFor(Now(p), a), Holds(p, StepLock(a))
  PROVE  Moved(p)
<1>1. FairOne(p, a)
  BY SoleIs, WeightIs DEF OneFor, Sole
<1> QED
  BY <1>1, SoleIs, ToOne DEF Follows, Sole

LEMMA TwoFollow ==
  ASSUME RefInv, NEW p, Sole(p), NEW a, a \in Todo, a.op = "iput", NEW b, Follows(p, b), b.op \in Ends,
         Return(p, <<a, b>>), UNCHANGED procs, TwoFor(Now(p), a, b), Holds(p, StepLock(b))
  PROVE  Moved(p)
<1>1. FairTwo(p, a, b)
  BY SoleIs, WeightIs DEF TwoFor, Sole
<1> QED
  BY <1>1, SoleIs, ToTwo DEF Follows, Sole

\* A call is put back as iput() of the inode it was at, or with one more step.
LEMMA PutFollows ==
  ASSUME RefInv, NEW i \in Inums, NEW p
  PROVE  iput(i) \in Todo /\ iput(i).op = "iput" /\ Follows(p, iput(i)) /\ StepLock(iput(i)) = {}
         /\ iput(i).i = i /\ iput(i).j = 0
BY iputIs DEF Follows

Fits(p, s, i, j, L) == /\ Follows(p, s) /\ s \in Todo /\ s.i = i /\ s.j = j /\ StepLock(s) = L
                       /\ ~Linking(s)
LEMMA StepFollows ==
  ASSUME NEW p, NEW i \in Inums, NEW j \in Inums, NEW n \in DirNames
  PROVE  /\ \A op \in {"opened", "iunlockput", "unlink3"} : Fits(p, Step(op, i, 0, "."), i, 0, {i})
         /\ \A op \in {"exists", "linkbad", "create", "open", "unlink", "chdir"} :
              Fits(p, Step(op, i, 0, n), i, 0, {})
         /\ \A op \in {"make", "unlink2"} : Fits(p, Step(op, i, j, n), i, j, {j})
         /\ Fits(p, Step("link2", i, j, n), i, j, {})
         /\ \A op, k : Step(op, i, k, n).op = op
<1>1. 0 \in {0} \cup Inums /\ j \in {0} \cup Inums /\ j # 0 /\ "." \in DirNames
  BY DEF Inums, DirNames
<1>2. \A op \in {"opened", "iunlockput", "unlink3"} : Fits(p, Step(op, i, 0, "."), i, 0, {i})
  BY <1>1 DEF Fits, Follows, Step, Todo, Steps, Ops, Proper, TwoRefs, Linking, StepLock, Starts, Ends
<1>3. \A op \in {"exists", "linkbad", "create", "open", "unlink", "chdir"} :
        Fits(p, Step(op, i, 0, n), i, 0, {})
  BY <1>1 DEF Fits, Follows, Step, Todo, Steps, Ops, Thens, Proper, TwoRefs, Linking, StepLock,
              Starts, Ends
<1>4. \A op \in {"make", "unlink2"} : Fits(p, Step(op, i, j, n), i, j, {j})
  BY <1>1 DEF Fits, Follows, Step, Todo, Steps, Ops, Proper, TwoRefs, Linking, StepLock, Starts, Ends
<1>5. Fits(p, Step("link2", i, j, n), i, j, {})
  BY <1>1 DEF Fits, Follows, Step, Todo, Steps, Ops, Thens, Proper, TwoRefs, Linking, StepLock,
              Starts, Ends
<1>6. \A op, k : Step(op, i, k, n).op = op
  BY DEF Step
<1> QED
  BY <1>2, <1>3, <1>4, <1>5, <1>6

LEMMA GoIs ==
  ASSUME NEW p, Tail(todo[p]) = <<>>
  PROVE  /\ Go(p, <<>>) => Return(p, <<>>)
         /\ \A a : Go(p, <<a>>) => Return(p, <<a>>)
         /\ \A a, b : Go(p, <<a, b>>) => Return(p, <<a, b>>)
<1>1. <<>> \o <<>> = <<>>
  BY EmptyIs
<1>2. \A a : <<a>> \o <<>> = <<a>>
  BY OneIs
<1>3. \A a, b : <<a, b>> \o <<>> = <<a, b>>
  <2> TAKE a, b
  <2>1. a \in {a, b} /\ b \in {a, b}
    OBVIOUS
  <2> QED
    BY <2>1, TwoAre
<1> QED
  BY <1>1, <1>2, <1>3 DEF Go

\* The copy of a locked inode that is changed and written out.
LEMMA Written ==
  ASSUME RefInv, NEW i \in Inums, NEW k \in Inums, NEW d, NEW T
  PROVE  /\ T \in {itable, ilock(itable, i)} /\ iupdate(T, k, d) => Keeps(itable')
         /\ T \in {itable, ilock(itable, i)} /\ itable' = T => Keeps(itable')
<1>1. itable \in Table /\ Keeps(itable)
  BY DEF RefInv, Types0, InMemoryTypes, Table, Keeps
<1>2. ilock(itable, i) \in Table /\ Keeps(ilock(itable, i))
  BY Locked
<1> QED
  BY <1>1, <1>2, UpdatedIs DEF iupdate

LEMMA Unlink3Moves ==
  ASSUME RefInv, NEW p \in Procs, Unlink3(p)
  PROVE  Moved(p)
<1> DEFINE t == Now(p)
<1>1. Sole(p) /\ t.op = "unlink3"
  BY DEF Unlink3, At, Now, Sole
<1>2. /\ Tail(todo[p]) = <<>> /\ t \in Todo /\ t.i \in Inums /\ t.j \in {0} \cup Inums
      /\ (t.j # 0 <=> TwoRefs(t)) /\ (t.op # "namex" => t.name \in DirNames)
      /\ Linking(t) => LinkCall(p)
      /\ \A i \in Inums : ilk[i] = p <=> i \in StepLock(t)
  BY <1>1, SoleIs
<1>3. Return(p, <<iput(t.i)>>) /\ UNCHANGED procs
  <2>1. Go(p, <<iput(t.i)>>) /\ UNCHANGED procs
    BY DEF Unlink3
  <2> QED
    BY <1>2, <2>1, GoIs
<1>4. Follows(p, iput(t.i)) /\ StepLock(iput(t.i)) = {} /\ iput(t.i).i = t.i /\ iput(t.i).j = 0
  BY <1>2, PutFollows
<1>5. Keeps(itable')
  BY <1>2, Written DEF Unlink3
<1>6. t.j = 0 /\ StepLock(t) = {t.i}
  BY <1>1, <1>2 DEF TwoRefs, StepLock
<1>7. OneFor(t, iput(t.i))
  BY <1>4, <1>5, <1>6 DEF OneFor, Ref1
<1>8. Holds(p, {})
  BY <1>2, <1>6, LockIs DEF Unlink3
<1> QED
  BY <1>1, <1>3, <1>4, <1>7, <1>8, OneFollows

LEMMA IunlockputMoves ==
  ASSUME RefInv, NEW p \in Procs, Iunlockput(p)
  PROVE  Moved(p)
<1> DEFINE t == Now(p)
<1>1. Sole(p) /\ t.op = "iunlockput"
  BY DEF Iunlockput, At, Now, Sole
<1>2. /\ Tail(todo[p]) = <<>> /\ t \in Todo /\ t.i \in Inums /\ t.j \in {0} \cup Inums
      /\ (t.j # 0 <=> TwoRefs(t)) /\ (t.op # "namex" => t.name \in DirNames)
      /\ Linking(t) => LinkCall(p)
      /\ \A i \in Inums : ilk[i] = p <=> i \in StepLock(t)
  BY <1>1, SoleIs
<1>3. Return(p, <<iput(t.i)>>) /\ UNCHANGED procs
  <2>1. Go(p, <<iput(t.i)>>) /\ UNCHANGED procs
    BY DEF Iunlockput
  <2> QED
    BY <1>2, <2>1, GoIs
<1>4. Follows(p, iput(t.i)) /\ StepLock(iput(t.i)) = {} /\ iput(t.i).i = t.i /\ iput(t.i).j = 0
  BY <1>2, PutFollows
<1>5. Keeps(itable')
  BY DEF Iunlockput, Keeps
<1>6. t.j = 0 /\ StepLock(t) = {t.i}
  BY <1>1, <1>2 DEF TwoRefs, StepLock
<1>7. OneFor(t, iput(t.i))
  BY <1>4, <1>5, <1>6 DEF OneFor, Ref1
<1>8. Holds(p, {})
  BY <1>2, <1>6, LockIs DEF Iunlockput
<1> QED
  BY <1>1, <1>3, <1>4, <1>7, <1>8, OneFollows

LEMMA LinkBadMoves ==
  ASSUME RefInv, NEW p \in Procs, LinkBad(p)
  PROVE  Moved(p)
<1> DEFINE t == Now(p)
<1>1. Sole(p) /\ t.op = "linkbad"
  BY DEF LinkBad, At, Now, Sole
<1>2. /\ Tail(todo[p]) = <<>> /\ t \in Todo /\ t.i \in Inums /\ t.j \in {0} \cup Inums
      /\ (t.j # 0 <=> TwoRefs(t)) /\ (t.op # "namex" => t.name \in DirNames)
      /\ Linking(t) => LinkCall(p)
      /\ \A i \in Inums : ilk[i] = p <=> i \in StepLock(t)
  BY <1>1, SoleIs
<1>3. Return(p, <<iput(t.i)>>) /\ UNCHANGED procs
  <2>1. Go(p, <<iput(t.i)>>) /\ UNCHANGED procs
    BY DEF LinkBad
  <2> QED
    BY <1>2, <2>1, GoIs
<1>4. Follows(p, iput(t.i)) /\ StepLock(iput(t.i)) = {} /\ iput(t.i).i = t.i /\ iput(t.i).j = 0
  BY <1>2, PutFollows
<1>5. Keeps(itable')
  BY <1>2, Written DEF LinkBad
<1>6. t.j = 0 /\ StepLock(t) = {}
  BY <1>1, <1>2 DEF TwoRefs, StepLock
<1>7. OneFor(t, iput(t.i))
  BY <1>4, <1>5, <1>6 DEF OneFor, Ref1
<1>8. Holds(p, {})
  BY <1>2, <1>6, LockIs DEF LinkBad
<1> QED
  BY <1>1, <1>3, <1>4, <1>7, <1>8, OneFollows

LEMMA OpenMoves ==
  ASSUME RefInv, NEW p \in Procs, Open(p)
  PROVE  Moved(p)
<1> DEFINE t == Now(p)
<1>1. Sole(p) /\ t.op = "open"
  BY DEF Open, At, Now, Sole
<1>2. /\ Tail(todo[p]) = <<>> /\ t \in Todo /\ t.i \in Inums /\ t.j \in {0} \cup Inums
      /\ (t.j # 0 <=> TwoRefs(t)) /\ (t.op # "namex" => t.name \in DirNames)
      /\ Linking(t) => LinkCall(p)
      /\ \A i \in Inums : ilk[i] = p <=> i \in StepLock(t)
  BY <1>1, SoleIs
<1>3. Keeps(itable') /\ UNCHANGED procs
  BY <1>2, Written DEF Open
<1>4. t.j = 0 /\ StepLock(t) = {}
  BY <1>1, <1>2 DEF TwoRefs, StepLock
<1>5. CASE ~(ilock(itable, t.i)[t.i].d.type = "dir" /\ call[p].mode # "rd")
  <2> DEFINE a == Step("opened", t.i, 0, ".")
  <2>1. ilk' = Lock(p, {t.i}) /\ Free(t.i) /\ Return(p, <<a>>)
    BY <1>2, <1>5, GoIs DEF Open
  <2>2. Follows(p, a) /\ StepLock(a) = {t.i} /\ a.i = t.i /\ a.j = 0
    BY <1>2, iputIs, StepFollows DEF Fits
  <2>3. OneFor(t, a) /\ Holds(p, {t.i})
    BY <1>2, <1>3, <1>4, <2>1, <2>2, LockIs DEF OneFor, Ref1
  <2> QED
    BY <1>1, <1>3, <2>1, <2>2, <2>3, OneFollows
<1>6. CASE ilock(itable, t.i)[t.i].d.type = "dir" /\ call[p].mode # "rd"
  <2>1. ilk' = ilk /\ Return(p, <<iput(t.i)>>)
    BY <1>2, <1>6, GoIs DEF Open
  <2>2. Follows(p, iput(t.i)) /\ StepLock(iput(t.i)) = {} /\ iput(t.i).i = t.i /\ iput(t.i).j = 0
    BY <1>2, PutFollows
  <2>3. OneFor(t, iput(t.i)) /\ Holds(p, {})
    BY <1>2, <1>3, <1>4, <2>1, <2>2, LockIs DEF OneFor, Ref1
  <2> QED
    BY <1>1, <1>3, <2>1, <2>2, <2>3, OneFollows
<1> QED
  BY <1>5, <1>6

LEMMA ExistsMoves ==
  ASSUME RefInv, NEW p \in Procs, Exists(p)
  PROVE  Moved(p)
<1> DEFINE t == Now(p)
<1>1. Sole(p) /\ t.op = "exists"
  BY DEF Exists, At, Now, Sole
<1>2. /\ Tail(todo[p]) = <<>> /\ t \in Todo /\ t.i \in Inums /\ t.j \in {0} \cup Inums
      /\ (t.j # 0 <=> TwoRefs(t)) /\ (t.op # "namex" => t.name \in DirNames)
      /\ Linking(t) => LinkCall(p)
      /\ \A i \in Inums : ilk[i] = p <=> i \in StepLock(t)
  BY <1>1, SoleIs
<1>3. Keeps(itable') /\ UNCHANGED procs
  BY <1>2, Written DEF Exists
<1>4. t.j = 0 /\ StepLock(t) = {}
  BY <1>1, <1>2 DEF TwoRefs, StepLock
<1>5. CASE call[p].op = "create" /\ ilock(itable, t.i)[t.i].d.type \in {"file", "dev"}
  <2> DEFINE a == Step("opened", t.i, 0, ".")
  <2>1. ilk' = Lock(p, {t.i}) /\ Free(t.i) /\ Return(p, <<a>>)
    BY <1>2, <1>5, GoIs DEF Exists
  <2>2. Follows(p, a) /\ StepLock(a) = {t.i} /\ a.i = t.i /\ a.j = 0
    BY <1>2, iputIs, StepFollows DEF Fits
  <2>3. OneFor(t, a) /\ Holds(p, {t.i})
    BY <1>2, <1>3, <1>4, <2>1, <2>2, LockIs DEF OneFor, Ref1
  <2> QED
    BY <1>1, <1>3, <2>1, <2>2, <2>3, OneFollows
<1>6. CASE ~(call[p].op = "create" /\ ilock(itable, t.i)[t.i].d.type \in {"file", "dev"})
  <2>1. ilk' = ilk /\ Return(p, <<iput(t.i)>>)
    BY <1>2, <1>6, GoIs DEF Exists
  <2>2. Follows(p, iput(t.i)) /\ StepLock(iput(t.i)) = {} /\ iput(t.i).i = t.i /\ iput(t.i).j = 0
    BY <1>2, PutFollows
  <2>3. OneFor(t, iput(t.i)) /\ Holds(p, {})
    BY <1>2, <1>3, <1>4, <2>1, <2>2, LockIs DEF OneFor, Ref1
  <2> QED
    BY <1>1, <1>3, <2>1, <2>2, <2>3, OneFollows
<1> QED
  BY <1>5, <1>6

LEMMA UnlinkMoves ==
  ASSUME RefInv, NEW p \in Procs, Unlink(p)
  PROVE  Moved(p)
<1> DEFINE t == Now(p)
<1>1. Sole(p) /\ t.op = "unlink"
  BY DEF Unlink, At, Now, Sole
<1>2. /\ Tail(todo[p]) = <<>> /\ t \in Todo /\ t.i \in Inums /\ t.j \in {0} \cup Inums
      /\ (t.j # 0 <=> TwoRefs(t)) /\ (t.op # "namex" => t.name \in DirNames)
      /\ Linking(t) => LinkCall(p)
      /\ \A i \in Inums : ilk[i] = p <=> i \in StepLock(t)
  BY <1>1, SoleIs
<1>3. UNCHANGED procs /\ t.j = 0 /\ StepLock(t) = {}
  BY <1>1, <1>2 DEF Unlink, TwoRefs, StepLock
<1> DEFINE i == dirlookup(t.i, t.name)
<1>4. i \in {0} \cup Inums
  BY <1>1, <1>2 DEF RefInv, Types0, OnDiskTypes, dirlookup
<1>5. CASE t.name \in {".", ".."} \/ i = 0
  <2>1. ilk' = ilk /\ Return(p, <<iput(t.i)>>) /\ Keeps(itable')
    BY <1>2, <1>5, GoIs, Written DEF Unlink
  <2>2. Follows(p, iput(t.i)) /\ StepLock(iput(t.i)) = {} /\ iput(t.i).i = t.i /\ iput(t.i).j = 0
    BY <1>2, PutFollows
  <2>3. OneFor(t, iput(t.i)) /\ Holds(p, {})
    BY <1>2, <1>3, <2>1, <2>2, LockIs DEF OneFor, Ref1
  <2> QED
    BY <1>1, <1>3, <2>1, <2>2, <2>3, OneFollows
<1>6. CASE ~(t.name \in {".", ".."} \/ i = 0)
  <2> DEFINE a == Step("unlink2", i, t.i, t.name)
  <2>1. ilk' = Lock(p, {t.i}) /\ Free(t.i) /\ Return(p, <<a>>) /\ Takes(itable', i)
    BY <1>2, <1>4, <1>6, GoIs, LockedAndGot DEF Unlink
  <2>2. Follows(p, a) /\ StepLock(a) = {t.i} /\ a.i = i /\ a.j = t.i
    <3>1. t.i \in Inums /\ i \in Inums /\ t.name \in DirNames
      BY <1>1, <1>2, <1>4, <1>6
    <3> HIDE DEF i, t
    <3> QED
      BY <3>1, StepFollows DEF Fits
  <2>3. OneFor(t, a)
    <3>1. \A k \in Inums : Ref1(a, k) = Ref1(t, k) + Bit(i = k)
      BY <1>2, <1>3, <2>2 DEF Ref1, Bit, Inums
    <3> QED
      BY <2>1, <3>1 DEF OneFor
  <2>4. Holds(p, {t.i})
    BY <1>2, <1>3, <2>1, LockIs
  <2> QED
    BY <1>1, <1>3, <2>1, <2>2, <2>3, <2>4, OneFollows
<1> QED
  BY <1>5, <1>6

\* p gives up the lock of j and has that of i, which was free.
LEMMA SwapIs ==
  ASSUME RefInv, NEW p \in Procs, NEW i \in Inums, NEW j \in Inums,
         \A k \in Inums : ilk[k] = p <=> k = j
  PROVE  /\ Free(i) => i # j
         /\ Free(i) /\ ilk' = [ilk EXCEPT ![j] = NoProc, ![i] = p] => Holds(p, {i})
BY FsConstants DEF Free, Holds, RefInv, Types0, InMemoryTypes

\* The steps a call leaves, all together.
Put(p, s, i) == s \in Todo /\ s.op = "iput" /\ Fits(p, s, i, 0, {})
LEMMA ValuesAre ==
  ASSUME NEW p, NEW i \in Inums
  PROVE  /\ Put(p, iput(i), i) /\ Fits(p, iput(i), i, 0, {}) /\ iput(i).op = "iput"
         /\ \A op \in {"opened", "iunlockput", "unlink3"} :
              Fits(p, Step(op, i, 0, "."), i, 0, {i}) /\ Step(op, i, 0, ".").op = op
         /\ \A op \in {"exists", "linkbad", "create", "open", "unlink", "chdir"} :
              Fits(p, Step(op, i, 0, "."), i, 0, {}) /\ Step(op, i, 0, ".").op = op
<1>1. Put(p, iput(i), i) /\ Fits(p, iput(i), i, 0, {}) /\ iput(i).op = "iput"
  BY iputIs DEF Put, Fits, Follows
<1>2. "." \in DirNames
  BY DEF DirNames
<1>3. /\ \A op \in {"opened", "iunlockput", "unlink3"} : Fits(p, Step(op, i, 0, "."), i, 0, {i})
      /\ \A op \in {"exists", "linkbad", "create", "open", "unlink", "chdir"} :
           Fits(p, Step(op, i, 0, "."), i, 0, {})
  BY <1>2, StepFollows
<1>4. \A op : Step(op, i, 0, ".").op = op
  BY DEF Step
<1> QED
  BY <1>1, <1>3, <1>4

LEMMA Unlink2Moves ==
  ASSUME RefInv, NEW p \in Procs, Unlink2(p)
  PROVE  Moved(p)
<1> DEFINE t == Now(p)
<1>1. Sole(p) /\ t.op = "unlink2"
  BY DEF Unlink2, At, Now, Sole
<1>2. /\ Tail(todo[p]) = <<>> /\ t \in Todo /\ t.i \in Inums /\ t.j \in {0} \cup Inums
      /\ (t.j # 0 <=> TwoRefs(t)) /\ (t.op # "namex" => t.name \in DirNames)
      /\ Linking(t) => LinkCall(p)
      /\ \A i \in Inums : ilk[i] = p <=> i \in StepLock(t)
  BY <1>1, SoleIs
<1>3. UNCHANGED procs /\ t.j \in Inums /\ StepLock(t) = {t.j} /\ Free(t.i)
  BY <1>1, <1>2 DEF Unlink2, TwoRefs, StepLock
<1> DEFINE T == ilock(itable, t.i)
           gone == T[t.i].d.type = "dir" /\ ~isdirempty(t.i)
           a == IF gone THEN iput(t.i) ELSE iput(t.j)
           b == IF gone THEN Step("iunlockput", t.j, 0, ".") ELSE Step("unlink3", t.i, 0, ".")
<1>4. Keeps(itable') /\ Return(p, <<a, b>>)
  <2>1. CASE gone
    BY <1>2, <1>3, <2>1, Written, GoIs DEF Unlink2
  <2>2. CASE ~gone
    <3>1. \E d : iupdate(T, t.j, d)
      BY <2>2 DEF Unlink2
    <3>2. Go(p, <<a, b>>)
      BY <2>2 DEF Unlink2
    <3> QED
      BY <1>2, <1>3, <3>1, <3>2, Written, GoIs
  <2> QED
    BY <2>1, <2>2
<1>5. Holds(p, StepLock(b)) /\ Follows(p, b) /\ b.op \in Ends
      /\ {a.i, b.i} = {t.i, t.j} /\ a.i # b.i /\ b.j = 0 /\ a \in Todo /\ a.op = "iput"
  <2>0. t.i # t.j
    BY <1>2, <1>3, SwapIs
  <2>1. CASE gone
    <3>1. ilk' = ilk
      BY <2>1 DEF Unlink2
    <3>2. Holds(p, {t.j})
      BY <1>2, <1>3, <3>1, LockIs
    <3>3. Put(p, a, t.i) /\ Fits(p, b, t.j, 0, {t.j}) /\ b.op = "iunlockput"
      BY <1>2, <1>3, <2>1, ValuesAre
    <3> HIDE DEF a, b, t
    <3> QED
      BY <2>0, <3>2, <3>3 DEF Put, Fits, Ends
  <2>2. CASE ~gone
    <3>1. ilk' = [ilk EXCEPT ![t.j] = NoProc, ![t.i] = p]
      BY <2>2 DEF Unlink2
    <3>2. Holds(p, {t.i})
      BY <1>2, <1>3, <3>1, SwapIs
    <3>3. Put(p, a, t.j) /\ Fits(p, b, t.i, 0, {t.i}) /\ b.op = "unlink3"
      BY <1>2, <1>3, <2>2, ValuesAre
    <3> HIDE DEF a, b, t
    <3> QED
      BY <2>0, <3>2, <3>3 DEF Put, Fits, Ends
  <2> QED
    BY <2>1, <2>2
<1> HIDE DEF a, b
<1>6. TwoFor(t, a, b)
  <2>1. \A k \in Inums : Ref2(a, b, k) = Ref1(t, k)
    BY <1>5 DEF Ref2, Ref1, Bit, Inums
  <2> QED
    BY <1>4, <2>1 DEF TwoFor
<1> QED
  BY <1>1, <1>3, <1>4, <1>5, <1>6, TwoFollow

LEMMA Link2Moves ==
  ASSUME RefInv, NEW p \in Procs, Link2(p)
  PROVE  Moved(p)
<1> DEFINE t == Now(p)
<1>1. Sole(p) /\ t.op = "link2"
  BY DEF Link2, At, Now, Sole
<1>2. /\ Tail(todo[p]) = <<>> /\ t \in Todo /\ t.i \in Inums /\ t.j \in {0} \cup Inums
      /\ (t.j # 0 <=> TwoRefs(t)) /\ (t.op # "namex" => t.name \in DirNames)
      /\ Linking(t) => LinkCall(p)
      /\ \A i \in Inums : ilk[i] = p <=> i \in StepLock(t)
  BY <1>1, SoleIs
<1>3. UNCHANGED procs /\ t.j \in Inums /\ StepLock(t) = {} /\ Keeps(itable') /\ ilk' = ilk
  BY <1>1, <1>2, Written DEF Link2, TwoRefs, StepLock
<1> DEFINE a == iput(t.i)
           b == IF dirlookup(t.i, t.name) # 0 THEN Step("linkbad", t.j, 0, ".") ELSE iput(t.j)
<1>4. Return(p, <<a, b>>)
  <2>1. CASE dirlookup(t.i, t.name) # 0
    BY <1>2, <2>1, GoIs DEF Link2
  <2>2. CASE dirlookup(t.i, t.name) = 0
    BY <1>2, <2>2, GoIs DEF Link2
  <2> QED
    BY <2>1, <2>2
<1>5. /\ Follows(p, b) /\ b.op \in Ends /\ StepLock(b) = {}
      /\ a.i = t.i /\ b.i = t.j /\ b.j = 0 /\ a \in Todo /\ a.op = "iput"
  <2>1. Put(p, a, t.i)
    BY <1>2, ValuesAre
  <2>2. Fits(p, b, t.j, 0, {}) /\ b.op \in {"linkbad", "iput"}
    BY <1>2, <1>3, ValuesAre
  <2> HIDE DEF a, b, t
  <2> QED
    BY <2>1, <2>2 DEF Put, Fits, Ends
<1> HIDE DEF a, b
<1>6. TwoFor(t, a, b) /\ Holds(p, {})
  <2>1. \A k \in Inums : Ref2(a, b, k) = Ref1(t, k)
    BY <1>5 DEF Ref2, Ref1, Bit, Inums
  <2> QED
    BY <1>2, <1>3, <2>1, LockIs DEF TwoFor
<1> QED
  BY <1>1, <1>3, <1>4, <1>5, <1>6, TwoFollow

\* namex() along the path of a call.
WalkFits(p, s, i, j) == /\ s \in Todo /\ Proper(s) /\ StepLock(s) = {} /\ s.i = i /\ s.j = j
                        /\ s.op = "namex"
LEMMA WalkIs ==
  ASSUME NEW p, NEW i \in Inums, NEW path \in Seq(DirNames), NEW j \in Inums
  PROVE  /\ WalkFits(p, Walk(i, path, TRUE, "link2", j), i, j)
         /\ ~Linking(Walk(i, path, TRUE, "link2", j))
         /\ \A parent \in BOOLEAN, then \in Thens \ {"link2"} :
              /\ WalkFits(p, Walk(i, path, parent, then, 0), i, 0)
              /\ Linking(Walk(i, path, parent, then, 0)) <=> then = "link"
<1>1. j # 0 /\ j \in {0} \cup Inums /\ "link2" \in Thens
  BY DEF Inums, Thens
<1>2. /\ WalkFits(p, Walk(i, path, TRUE, "link2", j), i, j)
      /\ ~Linking(Walk(i, path, TRUE, "link2", j))
  BY <1>1 DEF WalkFits, Walk, Todo, Walks, Proper, TwoRefs, StepLock, Starts, Ends, Linking
<1>3. ASSUME NEW parent \in BOOLEAN, NEW then \in Thens \ {"link2"}
      PROVE  /\ WalkFits(p, Walk(i, path, parent, then, 0), i, 0)
             /\ Linking(Walk(i, path, parent, then, 0)) <=> then = "link"
  BY DEF WalkFits, Walk, Todo, Walks, Proper, TwoRefs, StepLock, Starts, Ends, Linking
<1> QED
  BY <1>2, <1>3

LEMMA LinkMoves ==
  ASSUME RefInv, NEW p \in Procs, Link(p)
  PROVE  Moved(p)
<1> DEFINE t == Now(p)
<1>1. Sole(p) /\ t.op = "link"
  BY DEF Link, At, Now, Sole
<1>2. /\ Tail(todo[p]) = <<>> /\ t \in Todo /\ t.i \in Inums /\ t.j \in {0} \cup Inums
      /\ (t.j # 0 <=> TwoRefs(t)) /\ (t.op # "namex" => t.name \in DirNames)
      /\ Linking(t) => LinkCall(p)
      /\ \A i \in Inums : ilk[i] = p <=> i \in StepLock(t)
  BY <1>1, SoleIs
<1>3. UNCHANGED procs /\ t.j = 0 /\ StepLock(t) = {} /\ ilk' = ilk
  BY <1>1, <1>2 DEF Link, TwoRefs, StepLock
<1>4. Holds(p, {})
  BY <1>2, <1>3, LockIs
<1> DEFINE T == ilock(itable, t.i)
           path == call[p].new
           start == Start(p, path)
<1>5. CASE T[t.i].d.type = "dir"
  <2>1. Keeps(itable') /\ Return(p, <<iput(t.i)>>)
    BY <1>2, <1>5, Written, GoIs DEF Link
  <2>2. Follows(p, iput(t.i)) /\ StepLock(iput(t.i)) = {} /\ iput(t.i).i = t.i /\ iput(t.i).j = 0
    BY <1>2, PutFollows
  <2>3. OneFor(t, iput(t.i))
    BY <1>3, <2>1, <2>2 DEF OneFor, Ref1
  <2> QED
    BY <1>1, <1>3, <1>4, <2>1, <2>2, <2>3, OneFollows
<1>6. CASE T[t.i].d.type # "dir"
  <2> DEFINE s == Walk(start, path.elems, TRUE, "link2", t.i)
  <2>1. path \in Path /\ start \in Inums
    <3>1. call[p] \in Calls[p] /\ call[p].op = "link"
      BY <1>1, <1>2 DEF Linking, LinkCall
    <3>2. path \in Path
      BY <3>1, SysCalls
    <3>3. ROOTINO \in Inums /\ cwd[p] \in Inums
      BY FsConstants DEF ROOTINO, Inums, RefInv, Types0, ProcTypes
    <3> QED
      BY <3>2, <3>3 DEF Start
  <2>2. s \in Todo /\ Proper(s) /\ StepLock(s) = {} /\ s.i = start /\ s.j = t.i /\ ~Linking(s)
    <3>1. path.elems \in Seq(DirNames) /\ "link2" \in Thens /\ t.i # 0
      BY <1>2, <2>1 DEF Path, Thens, Inums
    <3> DEFINE es == path.elems
    <3>2. es \in Seq(DirNames)
      BY <3>1
    <3> HIDE DEF t, start, path, es
    <3>3. start \in Inums /\ t.i \in Inums
      BY <1>2, <2>1
    <3>4. /\ WalkFits(p, Walk(start, es, TRUE, "link2", t.i), start, t.i)
          /\ ~Linking(Walk(start, es, TRUE, "link2", t.i))
      BY <3>2, <3>3, WalkIs
    <3>5. WalkFits(p, s, start, t.i) /\ ~Linking(s)
      BY <3>4 DEF es
    <3> QED
      BY <3>5 DEF WalkFits
  <2>3. Takes(itable', start)
    <3>1. iget(T, start) \in Table /\ Takes(iget(T, start), start)
      BY <1>2, <2>1, LockedAndGot
    <3>2. \E d : iupdate(iget(T, start), t.i, d)
      BY <1>6 DEF Link
    <3> QED
      <4> DEFINE U == iget(T, start)
      <4>1. U \in Table /\ Takes(U, start)
        BY <3>1
      <4>2. PICK d : itable' = [U EXCEPT ![t.i].d = d]
        BY <3>2 DEF iupdate
      <4> HIDE DEF U, t, start
      <4> QED
        BY <1>2, <4>1, <4>2, UpdatedIs
  <2>4. Return(p, <<s>>)
    BY <1>2, <1>6, GoIs DEF Link
  <2>5. OneFor(t, s)
    <3>1. \A k \in Inums : Ref1(s, k) = Ref1(t, k) + Bit(start = k)
      <4> HIDE DEF s, t, start
      <4> QED
        BY <1>3, <2>2 DEF Ref1, Bit, Inums
    <3> QED
      BY <2>3, <3>1 DEF OneFor
  <2> QED
    BY <1>1, <1>3, <1>4, <2>2, <2>4, <2>5, OneFollows DEF Follows
<1> QED
  BY <1>5, <1>6

\* namex() finds nothing: the inode is put, and link() has one step more.
LEMMA MissedMoves ==
  ASSUME RefInv, NEW p \in Procs, Sole(p), Now(p).op = "namex", Keeps(itable'), ilk' = ilk,
         UNCHANGED procs, Return(p, <<iput(Now(p).i)>> \o NotFound(Now(p)))
  PROVE  Moved(p)
<1> DEFINE t == Now(p)
<1>2. /\ t \in Todo /\ t.i \in Inums /\ t.j \in {0} \cup Inums /\ (t.j # 0 <=> TwoRefs(t))
      /\ \A i \in Inums : ilk[i] = p <=> i \in StepLock(t)
  BY SoleIs
<1>3. StepLock(t) = {} /\ Holds(p, {})
  <2>1. StepLock(t) = {}
    BY DEF StepLock
  <2> QED
    BY <1>2, <2>1, LockIs
<1>4. (t.j # 0 <=> t.then = "link2") /\ (t.then = "link2" => t.j \in Inums)
  BY <1>2 DEF TwoRefs, Inums
<1>5. Put(p, iput(t.i), t.i)
  BY <1>2, ValuesAre
<1>6. CASE t.then = "link2"
  <2> DEFINE a == iput(t.i)
             b == Step("linkbad", t.j, 0, ".")
  <2>1. Return(p, <<a, b>>)
    <3>1. <<a>> \o <<b>> = <<a, b>>
      <4>1. a \in {a, b} /\ b \in {a, b}
        OBVIOUS
      <4> QED
        BY <4>1, TwoAre
    <3> QED
      BY <1>6, <3>1 DEF NotFound
  <2>2. Fits(p, b, t.j, 0, {}) /\ b.op = "linkbad"
    BY <1>4, <1>6, ValuesAre
  <2> HIDE DEF a, b
  <2>3. TwoFor(t, a, b)
    <3>1. \A k \in Inums : Ref2(a, b, k) = Ref1(t, k)
      BY <1>5, <2>2 DEF Ref2, Ref1, Bit, Inums, Put, Fits, a
    <3> QED
      BY <3>1 DEF TwoFor
  <2> QED
    BY <1>3, <1>5, <2>1, <2>2, <2>3, TwoFollow DEF Put, Fits, Ends, a
<1>7. CASE t.then # "link2"
  <2> DEFINE a == iput(t.i)
  <2>1. Return(p, <<a>>)
    <3>1. <<a>> \o <<>> = <<a>>
      BY OneIs
    <3> QED
      BY <1>7, <3>1 DEF NotFound
  <2> HIDE DEF a
  <2>2. OneFor(t, a)
    <3>1. \A k \in Inums : Ref1(a, k) = Ref1(t, k)
      BY <1>4, <1>5, <1>7 DEF Ref1, Put, Fits, a
    <3> QED
      BY <3>1 DEF OneFor
  <2> QED
    BY <1>3, <1>5, <2>1, <2>2, OneFollows DEF Put, Fits, a
<1> QED
  BY <1>6, <1>7

\* namex() is at its end, and the call goes on with what it has found.
LEMMA FoundMoves ==
  ASSUME RefInv, NEW p \in Procs, Sole(p), Now(p).op = "namex", Keeps(itable'), ilk' = ilk,
         UNCHANGED procs, NEW n \in DirNames, Go(p, <<Step(Now(p).then, Now(p).i, Now(p).j, n)>>)
  PROVE  Moved(p)
<1> DEFINE t == Now(p)
           a == Step(t.then, t.i, t.j, n)
<1>2. /\ Tail(todo[p]) = <<>> /\ t \in Todo /\ t.i \in Inums /\ t.j \in {0} \cup Inums
      /\ (t.j # 0 <=> TwoRefs(t)) /\ (Linking(t) => LinkCall(p))
      /\ \A i \in Inums : ilk[i] = p <=> i \in StepLock(t)
  BY SoleIs
<1>3. StepLock(t) = {} /\ Holds(p, {})
  <2>1. StepLock(t) = {}
    BY DEF StepLock
  <2> QED
    BY <1>2, <2>1, LockIs
<1>4. Return(p, <<a>>)
  BY <1>2, GoIs
<1>5. t.then \in Thens /\ (t.j # 0 <=> t.then = "link2") /\ (t.then = "link" => LinkCall(p))
  BY <1>2 DEF TwoRefs, Linking, Todo, Walks, Steps, Thens, Ops
<1>6. Follows(p, a) /\ StepLock(a) = {} /\ a.i = t.i /\ a.j = t.j
  <2> HIDE DEF t
  <2>1. a \in Todo /\ a.op = t.then /\ a.i = t.i /\ a.j = t.j
    BY <1>2, <1>5 DEF Todo, Steps, Step, Ops
  <2> HIDE DEF a
  <2>2. Proper(a) /\ StepLock(a) = {} /\ (Linking(a) => LinkCall(p))
    BY <1>5, <2>1 DEF Proper, TwoRefs, Starts, Ends, StepLock, Linking, Thens
  <2> QED
    BY <2>1, <2>2 DEF Follows
<1> HIDE DEF a
<1>7. OneFor(t, a)
  BY <1>6 DEF OneFor, Ref1
<1> QED
  BY <1>3, <1>4, <1>6, <1>7, OneFollows

LEMMA NamexEndMoves ==
  ASSUME RefInv, NEW p \in Procs, NamexEnd(p)
  PROVE  Moved(p)
<1>1. Sole(p) /\ Now(p).op = "namex" /\ ilk' = ilk /\ UNCHANGED procs /\ itable' = itable
  BY DEF NamexEnd, At, Now, Sole
<1>2. Keeps(itable') /\ "." \in DirNames
  BY <1>1 DEF Keeps, DirNames
<1>3. CASE Now(p).parent
  BY <1>1, <1>2, <1>3, MissedMoves DEF NamexEnd
<1>4. CASE ~Now(p).parent
  <2>1. Go(p, <<Step(Now(p).then, Now(p).i, Now(p).j, ".")>>)
    BY <1>4 DEF NamexEnd
  <2> QED
    BY <1>1, <1>2, <2>1, FoundMoves
<1> QED
  BY <1>3, <1>4

LEMMA NamexStepMoves ==
  ASSUME RefInv, NEW p \in Procs, NamexStep(p)
  PROVE  Moved(p)
<1> DEFINE t == Now(p)
           T == ilock(itable, t.i)
           last == t.parent /\ Len(t.path) = 1
           next == dirlookup(t.i, Head(t.path))
<1>1. Sole(p) /\ t.op = "namex" /\ t.path # <<>> /\ UNCHANGED procs /\ ilk' = ilk
  BY DEF NamexStep, At, Now, Sole
<1>2. /\ Tail(todo[p]) = <<>> /\ t \in Todo /\ t.i \in Inums /\ t.j \in {0} \cup Inums
      /\ (t.j # 0 <=> TwoRefs(t)) /\ (Linking(t) => LinkCall(p))
      /\ \A i \in Inums : ilk[i] = p <=> i \in StepLock(t)
  BY <1>1, SoleIs
<1>3. t \in Walks /\ Head(t.path) \in DirNames /\ Tail(t.path) \in Seq(DirNames)
  <2>1. t \in Walks
    BY <1>1, <1>2 DEF Todo, Steps, Ops, Thens
  <2>2. t.path \in Seq(DirNames)
    BY <2>1 DEF Walks
  <2> DEFINE w == t.path
  <2>3. w \in Seq(DirNames) /\ w # <<>>
    BY <1>1, <2>2
  <2> HIDE DEF w
  <2>4. Head(w) \in DirNames /\ Tail(w) \in Seq(DirNames)
    BY <2>3
  <2> QED
    BY <2>1, <2>4 DEF w
<1>4. CASE T[t.i].d.type # "dir" \/ (~last /\ next = 0)
  <2>1. itable' = T /\ Return(p, <<iput(t.i)>> \o NotFound(t))
    BY <1>4 DEF NamexStep
  <2>2. Keeps(itable')
    BY <1>2, <2>1, Written
  <2> QED
    BY <1>1, <2>1, <2>2, MissedMoves
<1>5. CASE T[t.i].d.type = "dir" /\ last
  <2>1. itable' = T /\ Go(p, <<Step(t.then, t.i, t.j, Head(t.path))>>)
    BY <1>5 DEF NamexStep
  <2>2. Keeps(itable')
    BY <1>2, <2>1, Written
  <2> QED
    BY <1>1, <1>3, <2>1, <2>2, FoundMoves
<1>6. CASE T[t.i].d.type = "dir" /\ ~last /\ next # 0
  <2> DEFINE a == iput(t.i)
             b == [t EXCEPT !.i = next, !.path = Tail(@)]
  <2>1. itable' = iget(T, next) /\ Return(p, <<a, b>>)
    <3>1. itable' = iget(T, next) /\ Go(p, <<a, b>>)
      BY <1>6 DEF NamexStep
    <3> QED
      BY <1>2, <3>1, GoIs
  <2>2. next \in Inums
    BY <1>2, <1>3, <1>6 DEF RefInv, Types0, OnDiskTypes, dirlookup
  <2>3. Takes(itable', next)
    BY <1>2, <2>1, <2>2, LockedAndGot
  <2>4. b \in Walks /\ b.i = next /\ b.j = t.j /\ b.then = t.then /\ b.op = "namex"
    <3> HIDE DEF t, next
    <3> QED
      BY <1>3, <2>2 DEF Walks
  <2>5. Put(p, a, t.i)
    BY <1>2, ValuesAre
  <2> HIDE DEF a, b
  <2>6. Follows(p, b) /\ b.op \in Ends /\ StepLock(b) = {}
    <3>1. Proper(b)
      BY <1>1, <1>2, <2>4 DEF Proper, TwoRefs, Starts, Ends, Walks
    <3>2. Linking(b) => Linking(t)
      BY <1>1, <2>4 DEF Linking
    <3> QED
      BY <1>2, <2>4, <3>1, <3>2 DEF Follows, Todo, Ends, StepLock
  <2>7. TwoFor(t, a, b)
    <3>1. \A k \in Inums : Ref2(a, b, k) = Ref1(t, k) + Bit(next = k)
      <4> HIDE DEF next, t
      <4> QED
        BY <2>4, <2>5 DEF Ref2, Ref1, Bit, Put, Fits
    <3> QED
      BY <2>3, <3>1 DEF TwoFor
  <2>8. Holds(p, {})
    <3>1. StepLock(t) = {}
      BY <1>1 DEF StepLock
    <3> QED
      BY <1>1, <1>2, <3>1, LockIs
  <2> QED
    BY <1>1, <2>1, <2>5, <2>6, <2>7, <2>8, TwoFollow DEF Put
<1> QED
  BY <1>4, <1>5, <1>6 DEF NamexStep

\* The current directory becomes the inode, and the old one is put; or the inode is.
LEMMA ChdirMoves ==
  ASSUME RefInv, NEW p \in Procs, Chdir(p)
  PROVE  Moved(p)
<1> DEFINE t == Now(p)
<1>1. Sole(p) /\ t.op = "chdir"
  BY DEF Chdir, At, Now, Sole
<1>2. /\ Tail(todo[p]) = <<>> /\ t \in Todo /\ t.i \in Inums /\ t.j \in {0} \cup Inums
      /\ (t.j # 0 <=> TwoRefs(t)) /\ (t.op # "namex" => t.name \in DirNames)
      /\ Linking(t) => LinkCall(p)
      /\ \A i \in Inums : ilk[i] = p <=> i \in StepLock(t)
  BY <1>1, SoleIs
<1> DEFINE T == ilock(itable, t.i)
           isdir == T[t.i].d.type = "dir"
           k == IF isdir THEN cwd[p] ELSE t.i
           c == IF isdir THEN t.i ELSE cwd[p]
           a == iput(k)
           r == <<a>>
<1>3. t.j = 0 /\ StepLock(t) = {} /\ ilk' = ilk /\ file' = file /\ Keeps(itable')
  BY <1>1, <1>2, Written DEF Chdir, TwoRefs, StepLock
<1>4. Holds(p, {})
  BY <1>2, <1>3, LockIs
<1>5. cwd \in [Procs -> Inums] /\ cwd[p] \in Inums
  BY DEF RefInv, Types0, ProcTypes
<1>6. Return(p, r)
  BY <1>2, GoIs DEF Chdir
<1>7. /\ a \in Todo /\ Proper(a) /\ ~Linking(a) /\ StepLock(a) = {} /\ a.j = 0
      /\ a.i = k
  <2>1. k \in Inums
    BY <1>2, <1>5
  <2> HIDE DEF k
  <2> QED
    BY <2>1, ValuesAre DEF Put, Fits, Follows
<1> HIDE DEF a
<1>8. /\ r \in Seq(Todo) /\ r # <<>> /\ Formed(r) /\ PutLock(r) = {} /\ MainLock(r) = {}
      /\ \A i \in Inums : Refs(r, i) = Ref1(a, i)
      /\ Main(r) = a
  BY <1>7, OneLeft DEF Ref1
<1> HIDE DEF r
<1>9. /\ todo'[p] = r /\ \A q \in Procs \ {p} : todo'[q] = todo[q] /\ call'[q] = call[q]
      /\ call'[p] = call[p]
  BY <1>6, <1>8, ReturnIs DEF RefInv
<1>10. cwd' = [cwd EXCEPT ![p] = c]
  BY <1>5 DEF Chdir
<1>11. Others(p)
  BY <1>3, <1>5, <1>9, <1>10 DEF Others
<1>12. Suits(p, r)
  <2> SUFFICES ASSUME NEW i \in Inums
               PROVE  Worth(p, i)' + Refs(r, i) - Worth(p, i) - Refs(todo[p], i) = 0
                      /\ itable'[i].ref = itable[i].ref + 0
    BY DEF Suits
  <2>1. itable'[i].ref = itable[i].ref + 0
    BY <1>3, RefsAreNumbers DEF Keeps, RefInv
  <2>2. Refs(todo[p], i) = Bit(t.i = i)
    BY <1>1, <1>3, SoleIs DEF Ref1, Bit, Inums
  <2>3. Refs(r, i) = Bit(k = i)
    BY <1>7, <1>8 DEF Ref1, Bit, Inums
  <2>4. cwd'[p] = c /\ file'[p].ip = file[p].ip
    BY <1>3, <1>5, <1>10
  <2>5. Worth(p, i)' = Bit(c = i) + Bit(file[p].ip = i)
    BY <2>4 DEF Worth, Bit
  <2>6. Bit(c = i) + Bit(k = i) = Bit(cwd[p] = i) + Bit(t.i = i)
    BY DEF Bit
  <2>7. Worth(p, i) = Bit(cwd[p] = i) + Bit(file[p].ip = i)
    BY DEF Worth
  <2> HIDE DEF t, k, c
  <2>8. /\ Bit(c = i) \in Int /\ Bit(k = i) \in Int /\ Bit(cwd[p] = i) \in Int
        /\ Bit(t.i = i) \in Int /\ Bit(file[p].ip = i) \in Int
    BY DEF Bit
  <2> QED
    BY <2>1, <2>2, <2>3, <2>5, <2>6, <2>7, <2>8
<1> QED
  BY <1>2, <1>4, <1>7, <1>8, <1>9, <1>11, <1>12, MovedWith

LEMMA OpenedMoves ==
  ASSUME RefInv, NEW p \in Procs, Opened(p)
  PROVE  Moved(p)
<1> DEFINE t == Now(p)
<1>1. Sole(p) /\ t.op = "opened"
  BY DEF Opened, At, Now, Sole
<1>2. /\ Tail(todo[p]) = <<>> /\ t \in Todo /\ t.i \in Inums /\ t.j \in {0} \cup Inums
      /\ (t.j # 0 <=> TwoRefs(t))
      /\ \A i \in Inums : ilk[i] = p <=> i \in StepLock(t)
      /\ \A i \in Inums : Refs(todo[p], i) = Ref1(t, i)
  BY <1>1, SoleIs
<1>3. t.j = 0 /\ StepLock(t) = {t.i} /\ cwd' = cwd
  BY <1>1, <1>2 DEF Opened, TwoRefs, StepLock
<1>4. Holds(p, {})
  BY <1>2, <1>3, LockIs DEF Opened
<1>5. Keeps(itable')
  <2>1. \/ itable' = itable
        \/ \E d : iupdate(itable, t.i, d)
    BY DEF Opened, itrunc
  <2> QED
    BY <1>2, <2>1, Written
<1>6. CASE file[p].ip # 0
  <2>1. Return(p, <<iput(t.i)>>) /\ UNCHANGED procs
    BY <1>2, <1>3, <1>6, GoIs DEF Opened, procs
  <2>2. Put(p, iput(t.i), t.i)
    BY <1>2, ValuesAre
  <2>3. OneFor(t, iput(t.i))
    BY <1>3, <1>5, <2>2 DEF OneFor, Ref1, Put, Fits
  <2> QED
    BY <1>1, <1>4, <2>1, <2>2, <2>3, OneFollows DEF Put, Fits
<1>7. CASE file[p].ip = 0
  <2> DEFINE f == [ip |-> t.i, off |-> 0, writable |-> call[p].mode # "rd"]
  <2>1. Return(p, <<>>) /\ file' = [file EXCEPT ![p] = f]
    <3>1. Go(p, <<>>) /\ file' = [file EXCEPT ![p] = f]
      BY <1>7 DEF Opened
    <3> QED
      BY <1>2, <3>1, GoIs
  <2>2. file'[p].ip = t.i /\ \A q \in Procs \ {p} : file'[q].ip = file[q].ip
    BY <2>1 DEF RefInv, Types0, ProcTypes
  <2>3. todo'[p] = <<>> /\ \A q \in Procs \ {p} : todo'[q] = todo[q] /\ call'[q] = call[q]
    BY <2>1, ReturnIs DEF RefInv
  <2>4. Others(p)
    BY <1>3, <2>2, <2>3 DEF Others
  <2>5. Suits(p, <<>>)
    <3> SUFFICES ASSUME NEW i \in Inums
                 PROVE  Worth(p, i)' + Refs(<<>>, i) - Worth(p, i) - Refs(todo[p], i) = 0
                        /\ itable'[i].ref = itable[i].ref + 0
      BY DEF Suits
    <3>1. itable'[i].ref = itable[i].ref + 0
      BY <1>5, RefsAreNumbers DEF Keeps, RefInv
    <3>2. Refs(todo[p], i) = Bit(t.i = i) /\ Refs(<<>>, i) = 0
      BY <1>2, <1>3, Done DEF Ref1, Bit, Inums
    <3>3. Worth(p, i)' = Bit(cwd[p] = i) + Bit(t.i = i)
      BY <1>3, <2>2 DEF Worth, Bit
    <3>4. Worth(p, i) = Bit(cwd[p] = i) + 0
      BY <1>7 DEF Worth, Bit, Inums
    <3> HIDE DEF t
    <3> QED
      BY <3>1, <3>2, <3>3, <3>4 DEF Bit
  <2> QED
    BY <1>4, <2>3, <2>4, <2>5, Done, MovedWith
<1> QED
  BY <1>6, <1>7

LEMMA CloseMoves ==
  ASSUME RefInv, NEW p \in Procs, Close(p)
  PROVE  Moved(p)
<1> DEFINE k == file[p].ip
           a == iput(k)
           r == <<a>>
<1>1. k \in Inums /\ itable' = itable /\ ilk' = ilk /\ cwd' = cwd /\ call' = call
  BY DEF Close, RefInv, Types0, ProcTypes
<1>2. /\ todo'[p] = r /\ \A q \in Procs \ {p} : todo'[q] = todo[q]
      /\ file'[p].ip = 0 /\ \A q \in Procs \ {p} : file'[q].ip = file[q].ip
  BY DEF Close, RefInv, Types0, ProcTypes, NoFile
<1>3. (\A i \in Inums : Refs(todo[p], i) = 0) /\ \A i \in Inums : ilk[i] # p
  BY StartIs DEF Close
<1>4. Put(p, a, k)
  BY <1>1, ValuesAre
<1> HIDE DEF a
<1>5. /\ r \in Seq(Todo) /\ r # <<>> /\ Formed(r) /\ PutLock(r) = {} /\ MainLock(r) = {}
      /\ \A i \in Inums : Refs(r, i) = Ref1(a, i)
      /\ Main(r) = a
  BY <1>4, OneLeft DEF Ref1, Put, Fits, Follows
<1> HIDE DEF r
<1>6. Holds(p, {})
  BY <1>1, <1>3 DEF Holds
<1>7. Others(p)
  BY <1>1, <1>2 DEF Others
<1>8. Suits(p, r)
  <2> SUFFICES ASSUME NEW i \in Inums
               PROVE  Worth(p, i)' + Refs(r, i) - Worth(p, i) - Refs(todo[p], i) = 0
                      /\ itable'[i].ref = itable[i].ref + 0
    BY DEF Suits
  <2>1. itable'[i].ref = itable[i].ref + 0
    BY <1>1, RefsAreNumbers DEF RefInv
  <2>2. Refs(todo[p], i) = 0 /\ Refs(r, i) = Bit(k = i)
    BY <1>3, <1>4, <1>5 DEF Ref1, Bit, Inums, Put, Fits
  <2>3. Worth(p, i)' = Bit(cwd[p] = i) + 0
    BY <1>1, <1>2 DEF Worth, Bit, Inums
  <2>4. Worth(p, i) = Bit(cwd[p] = i) + Bit(k = i)
    BY DEF Worth
  <2> HIDE DEF k
  <2> QED
    BY <2>1, <2>2, <2>3, <2>4 DEF Bit
<1> QED
  BY <1>1, <1>2, <1>4, <1>5, <1>6, <1>7, <1>8, MovedWith DEF Put, Fits

LEMMA BeginPathMoves ==
  ASSUME RefInv, NEW p \in Procs, NEW c \in Calls[p], BeginPath(p, c)
  PROVE  Moved(p)
<1> DEFINE k == Start(p, c.path)
           es == c.path.elems
           then == IF Creates(c.op) THEN "create" ELSE c.op
           parent == c.op \notin {"open", "link", "chdir"}
           a == Walk(k, es, parent, then, 0)
           r == <<a>>
<1>1. /\ todo[p] = <<>> /\ ilk' = ilk /\ cwd' = cwd /\ file' = file
      /\ call' = [call EXCEPT ![p] = c] /\ todo' = [todo EXCEPT ![p] = r]
      /\ itable' = iget(itable, k)
  BY DEF BeginPath
<1>2. /\ todo'[p] = r /\ \A q \in Procs \ {p} : todo'[q] = todo[q] /\ call'[q] = call[q]
      /\ call'[p] = c
  BY <1>1 DEF RefInv, Types0, ProcTypes
<1>3. /\ c.op \in {"create", "mkdir", "mknod", "open", "unlink", "link", "chdir"}
      /\ c.path \in Path
  BY SysCalls
<1>4. k \in Inums /\ es \in Seq(DirNames)
  <2>1. ROOTINO \in Inums /\ cwd[p] \in Inums
    BY FsConstants DEF ROOTINO, Inums, RefInv, Types0, ProcTypes
  <2> QED
    BY <1>3, <2>1 DEF Start, Path
<1>5. then \in Thens \ {"link2"} /\ (then = "link" => c.op = "link") /\ parent \in BOOLEAN
  BY <1>3 DEF Thens, Creates
<1>6. WalkFits(p, a, k, 0) /\ (Linking(a) => c.op = "link")
  <2> HIDE DEF k, es, then, parent
  <2>1. WalkFits(p, a, k, 0) /\ (Linking(a) <=> then = "link")
    BY <1>4, <1>5, WalkIs
  <2> QED
    BY <1>5, <2>1
<1> HIDE DEF a, k
<1>7. /\ r \in Seq(Todo) /\ r # <<>> /\ Formed(r) /\ PutLock(r) = {} /\ MainLock(r) = {}
      /\ \A i \in Inums : Refs(r, i) = Ref1(a, i)
      /\ Main(r) = a
  BY <1>6, OneLeft DEF Ref1, WalkFits
<1> HIDE DEF r
<1>8. (\A i \in Inums : Refs(todo[p], i) = 0) /\ \A i \in Inums : ilk[i] # p
  BY <1>1, StartIs
<1>9. Holds(p, {}) /\ Others(p)
  BY <1>1, <1>2, <1>8 DEF Holds, Others
<1>10. Suits(p, r)
  <2> SUFFICES ASSUME NEW i \in Inums
               PROVE  Worth(p, i)' + Refs(r, i) - Worth(p, i) - Refs(todo[p], i) = Bit(k = i)
                      /\ itable'[i].ref = itable[i].ref + Bit(k = i)
    BY DEF Suits, Bit
  <2>1. itable'[i].ref = itable[i].ref + Bit(k = i)
    BY <1>1, <1>4, Locked DEF Takes, Bit
  <2>2. Refs(todo[p], i) = 0 /\ Refs(r, i) = Bit(k = i)
    BY <1>6, <1>7, <1>8 DEF Ref1, Bit, Inums, WalkFits
  <2>3. Worth(p, i)' = Worth(p, i) /\ Worth(p, i) \in Int
    BY <1>1 DEF Worth, Bit
  <2> QED
    BY <2>1, <2>2, <2>3 DEF Bit
<1>11. LinkCall(p)' \/ ~Linking(a)
  BY <1>2, <1>6 DEF LinkCall
<1> QED
  BY <1>2, <1>7, <1>9, <1>10, <1>11, MovedWith

\* Reading and writing move no reference and keep no lock.
LEMMA IdleMoves ==
  ASSUME RefInv, NEW p \in Procs, todo[p] = <<>>, todo' = todo, call' = call, cwd' = cwd, ilk' = ilk,
         Keeps(itable'), \A q \in Procs : file'[q].ip = file[q].ip
  PROVE  Moved(p)
<1>1. (\A i \in Inums : Refs(todo[p], i) = 0) /\ \A i \in Inums : ilk[i] # p
  BY StartIs
<1>2. Holds(p, {}) /\ Others(p)
  BY <1>1 DEF Holds, Others
<1>3. Suits(p, <<>>)
  <2> SUFFICES ASSUME NEW i \in Inums
               PROVE  Worth(p, i)' + Refs(<<>>, i) - Worth(p, i) - Refs(todo[p], i) = 0
                      /\ itable'[i].ref = itable[i].ref + 0
    BY DEF Suits
  <2>1. itable'[i].ref = itable[i].ref + 0
    BY RefsAreNumbers DEF Keeps, RefInv
  <2>2. Refs(todo[p], i) = 0 /\ Refs(<<>>, i) = 0
    BY <1>1, Done
  <2>3. Worth(p, i)' = Worth(p, i) /\ Worth(p, i) \in Int
    BY DEF Worth, Bit
  <2> QED
    BY <2>1, <2>2, <2>3
<1> QED
  BY <1>2, <1>3, Done, MovedWith

LEMMA FilereadMoves ==
  ASSUME RefInv, NEW p \in Procs, Fileread(p)
  PROVE  Moved(p)
<1> DEFINE i == file[p].ip
<1>1. i \in Inums
  BY DEF Fileread, OnDisk, RefInv, Types0, ProcTypes
<1>2. Keeps(itable')
  BY <1>1, Written DEF Fileread
<1>3. \A q \in Procs : file'[q].ip = file[q].ip
  <2>1. PICK n : file' = [file EXCEPT ![p].off = n]
    BY DEF Fileread
  <2> QED
    BY <2>1 DEF RefInv, Types0, ProcTypes
<1> QED
  BY <1>2, <1>3, IdleMoves DEF Fileread

LEMMA FilewriteMoves ==
  ASSUME RefInv, NEW p \in Procs, Filewrite(p)
  PROVE  Moved(p)
<1> DEFINE i == file[p].ip
<1>1. i \in Inums
  BY DEF Filewrite, OnDisk, RefInv, Types0, ProcTypes
<1>2. Keeps(itable')
  <2>1. \E d : iupdate(ilock(itable, i), i, d)
    BY DEF Filewrite
  <2> QED
    BY <1>1, <2>1, Written
<1>3. \A q \in Procs : file'[q].ip = file[q].ip
  <2>1. PICK n : file' = [file EXCEPT ![p].off = n]
    BY DEF Filewrite
  <2> QED
    BY <2>1 DEF RefInv, Types0, ProcTypes
<1> QED
  BY <1>2, <1>3, IdleMoves DEF Filewrite

\* ialloc() and balloc(): the lowest of a set of numbers.
LEMMA LowestIs ==
  ASSUME NEW S, S \subseteq Nat
  PROVE  IF S = {} THEN Lowest(S) = 0 ELSE Lowest(S) \in S
<1>1. CASE S = {}
  BY <1>1 DEF Lowest
<1>2. CASE S # {}
  <2>1. PICK x \in S : \A y \in S : ~(<<y, x>> \in OpToRel(<, Nat))
    BY <1>2, NatLessThanWellFounded, WFMin
  <2>2. \A k, l \in Nat : <<l, k>> \notin OpToRel(<, Nat) => k <= l
    BY DEF OpToRel
  <2>3. x \in S /\ \A y \in S : x <= y
    BY <2>1, <2>2
  <2> QED
    BY <1>2, <2>3 DEF Lowest
<1> QED
  BY <1>1, <1>2

LEMMA AllocIs ==
  /\ ialloc # 0 => ialloc \in Inums
  /\ \A used : balloc(used) \in {0} \cup Blocks
<1>1. ialloc # 0 => ialloc \in Inums
  <2> DEFINE S == {i \in Inums : dino[i].type = "none"}
  <2>1. S \subseteq Nat /\ S \subseteq Inums
    BY DEF Inums
  <2> HIDE DEF S
  <2>2. IF S = {} THEN Lowest(S) = 0 ELSE Lowest(S) \in S
    BY <2>1, LowestIs
  <2> QED
    BY <2>1, <2>2 DEF ialloc, S
<1>2. ASSUME NEW used
      PROVE  balloc(used) \in {0} \cup Blocks
  <2> DEFINE S == Blocks \ used
  <2>1. S \subseteq Nat /\ S \subseteq Blocks
    BY DEF Blocks
  <2> HIDE DEF S
  <2>2. IF S = {} THEN Lowest(S) = 0 ELSE Lowest(S) \in S
    BY <2>1, LowestIs
  <2> QED
    BY <2>1, <2>2 DEF balloc, S
<1> QED
  BY <1>1, <1>2

LEMMA CreateMoves ==
  ASSUME RefInv, NEW p \in Procs, Create(p)
  PROVE  Moved(p)
<1> DEFINE t == Now(p)
<1>1. Sole(p) /\ t.op = "create"
  BY DEF Create, At, Now, Sole
<1>2. /\ Tail(todo[p]) = <<>> /\ t \in Todo /\ t.i \in Inums /\ t.j \in {0} \cup Inums
      /\ (t.j # 0 <=> TwoRefs(t)) /\ (t.op # "namex" => t.name \in DirNames)
      /\ Linking(t) => LinkCall(p)
      /\ \A i \in Inums : ilk[i] = p <=> i \in StepLock(t)
  BY <1>1, SoleIs
<1> DEFINE T == ilock(itable, t.i)
           old == dirlookup(t.i, t.name)
           new == ialloc
<1>3. UNCHANGED procs /\ t.j = 0 /\ StepLock(t) = {} /\ Free(t.i) /\ t.name \in DirNames
  BY <1>1, <1>2 DEF Create, TwoRefs, StepLock
<1>4. old \in {0} \cup Inums
  BY <1>2, <1>3 DEF RefInv, Types0, OnDiskTypes, dirlookup
<1>5. CASE old # 0 /\ itable' = iget(T, old) /\ ilk' = ilk
           /\ Go(p, <<iput(t.i), Step("exists", old, 0, ".")>>)
  <2> DEFINE a == iput(t.i)
             b == Step("exists", old, 0, ".")
  <2>1. Return(p, <<a, b>>) /\ Takes(itable', old)
    BY <1>2, <1>4, <1>5, GoIs, LockedAndGot
  <2>2. Put(p, a, t.i) /\ Fits(p, b, old, 0, {}) /\ b.op = "exists"
    <3>1. old \in Inums
      BY <1>4, <1>5
    <3> HIDE DEF old, t
    <3> QED
      BY <1>2, <3>1, ValuesAre
  <2> HIDE DEF a, b
  <2>3. TwoFor(t, a, b)
    <3>1. \A k \in Inums : Ref2(a, b, k) = Ref1(t, k) + Bit(old = k)
      <4> HIDE DEF t, old
      <4> QED
        BY <1>3, <2>2 DEF Ref2, Ref1, Bit, Put, Fits, Inums
    <3> QED
      BY <2>1, <3>1 DEF TwoFor
  <2>4. Holds(p, {})
    BY <1>2, <1>3, <1>5, LockIs
  <2> QED
    BY <1>1, <1>3, <2>1, <2>2, <2>3, <2>4, TwoFollow DEF Put, Fits, Ends
<1>6. CASE itable' = T /\ Return(p, <<iput(t.i)>>) /\ ilk' = ilk
  <2>1. Follows(p, iput(t.i)) /\ StepLock(iput(t.i)) = {} /\ iput(t.i).i = t.i /\ iput(t.i).j = 0
    BY <1>2, PutFollows
  <2>2. OneFor(t, iput(t.i)) /\ Holds(p, {})
    BY <1>2, <1>3, <1>6, <2>1, Written, LockIs DEF OneFor, Ref1
  <2> QED
    BY <1>1, <1>3, <1>6, <2>1, <2>2, OneFollows
<1>7. CASE new # 0 /\ itable' = T /\ ilk' = Lock(p, {t.i})
           /\ Go(p, <<Step("iget", new, 0, "."), Step("make", new, t.i, t.name)>>)
  <2> DEFINE a == Step("iget", new, 0, ".")
             b == Step("make", new, t.i, t.name)
             r == <<a, b>>
  <2>1. new \in Inums /\ Return(p, r)
    BY <1>2, <1>7, GoIs, AllocIs
  <2>2. a \in Todo /\ a.op = "iget" /\ a.i = new
    <3>1. "." \in DirNames
      BY DEF DirNames
    <3> QED
      BY <2>1, <3>1 DEF Step, Todo, Steps, Ops
  <2>3. Fits(p, b, new, t.i, {t.i}) /\ b.op = "make"
    <3> DEFINE k == t.i
               n == t.name
    <3>1. k \in Inums /\ n \in DirNames /\ new \in Inums
      BY <1>2, <1>3, <2>1
    <3> HIDE DEF new, k, n
    <3>2. Fits(p, Step("make", new, k, n), new, k, {k})
      BY <3>1, StepFollows
    <3>3. Step("make", new, k, n).op = "make"
      BY DEF Step
    <3> QED
      BY <3>2, <3>3 DEF k, n
  <2>4. b \in Todo /\ b.i = a.i /\ b.j # 0 /\ b.j = t.i /\ ~Linking(b)
    BY <1>2, <2>2, <2>3 DEF Fits, Inums
  <2> HIDE DEF a, b
  <2>5. /\ r \in Seq(Todo) /\ r # <<>> /\ Formed(r) /\ PutLock(r) = {} /\ MainLock(r) = {b.j}
        /\ \A i \in Inums : Refs(r, i) = Bit(b.j = i)
        /\ Main(r) = b
    BY <2>2, <2>3, <2>4, GetAndMake
  <2> HIDE DEF r
  <2>6. Weighs(p, r)
    <3>1. \A i \in Inums : Refs(r, i) = Refs(todo[p], i)
      BY <1>1, <1>3, <2>4, <2>5, SoleIs DEF Ref1, Bit, Inums
    <3>2. \A i \in Inums : itable'[i].ref = itable[i].ref /\ itable[i].ref \in Nat
      BY <1>2, <1>7, Locked, RefsAreNumbers DEF Keeps, RefInv
    <3>3. \A i \in Inums : Refs(r, i) \in Int
      BY <2>5 DEF Bit
    <3> QED
      BY <3>1, <3>2, <3>3 DEF Weighs
  <2>7. Holds(p, {t.i})
    BY <1>2, <1>3, <1>7, LockIs
  <2> QED
    BY <1>3, <2>1, <2>4, <2>5, <2>6, <2>7, MovedBy DEF Continues
<1> QED
  BY <1>5, <1>6, <1>7 DEF Create

\* The end of ialloc(): the step that is left gets the reference.
LEMMA IgetMoves ==
  ASSUME RefInv, NEW p \in Procs, Iget(p)
  PROVE  Moved(p)
<1> DEFINE q == todo[p]
           k == q[1].i
           b == q[2]
           r == <<b>>
<1>1. q \in Seq(Todo) /\ q # <<>> /\ Formed(q) /\ Head(q).op = "iget"
  BY DEF Iget, At, Now, RefInv, Types0, ProcTypes, Shapes
<1>2. Len(q) \in Nat /\ Len(q) >= 1 /\ Head(q) = q[1] /\ q[1] \in Todo
  BY <1>1, HeadIs
<1>3. Skip(q) = 0 /\ PutLock(q) = {} /\ Busy(q)
  <2>1. Skip(q) = 0
    BY <1>1, <1>2, LeadIs DEF Skip
  <2> QED
    BY <1>1, <1>2, <2>1 DEF PutLock, Busy
<1>4. Len(q) = 2 /\ b.op = "make" /\ b.i = k /\ Main(q) = b /\ Proper(b)
  BY <1>1, <1>2, <1>3 DEF Formed, Making, Main
<1>5. b \in Todo /\ k \in Inums /\ b.j \in Inums
  <2>1. b \in Todo /\ q[1] \in Todo
    BY <1>1, <1>2, <1>4, HeadIs
  <2>2. b.j # 0
    BY <1>4 DEF Proper, TwoRefs
  <2> QED
    BY <2>1, <2>2 DEF Todo, Steps, Walks
<1>6. <<>> \o Tail(q) = r
  <2> DEFINE u == <<>> \o Tail(q)
  <2>1. u \in Seq(Todo) /\ Len(u) = 1 /\ u[1] = b
    BY <1>1, <1>4, Pop
  <2> HIDE DEF u
  <2>2. u # <<>>
    BY <2>1, ShortIs
  <2>3. u = <<u[1]>>
    BY <2>1, <2>2, HeadIs
  <2> QED
    BY <2>1, <2>3 DEF u
<1>7. Return(p, r) /\ itable' = iget(itable, k) /\ ilk' = ilk /\ UNCHANGED procs
  BY <1>2, <1>6 DEF Iget, Now, Go
<1>8. /\ PutLock(q) \cup MainLock(q) = {b.j} /\ StepLock(b) = {b.j}
      /\ \A i \in Inums : Refs(q, i) = Bit(b.j = i)
  BY <1>1, <1>2, <1>3, <1>4 DEF MainLock, StepLock, Refs, PutRef, MainRef, Bit
<1> HIDE DEF b, k
<1>9. /\ r \in Seq(Todo) /\ r # <<>> /\ Formed(r) /\ PutLock(r) = {} /\ MainLock(r) = StepLock(b)
      /\ \A i \in Inums : Refs(r, i) = Ref1(b, i)
      /\ Main(r) = b
  BY <1>4, <1>5, OneLeft DEF Ref1
<1> HIDE DEF r
<1>10. Weighs(p, r)
  <2>1. Takes(itable', k)
    BY <1>5, <1>7, Locked
  <2>2. \A i \in Inums : Refs(r, i) = Refs(todo[p], i) + Bit(k = i) /\ Refs(todo[p], i) \in Int
    BY <1>4, <1>8, <1>9 DEF Ref1, Bit
  <2> QED
    BY <2>1, <2>2, RefsAreNumbers DEF Takes, Weighs, Bit, RefInv
<1>11. Holds(p, {b.j})
  <2>1. \A i \in Inums : ilk[i] = p <=> i = b.j
    BY <1>8 DEF RefInv, Locking
  <2> QED
    BY <1>5, <1>7, <2>1, LockIs
<1>12. ~Linking(b)
  BY <1>4 DEF Linking
<1> QED
  BY <1>7, <1>8, <1>9, <1>10, <1>11, <1>12, MovedBy DEF Continues

LEMMA MakeMoves ==
  ASSUME RefInv, NEW p \in Procs, Make(p)
  PROVE  Moved(p)
<1> DEFINE t == Now(p)
<1>1. Sole(p) /\ t.op = "make"
  BY DEF Make, At, Now, Sole
<1>2. /\ Tail(todo[p]) = <<>> /\ t \in Todo /\ t.i \in Inums /\ t.j \in {0} \cup Inums
      /\ (t.j # 0 <=> TwoRefs(t)) /\ (t.op # "namex" => t.name \in DirNames)
      /\ Linking(t) => LinkCall(p)
      /\ \A i \in Inums : ilk[i] = p <=> i \in StepLock(t)
  BY <1>1, SoleIs
<1> DEFINE T == ilock(itable, t.i)
<1>3. UNCHANGED procs /\ t.j \in Inums /\ StepLock(t) = {t.j} /\ Free(t.i)
  BY <1>1, <1>2 DEF Make, TwoRefs, StepLock
<1>4. t.i # t.j
  BY <1>2, <1>3, SwapIs
<1>5. ASSUME NEW d, iupdate(T, t.i, d), ilk' = ilk,
             Return(p, <<iput(t.i), Step("iunlockput", t.j, 0, ".")>>)
      PROVE  Moved(p)
  <2> DEFINE a == iput(t.i)
             b == Step("iunlockput", t.j, 0, ".")
  <2>1. Keeps(itable') /\ Holds(p, {t.j})
    BY <1>2, <1>3, <1>5, Written, LockIs
  <2>2. Put(p, a, t.i) /\ Fits(p, b, t.j, 0, {t.j}) /\ b.op = "iunlockput"
    BY <1>2, <1>3, ValuesAre
  <2>3. Return(p, <<a, b>>)
    BY <1>5
  <2> HIDE DEF a, b
  <2>4. TwoFor(t, a, b)
    <3>1. \A k \in Inums : Ref2(a, b, k) = Ref1(t, k)
      <4> HIDE DEF t
      <4> QED
        BY <1>3, <2>2 DEF Ref2, Ref1, Bit, Put, Fits, Inums
    <3> QED
      BY <2>1, <3>1 DEF TwoFor
  <2> QED
    BY <1>1, <1>3, <2>1, <2>2, <2>3, <2>4, TwoFollow DEF Put, Fits, Ends
<1>6. ASSUME NEW d, NEW e, itable' = [T EXCEPT ![t.i].d = d, ![t.j].d = e],
             ilk' = [ilk EXCEPT ![t.j] = NoProc, ![t.i] = p],
             NEW op \in {"opened", "iunlockput"}, Go(p, <<iput(t.j), Step(op, t.i, 0, ".")>>)
      PROVE  Moved(p)
  <2> DEFINE a == iput(t.j)
             b == Step(op, t.i, 0, ".")
  <2>1. Keeps(itable')
    <3>1. T \in Table /\ Keeps(T)
      BY <1>2, Locked
    <3> HIDE DEF T
    <3> QED
      BY <1>2, <1>3, <1>6, <3>1 DEF Keeps, Table
  <2>2. Holds(p, {t.i})
    BY <1>2, <1>3, <1>6, SwapIs
  <2>3. Put(p, a, t.j) /\ Fits(p, b, t.i, 0, {t.i}) /\ b.op = op
    BY <1>2, <1>3, ValuesAre
  <2>4. Return(p, <<a, b>>)
    BY <1>2, <1>6, GoIs
  <2> HIDE DEF a, b
  <2>5. TwoFor(t, a, b)
    <3>1. \A k \in Inums : Ref2(a, b, k) = Ref1(t, k)
      <4> HIDE DEF t
      <4> QED
        BY <1>3, <2>3 DEF Ref2, Ref1, Bit, Put, Fits, Inums
    <3> QED
      BY <2>1, <3>1 DEF TwoFor
  <2> QED
    BY <1>1, <1>3, <2>2, <2>3, <2>4, <2>5, TwoFollow DEF Put, Fits, Ends
<1>7. \/ \E d : /\ iupdate(T, t.i, d) /\ ilk' = ilk
                /\ Return(p, <<iput(t.i), Step("iunlockput", t.j, 0, ".")>>)
      \/ \E d, e : /\ itable' = [T EXCEPT ![t.i].d = d, ![t.j].d = e]
                   /\ ilk' = [ilk EXCEPT ![t.j] = NoProc, ![t.i] = p]
                   /\ Go(p, <<iput(t.j), Step(IF call[p].op = "create" THEN "opened"
                                              ELSE "iunlockput", t.i, 0, ".")>>)
  <2> DEFINE isdir == TypeOf(call[p].op) = "dir"
             none == [T[t.i].d EXCEPT !.nlink = 0]
             made == [T[t.i].d EXCEPT !.nlink = 1, !.size = IF isdir THEN 1 ELSE 0,
                                      !.addrs[0] = IF isdir THEN balloc(bitmap) ELSE 0]
             parent == [T[t.j].d EXCEPT !.nlink = IF isdir THEN @ + 1 ELSE @]
  <2>1. \/ /\ iupdate(T, t.i, none) /\ ilk' = ilk
           /\ Return(p, <<iput(t.i), Step("iunlockput", t.j, 0, ".")>>)
        \/ /\ itable' = [T EXCEPT ![t.i].d = made, ![t.j].d = parent]
           /\ ilk' = [ilk EXCEPT ![t.j] = NoProc, ![t.i] = p]
           /\ Go(p, <<iput(t.j), Step(IF call[p].op = "create" THEN "opened"
                                      ELSE "iunlockput", t.i, 0, ".")>>)
    BY DEF Make
  <2> HIDE DEF T, none, made, parent
  <2> QED
    BY <2>1
<1>8. CASE \E d : /\ iupdate(T, t.i, d) /\ ilk' = ilk
                  /\ Return(p, <<iput(t.i), Step("iunlockput", t.j, 0, ".")>>)
  BY <1>5, <1>8
<1>9. CASE \E d, e : /\ itable' = [T EXCEPT ![t.i].d = d, ![t.j].d = e]
                     /\ ilk' = [ilk EXCEPT ![t.j] = NoProc, ![t.i] = p]
                     /\ Go(p, <<iput(t.j), Step(IF call[p].op = "create" THEN "opened"
                                                ELSE "iunlockput", t.i, 0, ".")>>)
  <2> DEFINE op == IF call[p].op = "create" THEN "opened" ELSE "iunlockput"
  <2>1. op \in {"opened", "iunlockput"}
    OBVIOUS
  <2> QED
    BY <1>6, <1>9, <2>1
<1> QED
  BY <1>7, <1>8, <1>9

-----------------------------------------------------------------------------
(* iput(), and what it does with the last reference to a file that has no   *)
(* name any more.                                                           *)

\* The first of several steps is done, and the others are left.
LEMMA Putting ==
  ASSUME NEW q \in Seq(Todo), q # <<>>, Formed(q), q[1].op \in {"iput", "idrop"}
  PROVE  LET r == <<>> \o Tail(q) IN
         /\ r \in Seq(Todo) /\ Formed(r) /\ PutLock(r) = {} /\ PutLock(q) = {}
         /\ MainLock(r) = MainLock(q)
         /\ \A i \in Inums : Refs(q, i) = Refs(r, i) + Bit(q[1].i = i)
         /\ r # <<>> => Main(r) = Main(q)
<1> DEFINE r == <<>> \o Tail(q)
           b == q[2]
<1>1. /\ r \in Seq(Todo) /\ Len(r) = Len(q) - 1 /\ \A k \in 1..(Len(q) - 1) : r[k] = q[k + 1]
      /\ Len(q) \in Nat /\ Len(q) >= 1
  BY Pop, HeadIs
<1> HIDE DEF r
<1>2. Skip(q) = 1 /\ PutLock(q) = {} /\ Len(q) \in {1, 2}
  <2>1. Skip(q) = 1
    BY LeadIs DEF Skip
  <2>2. ~Making(q) /\ PutLock(q) = {}
    BY DEF Making, PutLock
  <2> QED
    BY <1>1, <2>1, <2>2 DEF Formed
<1>3. CASE Len(q) = 1
  <2>1. r = <<>>
    BY <1>1, <1>3, ShortIs
  <2>2. ~Busy(q)
    BY <1>2, <1>3 DEF Busy
  <2>3. \A i \in Inums : Refs(q, i) = 0 + Bit(q[1].i = i)
    BY <1>2, <2>2 DEF Refs, PutRef, MainRef, Bit
  <2> QED
    BY <1>2, <2>1, <2>2, <2>3, Done DEF MainLock, r
<1>4. CASE Len(q) = 2
  <2>1. b \in Todo /\ r[1] = b /\ Main(q) = b
    BY <1>1, <1>4, HeadIs DEF Main
  <2>2. Busy(q)
    BY <1>2, <1>4 DEF Busy
  <2>3. Proper(b)
    BY <2>1, <2>2 DEF Formed
  <2>4. r = <<b>>
    <3>1. Len(r) = 1
      BY <1>1, <1>4
    <3>2. r # <<>>
      BY <1>1, <3>1, ShortIs
    <3> QED
      BY <1>1, <2>1, <3>1, <3>2, HeadIs
  <2> HIDE DEF b
  <2>5. /\ r # <<>> /\ Formed(r) /\ PutLock(r) = {} /\ MainLock(r) = StepLock(b)
        /\ \A i \in Inums : Refs(r, i) = Bit(b.i = i) + Bit(b.j = i)
        /\ Main(r) = b
    BY <2>1, <2>3, <2>4, OneLeft
  <2>6. \A i \in Inums : Refs(q, i) = Bit(q[1].i = i) + (Bit(b.i = i) + Bit(b.j = i))
    BY <1>2, <2>1, <2>2 DEF Refs, PutRef, MainRef, Bit
  <2>7. MainLock(q) = StepLock(b)
    BY <2>1, <2>2 DEF MainLock
  <2>8. \A i \in Inums : Refs(q, i) = Refs(r, i) + Bit(q[1].i = i)
    BY <2>5, <2>6 DEF Bit
  <2> QED
    BY <1>1, <1>2, <2>1, <2>5, <2>7, <2>8 DEF r
<1> QED
  BY <1>2, <1>3, <1>4

LEMMA GoingOn ==
  ASSUME NEW q \in Seq(Todo), q # <<>>, Formed(q), q[1].op \in {"itrunc", "ifree", "irelease"}
  PROVE  LET r == <<>> \o Tail(q) IN
         /\ r \in Seq(Todo) /\ Formed(r) /\ r # <<>> /\ Main(r) = Main(q)
         /\ PutLock(q) = {q[1].i} /\ MainLock(r) = MainLock(q)
         /\ PutLock(r) = IF q[1].op = "irelease" THEN {} ELSE {q[1].i}
         /\ \A i \in Inums : Refs(r, i) = Refs(q, i)
<1> DEFINE r == <<>> \o Tail(q)
<1>1. /\ r \in Seq(Todo) /\ Len(r) = Len(q) - 1 /\ \A k \in 1..(Len(q) - 1) : r[k] = q[k + 1]
      /\ Len(q) \in Nat /\ Len(q) >= 1
  BY Pop, HeadIs
<1> HIDE DEF r
<1>2. /\ Skip(q) \in 2..4 /\ Skip(q) = Lead(q[1].op) /\ ~Making(q) /\ PutLock(q) = {q[1].i}
      /\ Len(q) >= Skip(q) /\ Len(q) <= Skip(q) + 1 /\ Freeing(q)
  <2>1. Skip(q) \in 2..4 /\ Skip(q) = Lead(q[1].op) /\ ~Making(q) /\ PutLock(q) = {q[1].i}
    BY LeadIs DEF Skip, Making, PutLock
  <2> QED
    BY <2>1 DEF Formed
<1>3. r # <<>> /\ r[1] = q[2] /\ q[2].i = q[1].i
  <2>1. r # <<>>
    <3>1. Len(r) # 0
      BY <1>1, <1>2
    <3> QED
      BY <1>1, <3>1, ShortIs
  <2> QED
    BY <1>1, <1>2, <2>1 DEF Freeing
<1>4. /\ q[1].op = "itrunc" => r[1].op = "ifree" /\ Skip(q) = 4
      /\ q[1].op = "ifree" => r[1].op = "irelease" /\ Skip(q) = 3
      /\ q[1].op = "irelease" => r[1].op = "idrop" /\ Skip(q) = 2
  BY <1>2, <1>3, LeadIs DEF Freeing
<1>5. Skip(r) = Skip(q) - 1 /\ Skip(r) > 0 /\ Skip(q) > 0
  BY <1>2, <1>3, <1>4, LeadIs DEF Skip
<1>6. (Busy(r) <=> Busy(q)) /\ Main(r) = Main(q)
  BY <1>1, <1>2, <1>5 DEF Busy, Main
<1>7. Freeing(r)
  <2>1. /\ q[1].op = "itrunc" => r[2] = q[3] /\ r[3] = q[4]
        /\ q[1].op = "ifree" => r[2] = q[3]
    BY <1>1, <1>2, <1>4
  <2> QED
    BY <1>2, <1>3, <1>4, <2>1 DEF Freeing
<1>8. Formed(r)
  <2>1. r[1].op # "iget"
    BY <1>4
  <2>2. Len(r) >= Skip(r) /\ Len(r) <= Skip(r) + 1
    BY <1>1, <1>2, <1>5
  <2>3. Busy(r) => Proper(Main(r)) /\ Main(r).op \in Ends
    BY <1>5, <1>6 DEF Formed
  <2> QED
    BY <1>7, <2>1, <2>2, <2>3 DEF Formed
<1>9. /\ MainLock(r) = MainLock(q)
      /\ PutLock(r) = IF q[1].op = "irelease" THEN {} ELSE {q[1].i}
  BY <1>3, <1>4, <1>6 DEF MainLock, PutLock
<1>10. \A i \in Inums : Refs(r, i) = Refs(q, i)
  <2>1. q[1].op # "iget" /\ r[1].op # "iget" /\ r[1].i = q[1].i
    BY <1>3, <1>4
  <2> QED
    BY <1>5, <1>6, <2>1 DEF Refs, PutRef, MainRef
<1> QED
  BY <1>1, <1>2, <1>3, <1>6, <1>8, <1>9, <1>10 DEF r

\* iput() of the last reference: the inode is locked, and four steps follow.
LEMMA Emptying ==
  ASSUME NEW q \in Seq(Todo), q # <<>>, Formed(q), q[1].op = "iput",
         NEW a \in Todo, NEW b \in Todo, NEW c \in Todo, NEW d \in Todo,
         a.op = "itrunc", b.op = "ifree", c.op = "irelease", d.op = "idrop",
         a.i = q[1].i, b.i = q[1].i, c.i = q[1].i, d.i = q[1].i
  PROVE  LET r == <<a, b, c, d>> \o Tail(q) IN
         /\ r \in Seq(Todo) /\ Formed(r) /\ r # <<>>
         /\ PutLock(q) = {} /\ PutLock(r) = {q[1].i} /\ MainLock(r) = MainLock(q)
         /\ \A i \in Inums : Refs(r, i) = Refs(q, i)
         /\ Linking(Main(r)) => Linking(Main(q))
<1> DEFINE r == <<a, b, c, d>> \o Tail(q)
<1>1. /\ r \in Seq(Todo) /\ Len(r) = Len(q) + 3
      /\ r[1] = a /\ r[2] = b /\ r[3] = c /\ r[4] = d
      /\ \A k \in 2..Len(q) : r[k + 3] = q[k]
      /\ Len(q) \in Nat /\ Len(q) >= 1
  BY PutFour, HeadIs
<1> HIDE DEF r
<1>2. Skip(q) = 1 /\ PutLock(q) = {} /\ Len(q) <= 2 /\ ~Making(q)
  <2>1. Skip(q) = 1
    BY LeadIs DEF Skip
  <2>2. ~Making(q) /\ PutLock(q) = {}
    BY DEF Making, PutLock
  <2> QED
    BY <1>1, <2>1, <2>2 DEF Formed
<1>3. r # <<>>
  <2>1. Len(r) # 0
    BY <1>1
  <2> QED
    BY <1>1, <2>1, ShortIs
<1>4. Skip(r) = 4
  BY <1>1, <1>3, LeadIs DEF Skip
<1>5. (Busy(r) <=> Busy(q)) /\ (Busy(q) => Main(r) = Main(q)) /\ (~Busy(q) => Main(r) = d)
  BY <1>1, <1>2, <1>4 DEF Busy, Main
<1>6. Freeing(r)
  BY <1>1 DEF Freeing
<1>7. Formed(r)
  <2>1. Len(r) >= Skip(r) /\ Len(r) <= Skip(r) + 1 /\ r[1].op # "iget"
    BY <1>1, <1>2, <1>4
  <2>2. Busy(r) => Proper(Main(r)) /\ Main(r).op \in Ends
    BY <1>2, <1>5 DEF Formed
  <2> QED
    BY <1>6, <2>1, <2>2 DEF Formed
<1>8. PutLock(r) = {q[1].i} /\ MainLock(r) = MainLock(q)
  BY <1>1, <1>3, <1>5 DEF PutLock, MainLock
<1>9. \A i \in Inums : Refs(r, i) = Refs(q, i)
  <2>1. q[1].op # "iget" /\ r[1].op # "iget" /\ r[1].i = q[1].i
    BY <1>1
  <2> QED
    BY <1>2, <1>4, <1>5, <2>1 DEF Refs, PutRef, MainRef
<1>10. Linking(Main(r)) => Linking(Main(q))
  BY <1>5 DEF Linking
<1> QED
  BY <1>1, <1>2, <1>3, <1>7, <1>8, <1>9, <1>10 DEF r

LEMMA FirstIs ==
  ASSUME RefInv, NEW p \in Procs, todo[p] # <<>>
  PROVE  LET q == todo[p] IN
         /\ q \in Seq(Todo) /\ Formed(q) /\ Now(p) = q[1] /\ q[1] \in Todo /\ q[1].i \in Inums
         /\ \A i \in Inums : ilk[i] = p <=> i \in PutLock(q) \cup MainLock(q)
         /\ PutLock(q) \cap MainLock(q) = {} /\ (Linking(Main(q)) => LinkCall(p))
<1> DEFINE q == todo[p]
<1>1. q \in Seq(Todo) /\ q # <<>> /\ Formed(q)
  BY DEF RefInv, Types0, ProcTypes, Shapes
<1>2. Now(p) = q[1] /\ q[1] \in Todo
  BY <1>1, HeadIs DEF Now
<1>3. q[1].i \in Inums
  BY <1>2 DEF Todo, Steps, Walks
<1> QED
  BY <1>1, <1>2, <1>3 DEF RefInv, Locking, Recalled

\* One reference less.
LEMMA PutMoves ==
  ASSUME RefInv, NEW p \in Procs, todo[p] # <<>>, Now(p).op \in {"iput", "idrop"},
         itable' = [itable EXCEPT ![Now(p).i].ref = @ - 1], Go(p, <<>>), ilk' = ilk, UNCHANGED procs
  PROVE  Moved(p)
<1> DEFINE q == todo[p]
           r == <<>> \o Tail(q)
           k == q[1].i
<1>1. /\ q \in Seq(Todo) /\ q # <<>> /\ Formed(q) /\ Now(p) = q[1] /\ k \in Inums
      /\ \A i \in Inums : ilk[i] = p <=> i \in PutLock(q) \cup MainLock(q)
      /\ Linking(Main(q)) => LinkCall(p)
  BY FirstIs
<1>2. Return(p, r)
  BY DEF Go
<1>3. itable' = [itable EXCEPT ![k].ref = @ - 1] /\ q[1].op \in {"iput", "idrop"}
  BY <1>1
<1> HIDE DEF q
<1>4. /\ r \in Seq(Todo) /\ Formed(r) /\ PutLock(r) = {} /\ PutLock(q) = {}
      /\ MainLock(r) = MainLock(q)
      /\ \A i \in Inums : Refs(q, i) = Refs(r, i) + Bit(k = i)
      /\ r # <<>> => Main(r) = Main(q)
  BY <1>1, <1>3, Putting
<1> HIDE DEF r, k
<1>5. Weighs(p, r)
  <2> SUFFICES ASSUME NEW i \in Inums
               PROVE  /\ itable'[i].ref = itable[i].ref + (Refs(r, i) - Refs(q, i))
                      /\ Refs(r, i) - Refs(q, i) \in {-1, 0, 1}
    BY DEF Weighs, q
  <2>1. itable \in Table /\ itable[i].ref \in Nat
    BY RefsAreNumbers DEF RefInv, Types0, InMemoryTypes, Table
  <2>2. itable'[i].ref = itable[i].ref - Bit(k = i)
    BY <1>1, <1>3, <2>1 DEF Table, Bit
  <2>3. Refs(q, i) = Refs(r, i) + Bit(k = i) /\ Refs(r, i) \in Int
    BY <1>4 DEF Refs, PutRef, MainRef, Bit
  <2> QED
    BY <2>1, <2>2, <2>3 DEF Bit
<1>6. Holds(p, MainLock(r))
  BY <1>1, <1>4 DEF Holds
<1> QED
  BY <1>1, <1>2, <1>4, <1>5, <1>6, MovedBy DEF Continues

LEMMA IputDropMoves ==
  ASSUME RefInv, NEW p \in Procs, IputDrop(p)
  PROVE  Moved(p)
BY PutMoves DEF IputDrop, At, Now

LEMMA IputEndMoves ==
  ASSUME RefInv, NEW p \in Procs, IputEnd(p)
  PROVE  Moved(p)
BY PutMoves DEF IputEnd, At, Now

\* The steps between leave the references alone.
LEMMA FreeingMoves ==
  ASSUME RefInv, NEW p \in Procs, todo[p] # <<>>, Now(p).op \in {"itrunc", "ifree", "irelease"},
         Keeps(itable'), Go(p, <<>>), UNCHANGED procs,
         ilk' = IF Now(p).op = "irelease" THEN Lock(NoProc, {Now(p).i}) ELSE ilk
  PROVE  Moved(p)
<1> DEFINE q == todo[p]
           r == <<>> \o Tail(q)
           k == q[1].i
<1>1. /\ q \in Seq(Todo) /\ q # <<>> /\ Formed(q) /\ Now(p) = q[1] /\ k \in Inums
      /\ \A i \in Inums : ilk[i] = p <=> i \in PutLock(q) \cup MainLock(q)
      /\ PutLock(q) \cap MainLock(q) = {} /\ (Linking(Main(q)) => LinkCall(p))
  BY FirstIs
<1>2. Return(p, r)
  BY DEF Go
<1>3. /\ q[1].op \in {"itrunc", "ifree", "irelease"}
      /\ ilk' = IF q[1].op = "irelease" THEN Lock(NoProc, {k}) ELSE ilk
  BY <1>1
<1> HIDE DEF q
<1>4. /\ r \in Seq(Todo) /\ Formed(r) /\ r # <<>> /\ Main(r) = Main(q)
      /\ PutLock(q) = {k} /\ MainLock(r) = MainLock(q)
      /\ PutLock(r) = IF q[1].op = "irelease" THEN {} ELSE {k}
      /\ \A i \in Inums : Refs(r, i) = Refs(q, i)
  BY <1>1, <1>3, GoingOn
<1> HIDE DEF r, k
<1>5. Weighs(p, r)
  <2>1. \A i \in Inums : Refs(r, i) = Refs(todo[p], i) /\ Refs(r, i) \in Int
    BY <1>4 DEF Refs, PutRef, MainRef, Bit, q
  <2>2. \A i \in Inums : itable'[i].ref = itable[i].ref /\ itable[i].ref \in Nat
    BY RefsAreNumbers DEF Keeps, RefInv
  <2> QED
    BY <2>1, <2>2 DEF Weighs
<1>6. Holds(p, PutLock(r) \cup MainLock(r)) /\ PutLock(r) \cap MainLock(r) = {}
  <2>1. CASE q[1].op = "irelease"
    <3>1. ilk' = [i \in Inums |-> IF i = k THEN NoProc ELSE ilk[i]]
      BY <1>3, <2>1 DEF Lock
    <3>2. NoProc # p
      BY FsConstants
    <3> QED
      BY <1>1, <1>4, <2>1, <3>1, <3>2 DEF Holds
  <2>2. CASE q[1].op # "irelease"
    BY <1>1, <1>3, <1>4, <2>2 DEF Holds
  <2> QED
    BY <2>1, <2>2
<1> QED
  BY <1>1, <1>2, <1>4, <1>5, <1>6, MovedBy DEF Continues

LEMMA IputTruncMoves ==
  ASSUME RefInv, NEW p \in Procs, IputTrunc(p)
  PROVE  Moved(p)
<1>1. /\ todo[p] # <<>> /\ Now(p).op = "itrunc" /\ Go(p, <<>>) /\ UNCHANGED procs /\ ilk' = ilk
      /\ \E d : iupdate(itable, Now(p).i, d)
  BY DEF IputTrunc, At, Now, itrunc
<1>2. Keeps(itable')
  BY <1>1, FirstIs, Written
<1> QED
  BY <1>1, <1>2, FreeingMoves

LEMMA IputFreeMoves ==
  ASSUME RefInv, NEW p \in Procs, IputFree(p)
  PROVE  Moved(p)
<1>1. /\ todo[p] # <<>> /\ Now(p).op = "ifree" /\ Go(p, <<>>) /\ UNCHANGED procs /\ ilk' = ilk
      /\ \E d : iupdate(itable, Now(p).i, d)
  BY DEF IputFree, At, Now
<1>2. Keeps(itable')
  BY <1>1, FirstIs, Written
<1> QED
  BY <1>1, <1>2, FreeingMoves

LEMMA IputReleaseMoves ==
  ASSUME RefInv, NEW p \in Procs, IputRelease(p)
  PROVE  Moved(p)
<1>1. /\ todo[p] # <<>> /\ Now(p).op = "irelease" /\ Go(p, <<>>) /\ UNCHANGED procs
      /\ ilk' = Lock(NoProc, {Now(p).i}) /\ itable' = [itable EXCEPT ![Now(p).i].valid = FALSE]
  BY DEF IputRelease, At, Now
<1>2. Keeps(itable')
  BY <1>1 DEF Keeps, RefInv, Types0, InMemoryTypes
<1> QED
  BY <1>1, <1>2, FreeingMoves

LEMMA IputLastMoves ==
  ASSUME RefInv, NEW p \in Procs, IputLast(p)
  PROVE  Moved(p)
<1> DEFINE q == todo[p]
           k == q[1].i
           a == Step("itrunc", k, 0, ".")
           b == Step("ifree", k, 0, ".")
           c == Step("irelease", k, 0, ".")
           d == Step("idrop", k, 0, ".")
           r == <<a, b, c, d>> \o Tail(q)
<1>1. /\ q \in Seq(Todo) /\ q # <<>> /\ Formed(q) /\ Now(p) = q[1] /\ k \in Inums
      /\ \A i \in Inums : ilk[i] = p <=> i \in PutLock(q) \cup MainLock(q)
      /\ PutLock(q) \cap MainLock(q) = {} /\ (Linking(Main(q)) => LinkCall(p))
  BY FirstIs DEF IputLast, At
<1>2. /\ Return(p, r) /\ q[1].op = "iput" /\ Free(k) /\ ilk' = Lock(p, {k}) /\ itable' = itable
      /\ UNCHANGED procs
  BY <1>1 DEF IputLast, At, Now, Go
<1>3. /\ a \in Todo /\ b \in Todo /\ c \in Todo /\ d \in Todo
      /\ a.op = "itrunc" /\ b.op = "ifree" /\ c.op = "irelease" /\ d.op = "idrop"
      /\ a.i = k /\ b.i = k /\ c.i = k /\ d.i = k
  <2>1. "." \in DirNames
    BY DEF DirNames
  <2> HIDE DEF k
  <2> QED
    BY <1>1, <2>1 DEF Step, Todo, Steps, Ops
<1> HIDE DEF q, a, b, c, d
<1>4. /\ r \in Seq(Todo) /\ Formed(r) /\ r # <<>>
      /\ PutLock(q) = {} /\ PutLock(r) = {k} /\ MainLock(r) = MainLock(q)
      /\ \A i \in Inums : Refs(r, i) = Refs(q, i)
      /\ Linking(Main(r)) => Linking(Main(q))
  BY <1>1, <1>2, <1>3, Emptying
<1> HIDE DEF r, k
<1>5. Weighs(p, r)
  <2>1. \A i \in Inums : Refs(r, i) = Refs(todo[p], i) /\ Refs(r, i) \in Int
    BY <1>4 DEF Refs, PutRef, MainRef, Bit, q
  <2>2. \A i \in Inums : itable'[i].ref = itable[i].ref /\ itable[i].ref \in Nat
    BY <1>2, RefsAreNumbers DEF RefInv
  <2> QED
    BY <2>1, <2>2 DEF Weighs
<1>6. k \notin MainLock(q)
  BY <1>1, <1>2, FsConstants DEF Free
<1>7. Holds(p, {k} \cup MainLock(q))
  <2>1. ilk' = [i \in Inums |-> IF i = k THEN p ELSE ilk[i]]
    BY <1>2 DEF Lock
  <2> QED
    BY <1>1, <1>2, <1>4, <2>1 DEF Holds, Free
<1>8. Continues(p, r)
  BY <1>1, <1>4 DEF Continues
<1>9. PutLock(r) \cap MainLock(r) = {} /\ Holds(p, PutLock(r) \cup MainLock(r))
  BY <1>4, <1>6, <1>7
<1> QED
  BY <1>2, <1>4, <1>5, <1>8, <1>9, MovedBy

-----------------------------------------------------------------------------
(* The fields keep their types.                                             *)

Stored == /\ OnDiskTypes /\ InMemoryTypes
          /\ cwd \in [Procs -> Inums]
          /\ file \in [Procs -> [ip : {0} \cup Inums, off : 0..MAXFILE, writable : BOOLEAN]]

LEMMA NumbersAre ==
  /\ NDIRECT \in Nat /\ NDIRECT >= 1 /\ NINDIRECT \in Nat /\ MAXFILE \in Nat /\ MAXFILE >= 1
  /\ MAXFILE = NDIRECT + NINDIRECT /\ 0 \in 0..MAXFILE /\ 1 \in 0..MAXFILE
  /\ ROOTINO \in Inums /\ "." \in DirNames /\ ".." \in DirNames
BY FsConstants DEF MAXFILE, ROOTINO, Inums, DirNames

\* Changes to an inode that make an inode of it.
LEMMA NodeIs ==
  ASSUME NEW d \in Node
  PROVE  /\ \A n \in Int : [d EXCEPT !.nlink = n] \in Node
         /\ \A n \in Types : [d EXCEPT !.type = n] \in Node
         /\ \A n \in 0..MAXFILE : [d EXCEPT !.size = n] \in Node
         /\ \A k \in 0..NDIRECT, b \in {0} \cup Blocks : [d EXCEPT !.addrs[k] = b] \in Node
         /\ Truncated(d) \in Node
         /\ d.nlink \in Int /\ d.size \in 0..MAXFILE /\ d.addrs \in [0..NDIRECT -> {0} \cup Blocks]
<1>1. /\ \A n \in Int : [d EXCEPT !.nlink = n] \in Node
      /\ \A n \in Types : [d EXCEPT !.type = n] \in Node
      /\ \A n \in 0..MAXFILE : [d EXCEPT !.size = n] \in Node
  BY DEF Node
<1>2. \A k \in 0..NDIRECT, b \in {0} \cup Blocks : [d EXCEPT !.addrs[k] = b] \in Node
  BY DEF Node
<1>3. Truncated(d) \in Node
  BY NumbersAre DEF Node, Truncated, Zeros
<1> QED
  BY <1>1, <1>2, <1>3 DEF Node

LEMMA LinkLess ==
  ASSUME NEW d \in Node
  PROVE  [d EXCEPT !.nlink = @ - 1] \in Node /\ [d EXCEPT !.nlink = @ + 1] \in Node
BY DEF Node

LEMMA FreeInodeIs ==
  /\ FreeInode \in Node /\ \A n \in Types : [FreeInode EXCEPT !.type = n] \in Node
<1>1. Zeros \in [0..NDIRECT -> {0} \cup Blocks]
  BY DEF Zeros
<1>2. FreeInode \in Node
  BY <1>1, NumbersAre DEF FreeInode, Node, Types
<1> QED
  BY <1>2, NodeIs

LEMMA TableHas ==
  ASSUME NEW T \in Table, NEW i \in Inums
  PROVE  /\ T[i].d \in Node /\ \A d \in Node : [T EXCEPT ![i].d = d] \in Table
         /\ \A n \in Int : [T EXCEPT ![i].ref = n] \in Table
         /\ [T EXCEPT ![i].valid = FALSE] \in Table
         /\ T[i].ref \in Int
BY DEF Table

LEMMA StoredIs ==
  ASSUME RefInv
  PROVE  /\ Stored /\ itable \in Table
         /\ \A i \in Inums : /\ ilock(itable, i) \in Table /\ iget(itable, i) \in Table
                             /\ dino[i] \in Node /\ itable[i].d \in Node
                             /\ \A k \in Inums : /\ iget(ilock(itable, i), k) \in Table
                                                 /\ ilock(itable, i)[k].d \in Node
<1>1. Stored /\ itable \in Table
  BY DEF RefInv, Types0, Stored, ProcTypes, InMemoryTypes, Table
<1>2. ASSUME NEW i \in Inums
      PROVE  /\ ilock(itable, i) \in Table /\ iget(itable, i) \in Table
             /\ dino[i] \in Node /\ itable[i].d \in Node
             /\ \A k \in Inums : /\ iget(ilock(itable, i), k) \in Table
                                 /\ ilock(itable, i)[k].d \in Node
  BY <1>1, Locked, LockedAndGot, TableHas DEF Stored, OnDiskTypes
<1> QED
  BY <1>1, <1>2

\* Only the table in memory and the locks change.
Locks == [Inums -> Procs \cup {NoProc}]
LEMMA LocksAre ==
  ASSUME RefInv, NEW p \in Procs \cup {NoProc}
  PROVE  /\ ilk \in Locks /\ \A S : Lock(p, S) \in Locks
         /\ \A i, j : \A q \in Procs \cup {NoProc} : [ilk EXCEPT ![i] = q, ![j] = p] \in Locks
BY DEF RefInv, Types0, InMemoryTypes, Locks, Lock

LEMMA SmallStep ==
  ASSUME RefInv, UNCHANGED <<disk, procs, lost>>, itable' \in Table, ilk' \in Locks
  PROVE  Stored'
BY StoredIs DEF Stored, OnDiskTypes, InMemoryTypes, Table, Locks, disk, procs

\* One inode changes, in memory and on the disk.
LEMMA UpdateStep ==
  ASSUME RefInv, NEW T \in Table, NEW i \in Inums, NEW d \in Node, iupdate(T, i, d),
         UNCHANGED <<bitmap, ind, procs, lost>>, ilk' \in Locks,
         dents' \in [Inums -> [DirNames -> {0} \cup Inums]]
  PROVE  Stored'
<1>1. itable' \in Table
  BY TableHas DEF iupdate
<1>2. dino' \in [Inums -> Node]
  BY StoredIs DEF iupdate, Stored, OnDiskTypes
<1> QED
  BY <1>1, <1>2, StoredIs DEF Stored, OnDiskTypes, InMemoryTypes, Table, Locks, procs

LEMMA DirlinkIs ==
  ASSUME RefInv, NEW i \in Inums, NEW n \in DirNames, NEW k \in {0} \cup Inums
  PROVE  /\ dirlink(i, n, k) \in [Inums -> [DirNames -> {0} \cup Inums]]
         /\ dirlookup(i, n) \in {0} \cup Inums
         /\ dents \in [Inums -> [DirNames -> {0} \cup Inums]]
BY DEF RefInv, Types0, OnDiskTypes, dirlink, dirlookup

LEMMA ExistsStores ==
  ASSUME RefInv, NEW p \in Procs, Exists(p)
  PROVE  Stored'
<1> DEFINE t == Now(p)
<1>1. Sole(p) /\ t.op = "exists"
  BY DEF Exists, At, Now, Sole
<1>2. /\ t.i \in Inums /\ (t.j # 0 => t.j \in Inums) /\ (t.j # 0 <=> TwoRefs(t))
      /\ (t.op # "namex" => t.name \in DirNames) /\ (Linking(t) => LinkCall(p))
  BY <1>1, SoleIs
<1> HIDE DEF t
<1>3. itable' \in Table /\ ilk' \in Locks /\ UNCHANGED <<disk, procs, lost>>
  BY <1>2, StoredIs, LocksAre DEF Exists, t
<1> QED
  BY <1>3, SmallStep

LEMMA OpenStores ==
  ASSUME RefInv, NEW p \in Procs, Open(p)
  PROVE  Stored'
<1> DEFINE t == Now(p)
<1>1. Sole(p) /\ t.op = "open"
  BY DEF Open, At, Now, Sole
<1>2. /\ t.i \in Inums /\ (t.j # 0 => t.j \in Inums) /\ (t.j # 0 <=> TwoRefs(t))
      /\ (t.op # "namex" => t.name \in DirNames) /\ (Linking(t) => LinkCall(p))
  BY <1>1, SoleIs
<1> HIDE DEF t
<1>3. itable' \in Table /\ ilk' \in Locks /\ UNCHANGED <<disk, procs, lost>>
  BY <1>2, StoredIs, LocksAre DEF Open, t
<1> QED
  BY <1>3, SmallStep

LEMMA NamexEndStores ==
  ASSUME RefInv, NEW p \in Procs, NamexEnd(p)
  PROVE  Stored'
<1> DEFINE t == Now(p)
<1>1. Sole(p) /\ t.op = "namex"
  BY DEF NamexEnd, At, Now, Sole
<1>2. /\ t.i \in Inums /\ (t.j # 0 => t.j \in Inums) /\ (t.j # 0 <=> TwoRefs(t))
      /\ (t.op # "namex" => t.name \in DirNames) /\ (Linking(t) => LinkCall(p))
  BY <1>1, SoleIs
<1> HIDE DEF t
<1>3. itable' \in Table /\ ilk' \in Locks /\ UNCHANGED <<disk, procs, lost>>
  BY <1>2, StoredIs, LocksAre DEF NamexEnd, t
<1> QED
  BY <1>3, SmallStep

LEMMA IunlockputStores ==
  ASSUME RefInv, NEW p \in Procs, Iunlockput(p)
  PROVE  Stored'
<1> DEFINE t == Now(p)
<1>1. Sole(p) /\ t.op = "iunlockput"
  BY DEF Iunlockput, At, Now, Sole
<1>2. /\ t.i \in Inums /\ (t.j # 0 => t.j \in Inums) /\ (t.j # 0 <=> TwoRefs(t))
      /\ (t.op # "namex" => t.name \in DirNames) /\ (Linking(t) => LinkCall(p))
  BY <1>1, SoleIs
<1> HIDE DEF t
<1>3. itable' \in Table /\ ilk' \in Locks /\ UNCHANGED <<disk, procs, lost>>
  BY <1>2, StoredIs, LocksAre DEF Iunlockput, t
<1> QED
  BY <1>3, SmallStep

LEMMA NamexStepStores ==
  ASSUME RefInv, NEW p \in Procs, NamexStep(p)
  PROVE  Stored'
<1> DEFINE t == Now(p)
<1>1. Sole(p) /\ t.op = "namex"
  BY DEF NamexStep, At, Now, Sole
<1>2. /\ t.i \in Inums /\ (t.j # 0 => t.j \in Inums) /\ (t.j # 0 <=> TwoRefs(t))
      /\ (t.op # "namex" => t.name \in DirNames) /\ (Linking(t) => LinkCall(p))
  BY <1>1, SoleIs
<1> HIDE DEF t
<1>3. ilk' \in Locks /\ UNCHANGED <<disk, procs, lost>> /\ t.path # <<>>
  BY <1>2, LocksAre DEF NamexStep, t
<1>4. Head(t.path) \in DirNames
  <2>1. t \in Walks
    BY <1>1, SoleIs DEF Todo, Steps, Ops, Thens, t
  <2> DEFINE w == t.path
  <2>2. w \in Seq(DirNames) /\ w # <<>>
    BY <1>3, <2>1 DEF Walks
  <2> HIDE DEF w
  <2>3. Head(w) \in DirNames
    BY <2>2
  <2> QED
    BY <2>3 DEF w
<1>5. dirlookup(t.i, Head(t.path)) \in {0} \cup Inums
  BY <1>2, <1>4, DirlinkIs
<1>6. itable' \in Table
  BY <1>2, <1>5, StoredIs DEF NamexStep, t
<1> QED
  BY <1>3, <1>6, SmallStep

LEMMA UnlinkStores ==
  ASSUME RefInv, NEW p \in Procs, Unlink(p)
  PROVE  Stored'
<1> DEFINE t == Now(p)
<1>1. Sole(p) /\ t.op = "unlink"
  BY DEF Unlink, At, Now, Sole
<1>2. /\ t.i \in Inums /\ (t.j # 0 => t.j \in Inums) /\ (t.j # 0 <=> TwoRefs(t))
      /\ (t.op # "namex" => t.name \in DirNames) /\ (Linking(t) => LinkCall(p))
  BY <1>1, SoleIs
<1> HIDE DEF t
<1>3. dirlookup(t.i, t.name) \in {0} \cup Inums
  BY <1>1, <1>2, DirlinkIs
<1>4. itable' \in Table /\ ilk' \in Locks /\ UNCHANGED <<disk, procs, lost>>
  BY <1>2, <1>3, StoredIs, LocksAre DEF Unlink, t
<1> QED
  BY <1>4, SmallStep

LEMMA Unlink3Stores ==
  ASSUME RefInv, NEW p \in Procs, Unlink3(p)
  PROVE  Stored'
<1> DEFINE t == Now(p)
<1>1. Sole(p) /\ t.op = "unlink3"
  BY DEF Unlink3, At, Now, Sole
<1>2. /\ t.i \in Inums /\ (t.j # 0 => t.j \in Inums) /\ (t.j # 0 <=> TwoRefs(t))
      /\ (t.op # "namex" => t.name \in DirNames) /\ (Linking(t) => LinkCall(p))
  BY <1>1, SoleIs
<1> HIDE DEF t
<1>3. itable[t.i].d \in Node
  BY <1>2, StoredIs
<1>4. [itable[t.i].d EXCEPT !.nlink = @ - 1] \in Node
  BY <1>3, LinkLess
<1>5. ilk' \in Locks /\ UNCHANGED <<bitmap, ind, procs, lost, dents>>
  BY LocksAre DEF Unlink3
<1> QED
  BY <1>2, <1>4, <1>5, StoredIs, UpdateStep DEF Unlink3, t, Stored, OnDiskTypes

LEMMA LinkBadStores ==
  ASSUME RefInv, NEW p \in Procs, LinkBad(p)
  PROVE  Stored'
<1> DEFINE t == Now(p)
<1>1. Sole(p) /\ t.op = "linkbad"
  BY DEF LinkBad, At, Now, Sole
<1>2. /\ t.i \in Inums /\ (t.j # 0 => t.j \in Inums) /\ (t.j # 0 <=> TwoRefs(t))
      /\ (t.op # "namex" => t.name \in DirNames) /\ (Linking(t) => LinkCall(p))
  BY <1>1, SoleIs
<1> HIDE DEF t
<1>3. ilock(itable, t.i)[t.i].d \in Node /\ ilock(itable, t.i) \in Table
  BY <1>2, StoredIs
<1>4. [ilock(itable, t.i)[t.i].d EXCEPT !.nlink = @ - 1] \in Node
  BY <1>3, LinkLess
<1>5. ilk' \in Locks /\ UNCHANGED <<bitmap, ind, procs, lost, dents>>
  BY LocksAre DEF LinkBad
<1> QED
  BY <1>2, <1>3, <1>4, <1>5, StoredIs, UpdateStep DEF LinkBad, t, Stored, OnDiskTypes

LEMMA Unlink2Stores ==
  ASSUME RefInv, NEW p \in Procs, Unlink2(p)
  PROVE  Stored'
<1> DEFINE t == Now(p)
<1>1. Sole(p) /\ t.op = "unlink2"
  BY DEF Unlink2, At, Now, Sole
<1>2. /\ t.i \in Inums /\ (t.j # 0 => t.j \in Inums) /\ (t.j # 0 <=> TwoRefs(t))
      /\ (t.op # "namex" => t.name \in DirNames) /\ (Linking(t) => LinkCall(p))
  BY <1>1, SoleIs
<1> HIDE DEF t
<1> DEFINE T == ilock(itable, t.i)
           isdir == T[t.i].d.type = "dir"
           parent == [T[t.j].d EXCEPT !.nlink = IF isdir THEN @ - 1 ELSE @]
<1>3. t.j \in Inums /\ t.name \in DirNames
  BY <1>1, <1>2 DEF TwoRefs
<1>4. T \in Table /\ T[t.j].d \in Node
  BY <1>2, <1>3, StoredIs
<1>5. CASE isdir /\ ~isdirempty(t.i)
  <2>1. itable' = T /\ ilk' = ilk /\ UNCHANGED <<disk, procs, lost>>
    BY <1>5 DEF Unlink2, t
  <2> QED
    BY <1>4, <2>1, LocksAre, SmallStep
<1>6. CASE ~(isdir /\ ~isdirempty(t.i))
  <2>1. /\ dents' = dirlink(t.j, t.name, 0) /\ iupdate(T, t.j, parent)
        /\ ilk' = [ilk EXCEPT ![t.j] = NoProc, ![t.i] = p]
        /\ UNCHANGED <<bitmap, ind, procs, lost>>
    BY <1>6 DEF Unlink2, t
  <2>2. parent \in Node
    <3> DEFINE d == T[t.j].d
               n == IF isdir THEN d.nlink - 1 ELSE d.nlink
    <3>1. d \in Node /\ parent = [d EXCEPT !.nlink = n]
      BY <1>4
    <3> HIDE DEF d, isdir, parent
    <3>2. n \in Int
      BY <3>1, NodeIs
    <3> HIDE DEF n
    <3> QED
      BY <3>1, <3>2, NodeIs
  <2> HIDE DEF parent, T
  <2> QED
    BY <1>3, <1>4, <2>1, <2>2, DirlinkIs, LocksAre, UpdateStep
<1> QED
  BY <1>5, <1>6

LEMMA Link2Stores ==
  ASSUME RefInv, NEW p \in Procs, Link2(p)
  PROVE  Stored'
<1> DEFINE t == Now(p)
<1>1. Sole(p) /\ t.op = "link2"
  BY DEF Link2, At, Now, Sole
<1>2. /\ t.i \in Inums /\ (t.j # 0 => t.j \in Inums) /\ (t.j # 0 <=> TwoRefs(t))
      /\ (t.op # "namex" => t.name \in DirNames) /\ (Linking(t) => LinkCall(p))
  BY <1>1, SoleIs
<1> HIDE DEF t
<1>3. t.j \in Inums /\ t.name \in DirNames
  BY <1>1, <1>2 DEF TwoRefs
<1>4. /\ itable' = ilock(itable, t.i) /\ UNCHANGED <<dino, bitmap, ind, ilk, procs, lost>>
      /\ dents' = dents \/ dents' = dirlink(t.i, t.name, t.j)
  BY DEF Link2, t
<1>5. dents' \in [Inums -> [DirNames -> {0} \cup Inums]]
  <2>1. dirlink(t.i, t.name, t.j) \in [Inums -> [DirNames -> {0} \cup Inums]]
    BY <1>2, <1>3, DirlinkIs
  <2>2. dents \in [Inums -> [DirNames -> {0} \cup Inums]]
    BY StoredIs DEF Stored, OnDiskTypes
  <2> QED
    BY <1>4, <2>1, <2>2
<1>6. itable' \in Table
  BY <1>2, <1>4, StoredIs
<1> QED
  BY <1>4, <1>5, <1>6, StoredIs DEF Stored, OnDiskTypes, InMemoryTypes, Table, procs

LEMMA LinkStores ==
  ASSUME RefInv, NEW p \in Procs, Link(p)
  PROVE  Stored'
<1> DEFINE t == Now(p)
<1>1. Sole(p) /\ t.op = "link"
  BY DEF Link, At, Now, Sole
<1>2. /\ t.i \in Inums /\ (t.j # 0 => t.j \in Inums) /\ (t.j # 0 <=> TwoRefs(t))
      /\ (t.op # "namex" => t.name \in DirNames) /\ (Linking(t) => LinkCall(p))
  BY <1>1, SoleIs
<1> HIDE DEF t
<1> DEFINE T == ilock(itable, t.i)
           start == Start(p, call[p].new)
           d == T[t.i].d
<1>3. T \in Table /\ d \in Node /\ ilk' = ilk /\ UNCHANGED <<bitmap, ind, dents, ilk, procs, lost>>
  BY <1>2, StoredIs DEF Link
<1>4. CASE d.type = "dir"
  <2>1. itable' = T /\ UNCHANGED dino
    BY <1>4 DEF Link, t
  <2> QED
    BY <1>3, <2>1, LocksAre, SmallStep DEF disk
<1>5. CASE d.type # "dir"
  <2>1. iupdate(iget(T, start), t.i, [d EXCEPT !.nlink = @ + 1])
    BY <1>5 DEF Link, t
  <2>2. start \in Inums
    BY NumbersAre DEF Start, RefInv, Types0, ProcTypes
  <2>3. iget(T, start) \in Table
    BY <1>2, <2>2, StoredIs
  <2>4. [d EXCEPT !.nlink = @ + 1] \in Node
    BY <1>3, LinkLess
  <2> HIDE DEF T, start, d
  <2> QED
    BY <1>2, <1>3, <2>1, <2>3, <2>4, StoredIs, LocksAre, UpdateStep DEF Stored, OnDiskTypes
<1> QED
  BY <1>4, <1>5

LEMMA ChdirStores ==
  ASSUME RefInv, NEW p \in Procs, Chdir(p)
  PROVE  Stored'
<1> DEFINE t == Now(p)
<1>1. Sole(p) /\ t.op = "chdir"
  BY DEF Chdir, At, Now, Sole
<1>2. /\ t.i \in Inums /\ (t.j # 0 => t.j \in Inums) /\ (t.j # 0 <=> TwoRefs(t))
      /\ (t.op # "namex" => t.name \in DirNames) /\ (Linking(t) => LinkCall(p))
  BY <1>1, SoleIs
<1> HIDE DEF t
<1>3. itable' \in Table /\ ilk' = ilk /\ UNCHANGED <<disk, file, lost>>
  BY <1>2, StoredIs DEF Chdir, t
<1>4. cwd' \in [Procs -> Inums]
  BY <1>2, StoredIs DEF Chdir, t, Stored
<1> QED
  BY <1>3, <1>4, StoredIs DEF Stored, OnDiskTypes, InMemoryTypes, Table, disk

LEMMA CreateStores ==
  ASSUME RefInv, NEW p \in Procs, Create(p)
  PROVE  Stored'
<1> DEFINE t == Now(p)
<1>1. Sole(p) /\ t.op = "create"
  BY DEF Create, At, Now, Sole
<1>2. /\ t.i \in Inums /\ (t.j # 0 => t.j \in Inums) /\ (t.j # 0 <=> TwoRefs(t))
      /\ (t.op # "namex" => t.name \in DirNames) /\ (Linking(t) => LinkCall(p))
  BY <1>1, SoleIs
<1> HIDE DEF t
<1> DEFINE T == ilock(itable, t.i)
           old == dirlookup(t.i, t.name)
<1>3. T \in Table /\ UNCHANGED <<bitmap, ind, dents, procs>> /\ t.name \in DirNames
  BY <1>1, <1>2, StoredIs DEF Create
<1>4. CASE old # 0 /\ itable' = iget(T, old) /\ UNCHANGED <<dino, ilk, lost>>
  <2>1. old \in Inums
    BY <1>2, <1>3, <1>4, DirlinkIs
  <2>2. itable' \in Table
    BY <1>2, <1>4, <2>1, StoredIs
  <2> QED
    BY <1>3, <1>4, <2>2, LocksAre, SmallStep DEF disk
<1>5. CASE itable' = T /\ UNCHANGED <<dino, ilk, lost>>
  BY <1>3, <1>5, LocksAre, SmallStep DEF disk
<1>6. CASE /\ ialloc # 0 /\ itable' = T /\ ilk' = Lock(p, {t.i}) /\ lost' = lost \ {ialloc}
           /\ dino' = [dino EXCEPT ![ialloc] = [FreeInode EXCEPT !.type = TypeOf(call[p].op)]]
  <2>1. TypeOf(call[p].op) \in Types
    BY DEF TypeOf, Types
  <2>2. [FreeInode EXCEPT !.type = TypeOf(call[p].op)] \in Node
    BY <2>1, FreeInodeIs
  <2>3. dino' \in [Inums -> Node]
    BY <1>6, <2>2, StoredIs DEF Stored, OnDiskTypes
  <2>4. ilk' \in Locks /\ lost' \subseteq Inums
    BY <1>6, LocksAre, StoredIs DEF Stored, OnDiskTypes
  <2> QED
    BY <1>3, <1>6, <2>3, <2>4, StoredIs
       DEF Stored, OnDiskTypes, InMemoryTypes, Table, Locks, procs
<1> QED
  BY <1>4, <1>5, <1>6 DEF Create, t

LEMMA MadeIs ==
  ASSUME NEW d \in Node, NEW n \in 0..MAXFILE, NEW k \in {0} \cup Blocks
  PROVE  [d EXCEPT !.nlink = 1, !.size = n, !.addrs[0] = k] \in Node
<1> DEFINE e == [d EXCEPT !.nlink = 1, !.size = n]
<1>1. e \in Node
  <2> DEFINE c == [d EXCEPT !.nlink = 1]
  <2>1. c \in Node
    BY NodeIs
  <2>2. e = [c EXCEPT !.size = n]
    OBVIOUS
  <2> HIDE DEF c
  <2> QED
    BY <2>1, <2>2, NodeIs
<1>2. [d EXCEPT !.nlink = 1, !.size = n, !.addrs[0] = k] = [e EXCEPT !.addrs[0] = k]
  OBVIOUS
<1> HIDE DEF e
<1>3. 0 \in 0..NDIRECT
  BY NumbersAre
<1> QED
  BY <1>1, <1>2, <1>3, NodeIs

LEMMA MakeStores ==
  ASSUME RefInv, NEW p \in Procs, Make(p)
  PROVE  Stored'
<1> DEFINE t == Now(p)
<1>1. Sole(p) /\ t.op = "make"
  BY DEF Make, At, Now, Sole
<1>2. /\ t.i \in Inums /\ (t.j # 0 => t.j \in Inums) /\ (t.j # 0 <=> TwoRefs(t))
      /\ (t.op # "namex" => t.name \in DirNames) /\ (Linking(t) => LinkCall(p))
  BY <1>1, SoleIs
<1> HIDE DEF t
<1> DEFINE T == ilock(itable, t.i)
           isdir == TypeOf(call[p].op) = "dir"
           b == balloc(bitmap)
           k == IF isdir THEN b ELSE 0
           none == [T[t.i].d EXCEPT !.nlink = 0]
           made == [T[t.i].d EXCEPT !.nlink = 1, !.size = IF isdir THEN 1 ELSE 0, !.addrs[0] = k]
           parent == [T[t.j].d EXCEPT !.nlink = IF isdir THEN @ + 1 ELSE @]
           own == [NoEntries EXCEPT !["."] = t.i, ![".."] = t.j]
           old == dirlink(t.j, t.name, t.i)
<1>3. T \in Table /\ T[t.i].d \in Node /\ T[t.j].d \in Node /\ UNCHANGED <<ind, procs, lost>>
      /\ t.name \in DirNames /\ t.j \in Inums
  BY <1>1, <1>2, StoredIs DEF Make, TwoRefs
<1>4. CASE /\ iupdate(T, t.i, none) /\ UNCHANGED <<bitmap, ind, dents, ilk, lost>>
  <2>1. none \in Node
    BY <1>3, NodeIs
  <2> HIDE DEF none, T
  <2> QED
    BY <1>2, <1>3, <1>4, <2>1, LocksAre, DirlinkIs, UpdateStep
<1>5. CASE /\ dino' = [dino EXCEPT ![t.i] = made, ![t.j] = parent]
           /\ itable' = [T EXCEPT ![t.i].d = made, ![t.j].d = parent]
           /\ dents' = [old EXCEPT ![t.i] = IF isdir THEN own ELSE @]
           /\ bitmap' = bitmap \cup ({made.addrs[0]} \ {0})
           /\ ilk' = [ilk EXCEPT ![t.j] = NoProc, ![t.i] = p]
  <2>1. made \in Node /\ made.addrs[0] \in {0} \cup Blocks
    <3> DEFINE d == T[t.i].d
               n == IF isdir THEN 1 ELSE 0
    <3>1. d \in Node /\ n \in 0..MAXFILE /\ k \in {0} \cup Blocks /\ 0 \in 0..NDIRECT
      BY <1>3, NumbersAre, AllocIs
    <3> HIDE DEF d, n, k
    <3>2. [d EXCEPT !.nlink = 1, !.size = n, !.addrs[0] = k] \in Node
      BY <3>1, MadeIs
    <3>3. made \in Node
      BY <3>2 DEF d, n
    <3> HIDE DEF made
    <3> QED
      BY <3>1, <3>3 DEF Node
  <2>2. parent \in Node
    <3> DEFINE d == T[t.j].d
               n == IF isdir THEN d.nlink + 1 ELSE d.nlink
    <3>1. d \in Node /\ parent = [d EXCEPT !.nlink = n]
      BY <1>3
    <3> HIDE DEF d, isdir, parent
    <3>2. n \in Int
      BY <3>1, NodeIs
    <3> HIDE DEF n
    <3> QED
      BY <3>1, <3>2, NodeIs
  <2>3. own \in [DirNames -> {0} \cup Inums]
    BY <1>2, <1>3 DEF NoEntries
  <2>4. old \in [Inums -> [DirNames -> {0} \cup Inums]]
    BY <1>2, <1>3, DirlinkIs
  <2> HIDE DEF made, parent, own, old, T, isdir
  <2>5. dino' \in [Inums -> Node] /\ itable' \in Table
    <3>1. dino \in [Inums -> Node]
      BY StoredIs DEF Stored, OnDiskTypes
    <3>2. dino' \in [Inums -> Node]
      BY <1>5, <2>1, <2>2, <3>1
    <3> DEFINE U == [T EXCEPT ![t.i].d = made]
    <3>3. U \in Table
      BY <1>2, <1>3, <2>1, TableHas
    <3>4. itable' = [U EXCEPT ![t.j].d = parent]
      BY <1>5
    <3> HIDE DEF U
    <3> QED
      BY <1>3, <2>2, <3>2, <3>3, <3>4, TableHas
  <2>6. dents' \in [Inums -> [DirNames -> {0} \cup Inums]]
    BY <1>2, <1>5, <2>3, <2>4
  <2>7. bitmap' \subseteq Blocks /\ ilk' \in Locks
    BY <1>5, <2>1, LocksAre, StoredIs DEF Stored, OnDiskTypes
  <2> QED
    BY <1>3, <2>5, <2>6, <2>7, StoredIs DEF Stored, OnDiskTypes, InMemoryTypes, Table, Locks, procs
<1> QED
  BY <1>4, <1>5 DEF Make, t

LEMMA TruncStep ==
  ASSUME RefInv, NEW i \in Inums, itrunc(itable, i), cwd' = cwd, lost' \subseteq Inums, ilk' \in Locks,
         file' \in [Procs -> [ip : {0} \cup Inums, off : 0..MAXFILE, writable : BOOLEAN]],
         dents' \in [Inums -> [DirNames -> {0} \cup Inums]]
  PROVE  Stored'
<1>1. Truncated(itable[i].d) \in Node
  BY StoredIs, NodeIs
<1>2. itable' \in Table /\ dino' \in [Inums -> Node]
  BY <1>1, StoredIs, TableHas DEF itrunc, iupdate, Stored, OnDiskTypes
<1>3. bitmap' \subseteq Blocks /\ ind' = ind
  BY StoredIs DEF itrunc, Stored, OnDiskTypes
<1> QED
  BY <1>2, <1>3, StoredIs DEF Stored, OnDiskTypes, InMemoryTypes, Table, Locks

LEMMA OpenedStores ==
  ASSUME RefInv, NEW p \in Procs, Opened(p)
  PROVE  Stored'
<1> DEFINE t == Now(p)
<1>1. Sole(p) /\ t.op = "opened"
  BY DEF Opened, At, Now, Sole
<1>2. /\ t.i \in Inums /\ (t.j # 0 => t.j \in Inums) /\ (t.j # 0 <=> TwoRefs(t))
      /\ (t.op # "namex" => t.name \in DirNames) /\ (Linking(t) => LinkCall(p))
  BY <1>1, SoleIs
<1> HIDE DEF t
<1> DEFINE Files0 == [Procs -> [ip : {0} \cup Inums, off : 0..MAXFILE, writable : BOOLEAN]]
<1>3. ilk' \in Locks /\ cwd' = cwd /\ lost' = lost
  BY LocksAre DEF Opened
<1>4. file' \in Files0
  <2>1. file \in Files0
    BY StoredIs DEF Stored
  <2> DEFINE w == call[p].mode # "rd"
             f == [ip |-> t.i, off |-> 0, writable |-> w]
  <2>2. file' = file \/ file' = [file EXCEPT ![p] = f]
    BY DEF Opened, t
  <2>3. w \in BOOLEAN
    OBVIOUS
  <2> HIDE DEF w
  <2>4. f \in [ip : {0} \cup Inums, off : 0..MAXFILE, writable : BOOLEAN]
    BY <1>2, <2>3, NumbersAre
  <2> HIDE DEF f
  <2> QED
    BY <2>1, <2>2, <2>4
<1>5. UNCHANGED <<disk, itable>> \/ (itrunc(itable, t.i) /\ UNCHANGED dents)
  BY DEF Opened, t
<1>6. CASE UNCHANGED <<disk, itable>>
  BY <1>3, <1>4, <1>6, StoredIs DEF Stored, OnDiskTypes, InMemoryTypes, Table, Locks, disk
<1>7. CASE itrunc(itable, t.i) /\ UNCHANGED dents
  BY <1>2, <1>3, <1>4, <1>7, StoredIs, TruncStep DEF Stored, OnDiskTypes
<1> QED
  BY <1>5, <1>6, <1>7

LEMMA IputDropStores ==
  ASSUME RefInv, NEW p \in Procs, IputDrop(p)
  PROVE  Stored'
<1> DEFINE i == Now(p).i
<1>1. i \in Inums
  BY FirstIs DEF IputDrop, At
<1>2. itable' = [itable EXCEPT ![i].ref = itable[i].ref - 1]
  BY DEF IputDrop, i
<1> HIDE DEF i
<1>3. itable \in Table
  BY StoredIs
<1>4. itable' \in Table
  <2>1. itable[i].ref - 1 \in Int
    BY <1>1, <1>3 DEF Table
  <2> QED
    BY <1>1, <1>2, <1>3, <2>1, TableHas
<1> QED
  BY <1>4, LocksAre, SmallStep DEF IputDrop

LEMMA IputEndStores ==
  ASSUME RefInv, NEW p \in Procs, IputEnd(p)
  PROVE  Stored'
<1> DEFINE i == Now(p).i
<1>1. i \in Inums
  BY FirstIs DEF IputEnd, At
<1>2. itable' = [itable EXCEPT ![i].ref = itable[i].ref - 1]
  BY DEF IputEnd, i
<1> HIDE DEF i
<1>3. itable \in Table
  BY StoredIs
<1>4. itable' \in Table
  <2>1. itable[i].ref - 1 \in Int
    BY <1>1, <1>3 DEF Table
  <2> QED
    BY <1>1, <1>2, <1>3, <2>1, TableHas
<1> QED
  BY <1>4, LocksAre, SmallStep DEF IputEnd

LEMMA IgetStores ==
  ASSUME RefInv, NEW p \in Procs, Iget(p)
  PROVE  Stored'
<1> DEFINE i == Now(p).i
<1>1. i \in Inums
  BY FirstIs DEF Iget, At
<1> QED
  BY <1>1, StoredIs, LocksAre, SmallStep DEF Iget

LEMMA IputLastStores ==
  ASSUME RefInv, NEW p \in Procs, IputLast(p)
  PROVE  Stored'
<1> DEFINE i == Now(p).i
<1>1. i \in Inums
  BY FirstIs DEF IputLast, At
<1> QED
  BY StoredIs, LocksAre, SmallStep DEF IputLast

LEMMA IputReleaseStores ==
  ASSUME RefInv, NEW p \in Procs, IputRelease(p)
  PROVE  Stored'
<1> DEFINE i == Now(p).i
<1>1. i \in Inums
  BY FirstIs DEF IputRelease, At
<1>2. itable' \in Table
  BY <1>1, StoredIs, TableHas DEF IputRelease
<1> QED
  BY <1>2, LocksAre, SmallStep DEF IputRelease

LEMMA IputFreeStores ==
  ASSUME RefInv, NEW p \in Procs, IputFree(p)
  PROVE  Stored'
<1> DEFINE i == Now(p).i
<1>1. i \in Inums
  BY FirstIs DEF IputFree, At
<1>2. [itable[i].d EXCEPT !.type = "none"] \in Node
  BY <1>1, StoredIs, NodeIs DEF Types
<1> QED
  BY <1>1, <1>2, StoredIs, LocksAre, UpdateStep DEF IputFree, Stored, OnDiskTypes

LEMMA IputTruncStores ==
  ASSUME RefInv, NEW p \in Procs, IputTrunc(p)
  PROVE  Stored'
<1> DEFINE i == Now(p).i
<1>1. i \in Inums
  BY FirstIs DEF IputTrunc, At
<1>2. dents \in [Inums -> [DirNames -> {0} \cup Inums]] /\ NoEntries \in [DirNames -> {0} \cup Inums]
  BY StoredIs DEF Stored, OnDiskTypes, NoEntries
<1>3. dents' \in [Inums -> [DirNames -> {0} \cup Inums]]
  BY <1>2 DEF IputTrunc
<1>4. lost' \subseteq Inums
  <2>1. {dents[i][n] : n \in Names} \ {0} \subseteq Inums
    BY <1>1, <1>2 DEF DirNames
  <2>2. lost' = lost \cup ({dents[i][n] : n \in Names} \ {0})
    BY DEF IputTrunc
  <2> QED
    BY <2>1, <2>2, StoredIs DEF Stored, OnDiskTypes
<1>5. itrunc(itable, i) /\ cwd' = cwd /\ file' = file /\ ilk' = ilk
  BY DEF IputTrunc, procs
<1> QED
  BY <1>1, <1>3, <1>4, <1>5, LocksAre, StoredIs, TruncStep DEF Stored

LEMMA BeginPathStores ==
  ASSUME RefInv, NEW p \in Procs, NEW c \in Calls[p], BeginPath(p, c)
  PROVE  Stored'
<1>1. Start(p, c.path) \in Inums
  BY NumbersAre DEF Start, RefInv, Types0, ProcTypes
<1>2. itable' \in Table /\ UNCHANGED <<disk, procs, lost>> /\ ilk' = ilk
  BY <1>1, StoredIs DEF BeginPath, procs
<1> QED
  BY <1>2, LocksAre, SmallStep

\* Of an open file, whether it is one, and the block where it stands.
File == [ip : {0} \cup Inums, off : 0..MAXFILE, writable : BOOLEAN]

LEMMA CloseStores ==
  ASSUME RefInv, NEW p \in Procs, Close(p)
  PROVE  Stored'
<1>1. file \in [Procs -> File] /\ NoFile \in File
  BY StoredIs, NumbersAre DEF Stored, File, NoFile
<1>2. file' \in [Procs -> File]
  BY <1>1 DEF Close
<1> QED
  BY <1>2, StoredIs DEF Close, Stored, OnDiskTypes, InMemoryTypes, Table, File, disk

LEMMA FilereadStores ==
  ASSUME RefInv, NEW p \in Procs, Fileread(p)
  PROVE  Stored'
<1> DEFINE i == file[p].ip
           T == ilock(itable, i)
           n == readi(T[i].d, file[p].off)
<1>1. i \in Inums /\ file \in [Procs -> File] /\ file[p].off \in 0..MAXFILE
  BY StoredIs DEF Fileread, OnDisk, Stored, File
<1>2. T \in Table /\ T[i].d \in Node /\ itable' = T /\ file' = [file EXCEPT ![p].off = file[p].off + n]
      /\ UNCHANGED <<disk, ilk, cwd, lost>>
  BY <1>1, StoredIs DEF Fileread
<1>3. file[p].off + n \in 0..MAXFILE
  <2>1. T[i].d.size \in 0..MAXFILE
    BY <1>2, NodeIs
  <2> QED
    BY <1>1, <2>1, NumbersAre DEF readi
<1> HIDE DEF T, n
<1>4. file' \in [Procs -> File]
  BY <1>1, <1>2, <1>3 DEF File
<1> QED
  BY <1>2, <1>4, StoredIs DEF Stored, OnDiskTypes, InMemoryTypes, Table, File, disk

\* bmap(): the inode, the blocks in use and the indirect blocks.
Inds == [Blocks -> [0..(NINDIRECT - 1) -> {0} \cup Blocks]]
Maps == [d : Node, used : SUBSET Blocks, ind : Inds, addr : {0} \cup Blocks]

LEMMA BmapIs ==
  ASSUME NEW f \in Maps, NEW bn \in 0..(MAXFILE - 1)
  PROVE  bmap(f, bn) \in Maps
<1> DEFINE k == IF bn < NDIRECT THEN bn ELSE NDIRECT
           a == IF f.d.addrs[k] # 0 THEN f.d.addrs[k] ELSE balloc(f.used)
           z == [m \in 0..(NINDIRECT - 1) |-> 0]
           g == IF f.d.addrs[k] # 0 \/ a = 0 THEN f
                ELSE [f EXCEPT !.d.addrs[k] = a, !.used = @ \cup {a}, !.ind[a] = z]
           j == bn - NDIRECT
           b == IF g.ind[a][j] # 0 THEN g.ind[a][j] ELSE balloc(g.used)
<1>1. k \in 0..NDIRECT /\ (bn >= NDIRECT => j \in 0..(NINDIRECT - 1)) /\ bn \in Nat
  BY NumbersAre
<1>2. f.d \in Node /\ f.used \subseteq Blocks /\ f.ind \in Inds /\ f.d.addrs[k] \in {0} \cup Blocks
  BY <1>1, NodeIs DEF Maps
<1>3. a \in {0} \cup Blocks
  BY <1>2, AllocIs
<1>4. g \in Maps
  <2>1. CASE f.d.addrs[k] # 0 \/ a = 0
    BY <2>1
  <2>2. CASE ~(f.d.addrs[k] # 0 \/ a = 0)
    <3>1. z \in [0..(NINDIRECT - 1) -> {0} \cup Blocks]
      OBVIOUS
    <3> DEFINE d2 == [f.d EXCEPT !.addrs[k] = a]
               u2 == f.used \cup {a}
               i2 == [f.ind EXCEPT ![a] = z]
    <3>2. d2 \in Node
      BY <1>1, <1>2, <1>3, NodeIs
    <3>3. i2 \in Inds
      BY <1>2, <3>1 DEF Inds
    <3>4. u2 \subseteq Blocks
      BY <1>2, <1>3, <2>2
    <3>5. g = [d |-> d2, used |-> u2, ind |-> i2, addr |-> f.addr]
      BY <2>2 DEF Maps
    <3>6. f.addr \in {0} \cup Blocks
      BY DEF Maps
    <3> HIDE DEF d2, u2, i2, g
    <3> QED
      BY <3>2, <3>3, <3>4, <3>5, <3>6 DEF Maps
  <2> QED
    BY <2>1, <2>2
<1> HIDE DEF a, g
<1>5. CASE bn < NDIRECT \/ a = 0
  <2>1. bmap(f, bn) = [g EXCEPT !.addr = a]
    BY <1>5 DEF bmap, g, a
  <2> QED
    BY <1>3, <1>4, <2>1 DEF Maps
<1>6. CASE ~(bn < NDIRECT \/ a = 0)
  <2>1. a \in Blocks /\ j \in 0..(NINDIRECT - 1)
    BY <1>1, <1>3, <1>6, NumbersAre
  <2>2. g.ind \in Inds /\ g.used \subseteq Blocks /\ g.ind[a][j] \in {0} \cup Blocks
    <3>1. g.ind \in Inds /\ g.used \subseteq Blocks
      BY <1>4 DEF Maps
    <3> HIDE DEF j
    <3>2. g.ind[a] \in [0..(NINDIRECT - 1) -> {0} \cup Blocks]
      BY <2>1, <3>1 DEF Inds
    <3> QED
      BY <2>1, <3>1, <3>2
  <2>3. b \in {0} \cup Blocks
    BY <2>2, AllocIs
  <2>4. CASE g.ind[a][j] # 0 \/ b = 0
    <3>1. bmap(f, bn) = [g EXCEPT !.addr = b]
      BY <1>6, <2>4 DEF bmap, g, a
    <3> HIDE DEF b
    <3> QED
      BY <1>4, <2>3, <3>1 DEF Maps
  <2>5. CASE ~(g.ind[a][j] # 0 \/ b = 0)
    <3>1. bmap(f, bn) = [g EXCEPT !.ind[a][j] = b, !.used = @ \cup {b}, !.addr = b]
      BY <1>6, <2>5 DEF bmap, g, a
    <3> HIDE DEF b, j
    <3> DEFINE i2 == [g.ind EXCEPT ![a][j] = b]
               u2 == g.used \cup {b}
    <3>2. i2 \in Inds
      BY <2>1, <2>2, <2>3 DEF Inds
    <3>3. u2 \subseteq Blocks
      BY <2>2, <2>3, <2>5
    <3>4. [g EXCEPT !.ind[a][j] = b, !.used = @ \cup {b}, !.addr = b]
            = [d |-> g.d, used |-> u2, ind |-> i2, addr |-> b]
      <4> DEFINE e == [g EXCEPT !.ind[a][j] = b, !.used = @ \cup {b}, !.addr = b]
      <4>1. e = [g EXCEPT !.ind = i2, !.used = u2, !.addr = b]
        OBVIOUS
      <4> HIDE DEF i2, u2, e
      <4>2. e = [d |-> g.d, used |-> u2, ind |-> i2, addr |-> b]
        BY <1>4, <4>1 DEF Maps
      <4> QED
        BY <4>2 DEF e
    <3>5. g.d \in Node
      BY <1>4 DEF Maps
    <3> HIDE DEF i2, u2
    <3> QED
      BY <2>3, <3>1, <3>2, <3>3, <3>4, <3>5 DEF Maps
  <2> QED
    BY <2>4, <2>5
<1> QED
  BY <1>5, <1>6

LEMMA WriteiIs ==
  ASSUME RefInv, NEW T \in Table, NEW i \in Inums, NEW off \in 0..MAXFILE
  PROVE  LET w == writei(T, i, off) IN
         /\ w.d \in Node /\ w.used \subseteq Blocks /\ w.ind \in Inds /\ off + w.tot \in 0..MAXFILE
<1> DEFINE d == T[i].d
           h == [d |-> d, used |-> bitmap, ind |-> ind, addr |-> 0]
           f == bmap(h, off)
           tot == IF f.addr = 0 THEN 0 ELSE 1
           n == IF off + tot > f.d.size THEN off + tot ELSE f.d.size
<1>1. d \in Node /\ bitmap \subseteq Blocks /\ ind \in Inds
  BY StoredIs, TableHas DEF Stored, OnDiskTypes, Inds
<1>2. CASE off > d.size \/ off >= MAXFILE
  <2>1. writei(T, i, off) = [d |-> d, used |-> bitmap, ind |-> ind, tot |-> 0]
    BY <1>2 DEF writei
  <2> HIDE DEF d
  <2> QED
    BY <1>1, <2>1
<1>3. CASE ~(off > d.size \/ off >= MAXFILE)
  <2>1. d.size \in 0..MAXFILE
    BY <1>1, NodeIs
  <2> HIDE DEF d
  <2>2. off \in 0..(MAXFILE - 1)
    BY <1>3, <2>1, NumbersAre
  <2>3. h \in Maps
    BY <1>1 DEF Maps
  <2> HIDE DEF h
  <2>4. f \in Maps
    BY <2>2, <2>3, BmapIs
  <2>5. writei(T, i, off) = [d |-> [f.d EXCEPT !.size = n], used |-> f.used, ind |-> f.ind, tot |-> tot]
    BY <1>3, <2>4 DEF writei, h, d, Maps, Node
  <2> HIDE DEF f
  <2>6. f.d \in Node /\ f.used \subseteq Blocks /\ f.ind \in Inds /\ tot \in 0..1
    BY <2>4 DEF Maps
  <2>7. n \in 0..MAXFILE
    BY <2>2, <2>6, NodeIs, NumbersAre
  <2> HIDE DEF n, tot
  <2>8. [f.d EXCEPT !.size = n] \in Node
    BY <2>6, <2>7, NodeIs
  <2>9. off + tot \in 0..MAXFILE
    BY <2>2, <2>6, NumbersAre
  <2> QED
    BY <2>5, <2>6, <2>8, <2>9
<1> QED
  BY <1>2, <1>3

LEMMA FilewriteStores ==
  ASSUME RefInv, NEW p \in Procs, Filewrite(p)
  PROVE  Stored'
<1> DEFINE i == file[p].ip
           T == ilock(itable, i)
           w == writei(T, i, file[p].off)
<1>1. i \in Inums /\ file \in [Procs -> File] /\ file[p].off \in 0..MAXFILE
  BY StoredIs DEF Filewrite, OnDisk, Stored, File
<1>2. /\ iupdate(T, i, w.d) /\ bitmap' = w.used /\ ind' = w.ind
      /\ file' = [file EXCEPT ![p].off = file[p].off + w.tot]
      /\ UNCHANGED <<dents, ilk, cwd, lost>>
  BY DEF Filewrite
<1>3. T \in Table
  BY <1>1, StoredIs
<1> HIDE DEF T
<1>4. w.d \in Node /\ w.used \subseteq Blocks /\ w.ind \in Inds /\ file[p].off + w.tot \in 0..MAXFILE
  BY <1>1, <1>3, WriteiIs
<1> HIDE DEF w
<1>5. file' \in [Procs -> File]
  BY <1>1, <1>2, <1>4 DEF File
<1>6. itable' \in Table
  BY <1>1, <1>2, <1>3, <1>4, TableHas DEF iupdate
<1>7. dino' \in [Inums -> Node]
  BY <1>1, <1>2, <1>4, StoredIs DEF iupdate, Stored, OnDiskTypes
<1> QED
  BY <1>2, <1>4, <1>5, <1>6, <1>7, StoredIs
     DEF Stored, OnDiskTypes, InMemoryTypes, Table, File, Inds

-----------------------------------------------------------------------------
(* The invariant holds in every state. *)

\* A set with every member tagged has as many members.
LEMMA Tagged ==
  ASSUME NEW S, IsFiniteSet(S), NEW v
  PROVE  IsFiniteSet(S \X {v}) /\ Cardinality(S \X {v}) = Cardinality(S)
<1> DEFINE One == {v}
<1>1. IsFiniteSet(One) /\ Cardinality(One) = 1
  BY FS_Singleton, Zenon
<1> HIDE DEF One
<1>2. IsFiniteSet(S \X One) /\ Cardinality(S \X One) = Cardinality(S) * Cardinality(One)
  BY <1>1, FS_Product
<1>3. Cardinality(S) \in Nat
  BY FS_CardinalityType
<1>4. Cardinality(S \X One) = Cardinality(S)
  BY <1>1, <1>2, <1>3
<1> QED
  BY <1>2, <1>4 DEF One

LEMMA StepReturns ==
  ASSUME NEW p, FsStep(p) \/ CallStep(p)
  PROVE  \E r : Return(p, r)
<1>1. CASE \E s : Go(p, s)
  BY <1>1 DEF Go
<1>2. CASE NamexEnd(p)
  BY <1>2 DEF NamexEnd, Go
<1>3. CASE NamexStep(p)
  BY <1>3 DEF NamexStep, Go
<1>4. CASE Create(p)
  BY <1>4 DEF Create, Go
<1>5. CASE Make(p)
  BY <1>5 DEF Make, Go
<1>6. CASE \/ Iunlockput(p) \/ IputDrop(p) \/ IputLast(p) \/ IputTrunc(p) \/ IputFree(p)
           \/ IputRelease(p) \/ IputEnd(p)
  BY <1>1, <1>6 DEF Iunlockput, IputDrop, IputLast, IputTrunc, IputFree, IputRelease, IputEnd
<1>7. CASE \/ Iget(p) \/ Exists(p) \/ Open(p) \/ Opened(p) \/ Unlink(p) \/ Unlink2(p) \/ Unlink3(p)
           \/ Link(p) \/ Link2(p) \/ LinkBad(p) \/ Chdir(p)
  BY <1>1, <1>7 DEF Iget, Exists, Open, Opened, Unlink, Unlink2, Unlink3, Link, Link2, LinkBad, Chdir
<1> QED
  BY <1>2, <1>3, <1>4, <1>5, <1>6, <1>7 DEF FsStep, CallStep

\* What is left of the calls stays a sequence of steps.
LEMMA CallTypes ==
  ASSUME RefInv, NEW p \in Procs, Moved(p), NEW r, Return(p, r)
  PROVE  todo' \in [Procs -> Seq(Todo)] /\ call' \in [Procs -> AllCalls]
<1>1. todo \in [Procs -> Seq(Todo)] /\ call \in [Procs -> AllCalls] /\ NoCall \in AllCalls
  BY DEF RefInv, Types0, ProcTypes, AllCalls
<1>2. todo' = [todo EXCEPT ![p] = r] /\ todo'[p] \in Seq(Todo)
  BY DEF Return, Moved
<1>3. r \in Seq(Todo)
  BY <1>1, <1>2
<1>4. call' = [call EXCEPT ![p] = NoCall] \/ call' = call
  BY DEF Return
<1> QED
  BY <1>1, <1>2, <1>3, <1>4

LEMMA Moves ==
  ASSUME RefInv, NEW p \in Procs, FsStep(p) \/ CallStep(p)
  PROVE  Moved(p) /\ Stored'
<1>1. CASE FsStep(p)
  BY <1>1, IunlockputMoves, IputDropMoves, IputLastMoves, IputTruncMoves, IputFreeMoves,
     IputReleaseMoves, IputEndMoves, NamexEndMoves, NamexStepMoves,
     IunlockputStores, IputDropStores, IputLastStores, IputTruncStores, IputFreeStores,
     IputReleaseStores, IputEndStores, NamexEndStores, NamexStepStores DEF FsStep
<1>2. CASE CallStep(p)
  BY <1>2, CreateMoves, IgetMoves, ExistsMoves, MakeMoves, OpenMoves, OpenedMoves, UnlinkMoves,
     Unlink2Moves, Unlink3Moves, LinkMoves, Link2Moves, LinkBadMoves, ChdirMoves,
     CreateStores, IgetStores, ExistsStores, MakeStores, OpenStores, OpenedStores, UnlinkStores,
     Unlink2Stores, Unlink3Stores, LinkStores, Link2Stores, LinkBadStores, ChdirStores
     DEF CallStep
<1> QED
  BY <1>1, <1>2

LEMMA Together ==
  ASSUME RefInv, NEW p \in Procs, Moved(p), Stored',
         todo' \in [Procs -> Seq(Todo)], call' \in [Procs -> AllCalls]
  PROVE  RefInv'
<1>1. Shapes' /\ Recalled' /\ Counted' /\ Locking'
  BY MovedIs DEF RefInv
<1>2. Types0'
  BY DEF Stored, Types0, ProcTypes
<1> QED
  BY <1>1, <1>2 DEF RefInv

LEMMA RefNext ==
  ASSUME RefInv, [Next]_vars
  PROVE  RefInv'
<1>1. CASE UNCHANGED vars
  BY <1>1 DEF vars, disk, procs, RefInv, Types0, OnDiskTypes, InMemoryTypes, ProcTypes, Shapes,
              Recalled, LinkCall, Counted, Units, Held, Refs, PutRef, MainRef, Busy, Skip, Main, Locking,
              PutLock, MainLock, Formed, Freeing, Making
<1>2. CASE Next
  <2> PICK p \in Procs : \/ \E c \in Calls[p] : BeginPath(p, c)
                         \/ Close(p) \/ Fileread(p) \/ Filewrite(p)
                         \/ ~Panics(p) /\ (FsStep(p) \/ CallStep(p))
    BY <1>2 DEF Next
  <2>1. CASE \E c \in Calls[p] : BeginPath(p, c)
    <3> PICK c \in Calls[p] : BeginPath(p, c)
      BY <2>1
    <3>1. Moved(p) /\ Stored'
      BY BeginPathMoves, BeginPathStores
    <3>2. todo' \in [Procs -> Seq(Todo)] /\ call' \in [Procs -> AllCalls]
      <4>1. todo \in [Procs -> Seq(Todo)] /\ call \in [Procs -> AllCalls] /\ c \in AllCalls
        BY DEF RefInv, Types0, ProcTypes, AllCalls
      <4>2. PICK r : todo' = [todo EXCEPT ![p] = r] /\ call' = [call EXCEPT ![p] = c]
        BY DEF BeginPath
      <4>3. r \in Seq(Todo)
        BY <3>1, <4>1, <4>2 DEF Moved
      <4> QED
        BY <4>1, <4>2, <4>3
    <3> QED
      BY <3>1, <3>2, Together
  <2>2. CASE Close(p)
    <3>1. Moved(p) /\ Stored'
      BY <2>2, CloseMoves, CloseStores
    <3>2. todo' \in [Procs -> Seq(Todo)] /\ call' \in [Procs -> AllCalls]
      <4>1. todo \in [Procs -> Seq(Todo)] /\ call \in [Procs -> AllCalls]
        BY DEF RefInv, Types0, ProcTypes
      <4>2. PICK r : todo' = [todo EXCEPT ![p] = r] /\ call' = call
        BY <2>2 DEF Close
      <4>3. r \in Seq(Todo)
        BY <3>1, <4>1, <4>2 DEF Moved
      <4> QED
        BY <4>1, <4>2, <4>3
    <3> QED
      BY <3>1, <3>2, Together
  <2>3. CASE Fileread(p) \/ Filewrite(p)
    <3>1. Moved(p) /\ Stored' /\ todo' = todo /\ call' = call
      BY <2>3, FilereadMoves, FilereadStores, FilewriteMoves, FilewriteStores
         DEF Fileread, Filewrite
    <3>2. todo' \in [Procs -> Seq(Todo)] /\ call' \in [Procs -> AllCalls]
      BY <3>1 DEF RefInv, Types0, ProcTypes
    <3> QED
      BY <3>1, <3>2, Together
  <2>4. CASE FsStep(p) \/ CallStep(p)
    <3>1. Moved(p) /\ Stored'
      BY <2>4, Moves
    <3>2. todo' \in [Procs -> Seq(Todo)] /\ call' \in [Procs -> AllCalls]
      BY <2>4, <3>1, StepReturns, CallTypes
    <3> QED
      BY <3>1, <3>2, Together
  <2> QED
    BY <2>1, <2>2, <2>3, <2>4
<1> QED
  BY <1>1, <1>2

LEMMA RefInit ==
  ASSUME Init
  PROVE  RefInv
<1>1. Cardinality(Procs) \in Nat
  BY FsConstants, FS_CardinalityType
<1>2. Dinode \subseteq Node
  BY DEF Dinode, Node
<1>3. OnDiskTypes
  BY <1>2, ImageFits DEF Init, OnDiskTypes
<1>4. InMemoryTypes
  <2>1. NewInode \in [ref : Int, valid : BOOLEAN, d : Node]
    BY FreeInodeIs DEF NewInode
  <2>2. [NewInode EXCEPT !.ref = Cardinality(Procs)] \in [ref : Int, valid : BOOLEAN, d : Node]
    BY <1>1, <2>1
  <2> QED
    BY <2>1, <2>2 DEF Init, InMemoryTypes
<1>5. ProcTypes
  <2>1. NoFile \in [ip : {0} \cup Inums, off : 0..MAXFILE, writable : BOOLEAN]
    BY NumbersAre DEF NoFile
  <2>2. <<>> \in Seq(Todo) /\ NoCall \in AllCalls
    BY Done DEF AllCalls
  <2> QED
    BY <2>1, <2>2, NumbersAre DEF Init, ProcTypes
<1>6. \A p \in Procs : todo[p] = <<>>
  BY DEF Init
<1>7. Shapes /\ Recalled
  BY <1>6, Done DEF Shapes, Recalled
<1>8. Locking
  BY <1>6, Done, FsConstants DEF Locking, Init
<1>9. Counted
  <2> SUFFICES ASSUME NEW i \in Inums
               PROVE  itable[i].ref = Cardinality(Units(i))
    BY DEF Counted
  <2>1. \A p \in Procs : Held(p, i) = Bit(ROOTINO = i)
    BY <1>6, Done DEF Held, Init, NoFile, Bit, Inums
  <2>2. CASE i = ROOTINO
    <3>1. Units(i) = Procs \X {1}
      BY <2>1, <2>2 DEF Units, Bit
    <3>2. Cardinality(Procs \X {1}) = Cardinality(Procs)
      BY FsConstants, Tagged
    <3>3. itable[i].ref = Cardinality(Procs)
      BY <2>2 DEF Init, NewInode
    <3> QED
      BY <1>1, <3>1, <3>2, <3>3
  <2>3. CASE i # ROOTINO
    <3>1. Units(i) = {}
      BY <2>1, <2>3 DEF Units, Bit
    <3>2. itable[i].ref = 0
      BY <2>3 DEF Init, NewInode
    <3> QED
      BY <3>1, <3>2, FS_EmptySet
  <2> QED
    BY <2>2, <2>3
<1> QED
  BY <1>3, <1>4, <1>5, <1>7, <1>8, <1>9 DEF RefInv, Types0

-----------------------------------------------------------------------------
(* Nothing is left between calls. *)

LEMMA NoLeak ==
  ASSUME RefInv
  PROVE  NothingLeaks
<1> SUFFICES ASSUME Quiet, NEW i \in Inums
             PROVE  /\ ilk[i] = NoProc
                    /\ itable[i].ref = Cardinality({p \in Procs : cwd[p] = i})
                                       + Cardinality({p \in Procs : file[p].ip = i})
  BY DEF NothingLeaks
<1>1. \A p \in Procs : todo[p] = <<>>
  BY DEF Quiet
<1>2. ilk[i] = NoProc
  <2>1. \A p \in Procs : ilk[i] # p
    BY <1>1, StartIs
  <2> QED
    BY <2>1 DEF RefInv, Types0, InMemoryTypes
<1> DEFINE C == {p \in Procs : cwd[p] = i}
           F == {p \in Procs : file[p].ip = i}
           X == (C \cup F) \X {1}
           Y == (C \cap F) \X {2}
<1>3. \A p \in Procs : Held(p, i) = Bit(cwd[p] = i) + Bit(file[p].ip = i)
  BY <1>1, Done DEF Held, Bit
<1>4. Units(i) = X \cup Y
  BY <1>3 DEF Units, Bit
<1>5. IsFiniteSet(C) /\ IsFiniteSet(F)
  BY FS_Subset, FsConstants
<1> HIDE DEF C, F
<1>6. /\ IsFiniteSet(C \cup F) /\ IsFiniteSet(C \cap F)
      /\ Cardinality(C \cup F) = Cardinality(C) + Cardinality(F) - Cardinality(C \cap F)
  BY <1>5, FS_Union, FS_Intersection
<1>7. /\ IsFiniteSet(X) /\ Cardinality(X) = Cardinality(C \cup F)
      /\ IsFiniteSet(Y) /\ Cardinality(Y) = Cardinality(C \cap F)
  BY <1>6, Tagged
<1>8. X \cap Y = {}
  OBVIOUS
<1> HIDE DEF X, Y
<1>9. Cardinality(X \cup Y) = Cardinality(X) + Cardinality(Y) - 0
  BY <1>7, <1>8, FS_Union, FS_EmptySet
<1>10. /\ Cardinality(C) \in Nat /\ Cardinality(F) \in Nat /\ Cardinality(C \cup F) \in Nat
       /\ Cardinality(C \cap F) \in Nat
  BY <1>5, <1>6, FS_CardinalityType
<1>11. Cardinality(Units(i)) = Cardinality(C) + Cardinality(F)
  BY <1>4, <1>6, <1>7, <1>9, <1>10
<1>12. itable[i].ref = Cardinality(C) + Cardinality(F)
  BY <1>11 DEF RefInv, Counted
<1> QED
  BY <1>2, <1>12 DEF C, F

-----------------------------------------------------------------------------
(* The checks of ilock() and iput(). *)

\* ilock() panics on an inode without a reference: whatever is a current directory
\* or an open file, is locked, or is about to be locked by a call, has one.
InUse(p, i) ==
  \/ cwd[p] = i \/ file[p].ip = i \/ ilk[i] = p
  \/ todo[p] # <<>> /\ Ilocks(Now(p)) /\ Now(p).i = i
UsesCounted == \A p \in Procs, i \in Inums : InUse(p, i) => itable[i].ref >= 1

\* fs.c:344: "ip->ref == 1 means no other process can have ip locked, so this
\* acquiresleep() won't block (or deadlock)."
LastPutFree == \A p \in Procs :
  At(p, "iput") /\ LastOfAll(Now(p).i) => Free(Now(p).i)

LEMMA LockIsReference ==
  ASSUME RefInv, NEW p \in Procs, NEW i \in Inums, ilk[i] = p
  PROVE  Refs(todo[p], i) >= 1
<1> DEFINE q == todo[p]
<1>1. q \in Seq(Todo) /\ Formed(q) /\ i \in PutLock(q) \cup MainLock(q)
  BY DEF RefInv, Types0, ProcTypes, Shapes, Locking
<1> HIDE DEF q
<1>2. PutRef(q, i) \in 0..1 /\ MainRef(q, i) \in 0..2
  BY DEF PutRef, MainRef, Bit
<1>3. CASE i \in PutLock(q)
  <2>1. q # <<>> /\ q[1].op \in {"itrunc", "ifree", "irelease"} /\ q[1].i = i
    BY <1>3 DEF PutLock
  <2>2. Skip(q) > 0
    BY <2>1, LeadIs DEF Skip
  <2>3. PutRef(q, i) = 1
    BY <2>1, <2>2 DEF PutRef, Bit
  <2> QED
    BY <1>2, <2>3 DEF Refs, q
<1>4. CASE i \in MainLock(q)
  <2>1. Busy(q) /\ i \in StepLock(Main(q))
    BY <1>4 DEF MainLock
  <2>2. CASE Main(q).j = i
    <3>1. MainRef(q, i) >= 1
      BY <2>1, <2>2 DEF MainRef, Bit
    <3> QED
      BY <1>2, <3>1 DEF Refs, q
  <2>3. CASE Main(q).i = i /\ Main(q).op # "make"
    <3>1. q[1].op # "iget"
      BY <1>1, <2>1, <2>3 DEF Formed, Making, Main
    <3>2. MainRef(q, i) >= 1
      BY <2>1, <2>3, <3>1 DEF MainRef, Bit
    <3> QED
      BY <1>2, <3>2 DEF Refs, q
  <2> QED
    BY <2>1, <2>2, <2>3 DEF StepLock
<1> QED
  BY <1>1, <1>3, <1>4

LEMMA UseIsHeld ==
  ASSUME RefInv, NEW p \in Procs, NEW i \in Inums, InUse(p, i)
  PROVE  Held(p, i) >= 1
<1>1. /\ Bit(cwd[p] = i) \in 0..1 /\ Bit(file[p].ip = i) \in 0..1
      /\ Refs(todo[p], i) \in 0..3
  BY DEF Bit, Refs, PutRef, MainRef
<1>2. CASE cwd[p] = i \/ file[p].ip = i
  <2>1. Bit(cwd[p] = i) = 1 \/ Bit(file[p].ip = i) = 1
    BY <1>2 DEF Bit
  <2> QED
    BY <1>1, <2>1 DEF Held
<1>3. CASE ilk[i] = p
  <2>1. Refs(todo[p], i) >= 1
    BY <1>3, LockIsReference
  <2> QED
    BY <1>1, <2>1 DEF Held
<1>4. CASE todo[p] # <<>> /\ Ilocks(Now(p)) /\ Now(p).i = i
  <2>1. Now(p).op \notin {"iput", "idrop", "itrunc", "ifree", "irelease", "iget"}
    BY <1>4 DEF Ilocks
  <2>2. Refs(todo[p], i) = Bit(Now(p).i = i) + Bit(Now(p).j = i)
    BY <1>4, <2>1, SingleIs
  <2>3. Refs(todo[p], i) >= 1
    BY <1>4, <2>2 DEF Bit
  <2> QED
    BY <1>1, <2>3 DEF Held
<1> QED
  BY <1>2, <1>3, <1>4 DEF InUse

LEMMA UnitsFinite ==
  ASSUME NEW i
  PROVE  IsFiniteSet(Units(i)) /\ Cardinality(Units(i)) \in Nat
BY UnitsAre, PileFinite

\* One unit makes the count 1 at least, and two units 2.
LEMMA UnitsCount ==
  ASSUME Counted, NEW i \in Inums, NEW u \in Units(i)
  PROVE  /\ itable[i].ref \in Nat /\ itable[i].ref >= 1
         /\ \A v \in Units(i) : v # u => itable[i].ref >= 2
<1> DEFINE U == Units(i)
           W == U \ {u}
<1>1. IsFiniteSet(U) /\ Cardinality(U) \in Nat /\ u \in U /\ itable[i].ref = Cardinality(U)
  BY UnitsFinite DEF Counted
<1> HIDE DEF U
<1>2. IsFiniteSet(W) /\ Cardinality(W) = Cardinality(U) - 1
  BY <1>1, FS_RemoveElement
<1>3. Cardinality(W) \in Nat /\ (Cardinality(W) = 0 => W = {})
  BY <1>2, FS_CardinalityType, FS_EmptySet
<1>4. \A v \in U : v # u => Cardinality(W) # 0
  BY <1>3
<1> HIDE DEF W
<1> QED
  BY <1>1, <1>2, <1>3, <1>4 DEF U

LEMMA UsesAreCounted ==
  ASSUME RefInv
  PROVE  UsesCounted
<1> SUFFICES ASSUME NEW p \in Procs, NEW i \in Inums, InUse(p, i)
             PROVE  itable[i].ref >= 1
  BY DEF UsesCounted
<1>1. Held(p, i) >= 1 /\ Held(p, i) \in 0..5
  BY UseIsHeld, HeldIs
<1>2. <<p, 1>> \in Units(i)
  BY <1>1 DEF Units
<1> QED
  BY <1>2, UnitsCount DEF RefInv

LEMMA LastPutIsFree ==
  ASSUME RefInv
  PROVE  LastPutFree
<1> SUFFICES ASSUME NEW p \in Procs, At(p, "iput"), LastOfAll(Now(p).i), ~Free(Now(p).i)
             PROVE  FALSE
  BY DEF LastPutFree
<1> DEFINE q == todo[p]
           i == Now(p).i
<1>1. q \in Seq(Todo) /\ q # <<>> /\ q[1] = Now(p) /\ q[1].op = "iput" /\ q[1].i = i /\ i \in Inums
  <2>1. q \in Seq(Todo) /\ q # <<>>
    BY DEF RefInv, Types0, ProcTypes, At
  <2>2. Head(q) = q[1] /\ q[1] \in Todo
    BY <2>1, HeadIs
  <2> QED
    BY <2>1, <2>2 DEF At, Now, Todo, Steps, Walks
<1> HIDE DEF q
<1>2. itable[i].ref = 1 /\ ilk[i] \in Procs
  BY <1>1 DEF LastOfAll, Free, RefInv, Types0, InMemoryTypes
<1>3. PICK o \in Procs : ilk[i] = o
  BY <1>2
<1> HIDE DEF i
<1>4. PutRef(q, i) = 1 /\ PutLock(q) = {} /\ MainRef(q, i) \in 0..2
  <2>1. Skip(q) > 0
    BY <1>1, LeadIs DEF Skip
  <2> QED
    BY <1>1, <2>1 DEF PutRef, PutLock, MainRef, Bit
<1>5. Held(p, i) >= 1 /\ Held(p, i) \in 0..5
  BY <1>4, HeldIs DEF Held, Refs, Bit, q
<1>6. <<p, 1>> \in Units(i)
  BY <1>5 DEF Units
<1>7. CASE o # p
  <2>1. Held(o, i) >= 1 /\ Held(o, i) \in 0..5
    BY <1>1, <1>3, UseIsHeld, HeldIs DEF InUse
  <2>2. <<o, 1>> \in Units(i)
    BY <2>1 DEF Units
  <2>3. itable[i].ref >= 2
    BY <1>1, <1>6, <1>7, <2>2, UnitsCount DEF RefInv
  <2> QED
    BY <1>2, <2>3
<1>8. CASE o = p
  <2>1. i \in MainLock(q)
    BY <1>1, <1>3, <1>4, <1>8 DEF RefInv, Locking, q
  <2>2. Busy(q) /\ i \in StepLock(Main(q))
    BY <2>1 DEF MainLock
  <2>3. MainRef(q, i) >= 1
    BY <1>1, <2>2 DEF MainRef, StepLock, Bit
  <2>4. Held(p, i) >= 2
    BY <1>4, <2>3 DEF Held, Refs, Bit, q
  <2>5. <<p, 2>> \in Units(i)
    BY <1>5, <2>4 DEF Units
  <2>6. itable[i].ref >= 2
    BY <1>1, <1>6, <2>5, UnitsCount DEF RefInv
  <2> QED
    BY <1>2, <2>6
<1> QED
  BY <1>7, <1>8

-----------------------------------------------------------------------------
(* The slots of the inode table. *)

Filled == {i \in Inums : itable[i].ref > 0}

\* The five places where process t can have a reference.
Place(t, k) ==
  CASE k = 1 -> cwd[t] [] k = 2 -> file[t].ip [] k = 3 -> todo[t][1].i
    [] k = 4 -> Main(todo[t]).i [] OTHER -> Main(todo[t]).j

LEMMA HeldSomewhere ==
  ASSUME NEW t \in Procs, NEW i \in Inums, Held(t, i) >= 1
  PROVE  \E k \in 1..5 : Place(t, k) = i /\ (k = 3 => Skip(todo[t]) > 0)
<1>1. \/ Bit(cwd[t] = i) = 1 \/ Bit(file[t].ip = i) = 1
      \/ PutRef(todo[t], i) = 1 \/ MainRef(todo[t], i) >= 1
  BY DEF Held, Refs, PutRef, MainRef, Bit
<1>2. CASE Bit(cwd[t] = i) = 1
  <2>1. Place(t, 1) = i
    BY <1>2 DEF Bit, Place
  <2> QED
    BY <2>1
<1>3. CASE Bit(file[t].ip = i) = 1
  <2>1. Place(t, 2) = i
    BY <1>3 DEF Bit, Place
  <2> QED
    BY <2>1
<1>4. CASE PutRef(todo[t], i) = 1
  <2>1. Place(t, 3) = i /\ Skip(todo[t]) > 0
    BY <1>4 DEF PutRef, Bit, Place
  <2> QED
    BY <2>1
<1>5. CASE MainRef(todo[t], i) >= 1
  <2>1. Main(todo[t]).i = i \/ Main(todo[t]).j = i
    BY <1>5 DEF MainRef, Bit
  <2>2. Place(t, 4) = i \/ Place(t, 5) = i
    BY <2>1 DEF Place
  <2> QED
    BY <2>2
<1> QED
  BY <1>1, <1>2, <1>3, <1>4, <1>5

\* A process that has no iput() under way leaves one of its places unused.
LEMMA OneIsLeft ==
  ASSUME RefInv, NEW p \in Procs, Skip(todo[p]) = 0
  PROVE  IsFiniteSet(Filled) /\ Cardinality(Filled) < 5 * Cardinality(Procs)
<1> DEFINE A == Procs \X (1..5)
           S == A \ {<<p, 3>>}
           W == [s \in S |-> Place(s[1], s[2])]
           T == {W[s] : s \in S}
<1>0. 1 \in Int /\ 5 \in Int /\ 1 <= 5
  OBVIOUS
<1>1. IsFiniteSet(1..5) /\ Cardinality(1..5) = IF 1 > 5 THEN 0 ELSE 5 - 1 + 1
  BY <1>0, FS_Interval, Zenon
<1>2. /\ IsFiniteSet(A) /\ Cardinality(A) = Cardinality(Procs) * Cardinality(1..5)
      /\ Cardinality(Procs) \in Nat /\ IsFiniteSet(Procs)
  BY <1>1, FsConstants, FS_Product, FS_CardinalityType
<1>3. Cardinality(A) = 5 * Cardinality(Procs)
  BY <1>1, <1>2
<1>4. IsFiniteSet(S) /\ Cardinality(S) = Cardinality(A) - 1
  <2>1. <<p, 3>> \in A
    OBVIOUS
  <2> HIDE DEF A
  <2> QED
    BY <1>2, <2>1, FS_RemoveElement
<1>5. W \in Surjection(S, T)
  BY DEF Surjection
<1>6. Filled \subseteq T
  <2> SUFFICES ASSUME NEW i \in Inums, itable[i].ref > 0 PROVE i \in T
    BY DEF Filled
  <2>1. itable[i].ref = Cardinality(Units(i))
    BY DEF RefInv, Counted
  <2>2. Units(i) # {}
    BY <2>1, FS_EmptySet
  <2>3. PICK u \in Units(i) : TRUE
    BY <2>2
  <2>4. PICK t \in Procs : t = u[1] /\ Held(t, i) >= u[2] /\ u[2] \in 1..5
    BY <2>3 DEF Units
  <2>5. Held(t, i) >= 1
    BY <2>4, HeldIs
  <2>6. PICK k \in 1..5 : Place(t, k) = i /\ (k = 3 => Skip(todo[t]) > 0)
    BY <2>5, HeldSomewhere
  <2>7. t = p => k # 3
    BY <2>6
  <2>8. <<t, k>> \in S
    BY <2>6, <2>7
  <2>9. W[<<t, k>>] = i
    BY <2>6, <2>8
  <2> QED
    BY <2>8, <2>9
<1> HIDE DEF A, S, W, T
<1>7. IsFiniteSet(T) /\ Cardinality(T) <= Cardinality(S)
  BY <1>4, <1>5, FS_Surjection
<1>8. IsFiniteSet(Filled) /\ Cardinality(Filled) <= Cardinality(T)
  BY <1>6, <1>7, FS_Subset
<1>9. Cardinality(Filled) \in Nat /\ Cardinality(T) \in Nat
  BY <1>7, <1>8, FS_CardinalityType
<1> QED
  BY <1>2, <1>3, <1>4, <1>7, <1>8, <1>9

LEMMA ASlotIsFound ==
  ASSUME InodesSuffice, RefInv
  PROVE  SlotsFound
<1> SUFFICES ASSUME NEW p \in Procs
             PROVE  ~TableFull(p) /\ (todo[p] = <<>> => ~NoSlot(ROOTINO))
  BY DEF SlotsFound
<1>1. ASSUME Skip(todo[p]) = 0, NEW i PROVE ~NoSlot(i)
  <2>1. IsFiniteSet(Filled) /\ Cardinality(Filled) < 5 * Cardinality(Procs)
    BY <1>1, OneIsLeft
  <2>2. Cardinality(Filled) \in Nat /\ Cardinality(Procs) \in Nat /\ NINODE \in Nat
    BY <2>1, FsConstants, FS_CardinalityType
  <2> QED
    BY <2>1, <2>2 DEF NoSlot, Filled, InodesSuffice
<1>2. todo[p] = <<>> => ~NoSlot(ROOTINO)
  BY <1>1 DEF Skip
<1>3. ASSUME TableFull(p) PROVE FALSE
  <2>1. PICK i \in Gets(p) : NoSlot(i)
    BY <1>3 DEF TableFull
  <2>2. todo[p] # <<>> /\ todo[p] \in Seq(Todo)
    BY <1>3 DEF TableFull, RefInv, Types0, ProcTypes
  <2>3. Now(p) = todo[p][1]
    BY <2>2, HeadIs DEF Now
  <2>4. Now(p).op \in {"iget", "namex", "create", "link2", "unlink", "link"}
    BY <2>1 DEF Gets
  <2>5. Skip(todo[p]) = 0
    BY <2>2, <2>3, <2>4, LeadIs DEF Skip, Starts, Ends
  <2> QED
    BY <1>1, <2>1, <2>5
<1> QED
  BY <1>2, <1>3

-----------------------------------------------------------------------------
(* The theorems. *)

\* iget(), idup(), iput(), ilock() and iunlock() through every step of every call:
\* the invariant that the theorems below rest on.
THEOREM RefInductive == Spec => []RefInv
<1>1. Init => RefInv
  BY RefInit
<1>2. RefInv /\ [Next]_vars => RefInv'
  BY RefNext
<1> QED
  BY <1>1, <1>2, PTL DEF Spec

\* iget(), idup() and iput(), ilock() and iunlock(): whatever the calls and however
\* many processes make them, between calls ip->ref counts the current directories
\* and open files that are this inode, and no sleep lock is held.
THEOREM NoCallLeaks == Spec => []NothingLeaks
  BY RefInductive, NoLeak, PTL

\* fs.c:298, ilock(): "if(ip == 0 || ip->ref < 1) panic", and fs.c:344, iput():
\* "ip->ref == 1 means no other process can have ip locked".
THEOREM ReferencesHold == Spec => [](UsesCounted /\ LastPutFree)
<1>1. RefInv => UsesCounted /\ LastPutFree
  BY UsesAreCounted, LastPutIsFree
<1> QED
  BY <1>1, RefInductive, PTL

\* fs.c:265, iget(): "if(empty == 0) panic".  With five slots for every process the
\* table never runs out, whatever the calls of all of them have in hand.  With the
\* sixteen open files of xv6 it would take twenty.
THEOREM InodesAreFound == InodesSuffice => (Spec => []SlotsFound)
<1> SUFFICES ASSUME InodesSuffice PROVE Spec => []SlotsFound
  OBVIOUS
<1>1. RefInv => SlotsFound
  BY ASlotIsFound
<1> QED
  BY <1>1, RefInductive, PTL

=============================================================================
