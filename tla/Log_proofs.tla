----------------------------- MODULE Log_proofs -----------------------------
(***************************************************************************)
(* Proofs about the log: its types, the space begin_op() reserves, the     *)
(* absence of panics, the pins that keep dirty blocks in memory, and the   *)
(* atomic disk that it implements.                                         *)
(***************************************************************************)
EXTENDS Log, FiniteSetTheorems, SequenceTheorems, TLAPS

Inside == {p \in Procs : pc[p] = "in"}

CommitPhases == {"write_log", "write_head", "install", "clear", "finish"}

\* log.outstanding counts the calls inside; log.committing keeps them out
\* while one process, the committer, is in commit().
Counting ==
  /\ outstanding = Cardinality(Inside)
  /\ committing <=> phase \in CommitPhases
  /\ committing => Inside = {}
  /\ \A p \in Procs : pc[p] = "commit" => committing
  /\ \A p, q \in Procs : pc[p] = "commit" /\ pc[q] = "commit" => p = q
  /\ \A p \in Procs : held[p] # NoBlock => pc[p] = "in"
  /\ Recovering => \A p \in Procs : pc[p] = "out"

\* The loops of commit and of recovery stay within the header, which names
\* no block twice.
Looping ==
  /\ phase \in {"write_log", "install", "r_install"} => tail <= Len(lh)
  /\ phase = "write_head" => tail = 1 /\ Len(lh) > 0
  /\ \A i, j \in 1..Len(lh) : lh[i] = lh[j] => i = j
  /\ \A i, j \in 1..Len(hdr) : hdr[i] = hdr[j] => i = j

\* The blocks that are logged and not yet installed at home.
Pending == {lh[i] : i \in {k \in 1..Len(lh) :
                            /\ ~Recovering
                            /\ phase # "clear"
                            /\ phase = "install" => k >= tail}}

\* One pin for each pending block, none for the others; and a block that is
\* neither pending nor held has the same contents in the cache and at home.
Pinning ==
  \A b \in Blocks :
     /\ pins[b] = IF b \in Pending THEN 1 ELSE 0
     /\ cache[b] \notin {NoBuf, home[b]} => b \in Pending \/ ~Free(b)

Inv == TypeOK /\ Counting /\ Looping /\ Pinning

LEMMA FirstSlot == 1 \in 1..LOGSIZE
BY LogSizes

LEMMA InitInv == Init => Inv
<1> SUFFICES ASSUME Init PROVE Inv
  OBVIOUS
<1> USE LogSizes, LogData
<1>0. <<>> \in Seq(Blocks) /\ Len(<<>>) = 0
  BY EmptySeq
<1>1. TypeOK
  <2>1. hdr \in Seq(Blocks) /\ Len(hdr) <= LOGSIZE /\ lh \in Seq(Blocks) /\ Len(lh) <= LOGSIZE
    BY <1>0 DEF Init
  <2>2. home \in [Blocks -> Vals] /\ logblk \in [1..LOGSIZE -> Vals]
    BY DEF Init
  <2>3. /\ cache \in [Blocks -> Vals \union {NoBuf}]
        /\ pins \in [Blocks -> Nat]
        /\ held \in [Procs -> Blocks \union {NoBlock}]
        /\ wrote \in [Procs -> SUBSET Blocks]
        /\ pc \in [Procs -> {"out", "begin", "sleep", "in", "commit"}]
    BY DEF Init
  <2>4. outstanding \in Nat /\ phase \in Phases /\ tail \in 1..LOGSIZE
    BY DEF Init, Phases
  <2>5. committing \in BOOLEAN /\ panicked \in BOOLEAN
    BY DEF Init
  <2> QED
    BY <2>1, <2>2, <2>3, <2>4, <2>5 DEF TypeOK
<1>2. Inside = {} /\ Cardinality(Inside) = 0
  BY FS_EmptySet DEF Init, Inside
<1>3. Counting
  BY <1>2 DEF Init, Counting, CommitPhases, Recovering
<1>4. Len(lh) = 0 /\ Len(hdr) = 0
  BY DEF Init
<1>5. Looping
  BY <1>4 DEF Init, Looping
<1>6. Pending = {}
  BY DEF Init, Pending, Recovering
<1>7. Pinning
  BY <1>6 DEF Init, Pinning
<1> QED
  BY <1>1, <1>3, <1>5, <1>7 DEF Inv

-----------------------------------------------------------------------------
(* Counting the calls inside. *)

LEMMA CountUp ==
  ASSUME TypeOK, Counting, NEW p \in Procs, pc[p] # "in",
         pc' = [pc EXCEPT ![p] = "in"]
  PROVE  /\ Inside' = Inside \union {p}
         /\ Cardinality(Inside') = outstanding + 1
<1>1. IsFiniteSet(Inside)
  BY LogData, FS_Subset DEF Inside
<1>2. Inside' = Inside \union {p} /\ p \notin Inside
  BY DEF Inside, TypeOK
<1> QED
  BY <1>1, <1>2, FS_AddElement DEF Counting

LEMMA CountDown ==
  ASSUME TypeOK, Counting, NEW p \in Procs, pc[p] = "in",
         Inside' = Inside \ {p}
  PROVE  /\ outstanding \in Nat \ {0}
         /\ Cardinality(Inside') = outstanding - 1
         /\ outstanding = 1 => Inside' = {}
<1>1. IsFiniteSet(Inside) /\ IsFiniteSet(Inside')
  BY LogData, FS_Subset DEF Inside
<1>2. p \in Inside
  BY DEF Inside
<1>3. Inside # {}
  BY <1>2
<1>4. Cardinality(Inside) # 0
  BY <1>1, <1>3, FS_EmptySet
<1>5. Cardinality(Inside') = Cardinality(Inside) - 1
  BY <1>1, <1>2, FS_RemoveElement
<1>6. Cardinality(Inside') = 0 => Inside' = {}
  BY <1>1, FS_EmptySet
<1>7. outstanding = Cardinality(Inside) /\ outstanding \in Nat
  BY DEF Counting, TypeOK
<1> QED
  BY <1>4, <1>5, <1>6, <1>7

\* wakeup(&log) moves sleepers only.
LEMMA WakeFacts ==
  ASSUME TypeOK, NEW p \in Procs,
         pc' = Woken([pc EXCEPT ![p] = "out"])
  PROVE  /\ pc' \in [Procs -> {"out", "begin", "sleep", "in", "commit"}]
         /\ pc'[p] = "out"
         /\ \A q \in Procs \ {p} :
              /\ (pc'[q] = "in") <=> (pc[q] = "in")
              /\ (pc'[q] = "commit") <=> (pc[q] = "commit")
              /\ pc[q] = "out" => pc'[q] = "out"
<1>1. pc \in [Procs -> {"out", "begin", "sleep", "in", "commit"}]
  BY DEF TypeOK
<1> QED
  BY <1>1 DEF Woken

-----------------------------------------------------------------------------
(* begin_op() and end_op() keep the invariant. *)

LEMMA BeginOpInv ==
  ASSUME Inv, NEW p \in Procs, BeginOp(p) \/ BeginOpSleep(p)
  PROVE  Inv'
<1> USE DEF Inv
<1>1. CASE BeginOp(p)
  <2> USE <1>1 DEF BeginOp, InBeginOp, disk, bufs
  <2>1. TypeOK'
    BY DEF TypeOK
  <2>2. Cardinality(Inside') = outstanding + 1
    BY CountUp
  <2>3. Counting'
    BY <2>2 DEF Counting, TypeOK, Recovering, CommitPhases
  <2>4. Looping'
    BY DEF Looping
  <2>5. Pinning'
    BY DEF Pinning, Pending, Recovering, Free
  <2> QED
    BY <2>1, <2>3, <2>4, <2>5
<1>2. CASE BeginOpSleep(p)
  <2> USE <1>2 DEF BeginOpSleep, InBeginOp, disk, counters, bufs
  <2>1. TypeOK'
    BY DEF TypeOK
  <2>2. Inside' = Inside
    BY DEF Inside, TypeOK
  <2>3. Counting'
    BY <2>2 DEF Counting, TypeOK, Recovering, CommitPhases
  <2>4. Looping'
    BY DEF Looping
  <2>5. Pinning'
    BY DEF Pinning, Pending, Recovering, Free
  <2> QED
    BY <2>1, <2>3, <2>4, <2>5
<1> QED
  BY <1>1, <1>2

LEMMA EndOpInv ==
  ASSUME Inv, NEW p \in Procs, EndOp(p)
  PROVE  Inv' /\ ~panicked'
<1> USE DEF Inv, EndOp, disk, bufs
<1>1. ~committing
  BY DEF Counting, Inside
<1>2. Inside' = Inside \ {p}
  BY WakeFacts DEF Inside, TypeOK
<1>3. /\ outstanding \in Nat \ {0}
      /\ Cardinality(Inside') = outstanding - 1
      /\ outstanding = 1 => Inside' = {}
  BY <1>2, CountDown
<1>4. phase \notin CommitPhases /\ ~Recovering
  BY <1>1 DEF Counting
<1>5. CASE outstanding' = 0
  <2>10. outstanding' \in Nat /\ tail' \in 1..LOGSIZE
    <3>1. tail' = 1
      BY <1>5
    <3>2. outstanding' \in Nat
      BY <1>3
    <3> QED
      BY <3>1, <3>2, FirstSlot
  <2>11. phase' \in Phases
    BY <1>5 DEF Phases
  <2>12. pc' \in [Procs -> {"out", "begin", "sleep", "in", "commit"}]
    BY <1>5 DEF TypeOK
  <2>13. committing' \in BOOLEAN /\ panicked' \in BOOLEAN
    BY <1>5 DEF TypeOK
  <2>1. TypeOK'
    BY <2>10, <2>11, <2>12, <2>13 DEF TypeOK
  <2>2. \A q \in Procs : pc'[q] = IF q = p THEN "commit" ELSE pc[q]
    BY <1>5 DEF TypeOK
  <2>3. committing' /\ phase' \in CommitPhases /\ ~Recovering'
    BY <1>5 DEF CommitPhases, Recovering
  <2>4. \A q \in Procs : held[q] # NoBlock => pc'[q] = "in"
    BY <2>2 DEF Counting
  <2>5. \A q \in Procs : pc'[q] = "commit" => q = p
    BY <1>1, <2>2 DEF Counting
  <2>9. Counting'
    BY <1>3, <1>5, <2>3, <2>4, <2>5 DEF Counting
  <2>6. phase' = "write_log" => Len(lh) > 0
    BY <1>5, EmptySeq DEF TypeOK
  <2>7. Looping'
    BY <1>5, <2>6 DEF Looping, TypeOK
  <2>8. Pending' = Pending
    BY <1>4, <1>5 DEF Pending, Recovering, CommitPhases
  <2>14. Pinning'
    BY <2>8 DEF Pinning, Free
  <2> QED
    BY <2>1, <2>9, <2>7, <2>14, <1>1
<1>6. CASE outstanding' # 0
  <2>11. outstanding' \in Nat
    BY <1>3
  <2>12. pc' \in [Procs -> {"out", "begin", "sleep", "in", "commit"}]
    BY <1>6, WakeFacts
  <2>13. committing' \in BOOLEAN /\ panicked' \in BOOLEAN
    BY <1>6 DEF TypeOK
  <2>1. TypeOK'
    BY <1>6, <2>11, <2>12, <2>13 DEF TypeOK
  <2>5. \A q \in Procs : held[q] # NoBlock => q # p /\ pc'[q] = "in"
    BY <1>6, WakeFacts DEF Counting
  <2>6. \A q \in Procs : pc'[q] # "commit"
    BY <1>1, <1>6, WakeFacts DEF Counting
  <2>2. Counting'
    BY <1>1, <1>3, <1>4, <1>6, <2>5, <2>6 DEF Counting, Recovering
  <2>3. Looping'
    BY <1>6 DEF Looping
  <2>4. Pinning'
    BY <1>6 DEF Pinning, Pending, Recovering, Free
  <2> QED
    BY <2>1, <2>2, <2>3, <2>4, <1>1
<1> QED
  BY <1>5, <1>6

-----------------------------------------------------------------------------
(* A call at work keeps the invariant. *)

LEMMA ModifyInv ==
  ASSUME Inv, NEW p \in Procs, NEW b \in Blocks, NEW v \in Vals, Modify(p, b, v)
  PROVE  Inv'
<1> USE DEF Inv, Modify, disk, counters
<1>1. TypeOK'
  BY DEF TypeOK
<1>2. Inside' = Inside
  BY DEF Inside
<1>3. \A q \in Procs : held'[q] # NoBlock => pc[q] = "in"
  BY DEF Counting, TypeOK
<1>4. Counting'
  BY <1>2, <1>3 DEF Counting, Recovering
<1>5. Looping'
  BY DEF Looping
<1>6. Pending' = Pending
  BY DEF Pending, Recovering
<1>7. \A c \in Blocks : ~Free(c) => ~Free(c)'
  BY LogData DEF Free, TypeOK
<1>8. ~Free(b)'
  BY DEF Free, TypeOK
<1>9. Pinning'
  BY <1>6, <1>7, <1>8 DEF Pinning, TypeOK
<1> QED
  BY <1>1, <1>4, <1>5, <1>9

LEMMA LogWriteInv ==
  ASSUME Inv, NEW p \in Procs, LogWrite(p)
  PROVE  Inv'
<1> DEFINE b == held[p]
<1> USE DEF Inv, LogWrite, disk
<1>1. b \in Blocks /\ pc[p] = "in" /\ ~committing /\ ~Recovering
  BY DEF Counting, Inside, TypeOK
<1>2. phase \notin CommitPhases /\ phase \notin {"write_log", "install", "r_install", "write_head"}
  BY <1>1 DEF Counting, CommitPhases, Recovering
<1>3. Inside' = Inside
  BY DEF Inside
<1>4. panicked' \in BOOLEAN
  BY DEF LogWritePanics
<1>5. CASE panicked'
  <2>1. lh' = lh /\ pins' = pins /\ held' = held /\ wrote' = wrote
    BY <1>5
  <2>2. TypeOK'
    BY <1>4, <2>1 DEF TypeOK
  <2>3. Counting' /\ Looping' /\ Pinning'
    BY <1>3, <2>1 DEF Counting, Looping, Pinning, Pending, Recovering, Free
  <2> QED
    BY <2>2, <2>3
<1>6. CASE ~panicked'
  <2>1. /\ held' = [held EXCEPT ![p] = NoBlock]
        /\ wrote' = [wrote EXCEPT ![p] = @ \union {b}]
    BY <1>6
  <2>2. held' \in [Procs -> Blocks \union {NoBlock}] /\ wrote' \in [Procs -> SUBSET Blocks]
    BY <1>1, <2>1 DEF TypeOK
  <2>3. \A q \in Procs : held'[q] # NoBlock => pc[q] = "in"
    BY <2>1 DEF Counting, TypeOK
  <2>4. Counting'
    BY <1>3, <2>3 DEF Counting, Recovering
  <2>5. \A c \in Blocks : ~Free(c) => c = b \/ ~Free(c)'
    BY <2>1, LogData DEF Free, TypeOK
  <2>6. Pending = Logged /\ Pending' = Logged'
    BY <1>1, <1>2 DEF Pending, Logged, Recovering, CommitPhases
  <2>7. CASE b \in Logged
    <3>1. lh' = lh /\ pins' = pins
      BY <1>6, <2>7
    <3>2. TypeOK'
      BY <1>4, <2>2, <3>1 DEF TypeOK
    <3>3. Looping'
      BY <3>1 DEF Looping
    <3>4. Pinning'
      BY <2>5, <2>6, <2>7, <3>1 DEF Pinning, Logged
    <3> QED
      BY <2>4, <3>2, <3>3, <3>4
  <2>8. CASE b \notin Logged
    <3>1. lh' = Append(lh, b) /\ pins' = [pins EXCEPT ![b] = @ + 1]
      BY <1>6, <2>8
    <3>2. lh \in Seq(Blocks) /\ Len(lh) < LOGSIZE
      BY <1>6, LogSizes DEF LogWritePanics, TypeOK
    <3>3. /\ lh' \in Seq(Blocks) /\ Len(lh') = Len(lh) + 1
          /\ \A i \in 1..Len(lh) : lh'[i] = lh[i]
          /\ lh'[Len(lh) + 1] = b
      BY <1>1, <3>1, <3>2, AppendProperties
    <3>4. Len(lh) \in Nat /\ Len(lh') <= LOGSIZE
      BY <3>2, <3>3, LenProperties, LogSizes
    <3>5. pins' \in [Blocks -> Nat]
      BY <1>1, <3>1 DEF TypeOK
    <3>6. TypeOK'
      BY <1>4, <2>2, <3>3, <3>4, <3>5 DEF TypeOK
    <3>7. Logged' = Logged \union {b}
      BY <3>3, <3>4 DEF Logged
    <3>8. \A i, j \in 1..Len(lh') : lh'[i] = lh'[j] => i = j
      BY <2>8, <3>3, <3>4 DEF Looping, Logged
    <3>9. Looping'
      BY <1>2, <3>8 DEF Looping
    <3>10. Pinning'
      BY <1>1, <2>5, <2>6, <2>8, <3>1, <3>7 DEF Pinning, TypeOK
    <3> QED
      BY <2>4, <3>6, <3>9, <3>10
  <2> QED
    BY <2>7, <2>8
<1> QED
  BY <1>5, <1>6

-----------------------------------------------------------------------------
(* The steps of commit() keep the invariant. *)

LEMMA LogAt ==
  ASSUME Inv, NEW i \in 1..Len(lh)
  PROVE  /\ Len(lh) \in Nat
         /\ lh[i] \in Blocks
         /\ i \in 1..LOGSIZE
<1>1. lh \in Seq(Blocks) /\ Len(lh) <= LOGSIZE
  BY DEF Inv, TypeOK
<1>2. Len(lh) \in Nat /\ lh[i] \in Blocks
  BY <1>1, LenProperties, ElementOfSeq
<1> QED
  BY <1>1, <1>2, LogSizes

LEMMA ContentType ==
  ASSUME TypeOK, NEW b \in Blocks
  PROVE  Content(b) \in Vals
BY DEF TypeOK, Content

LEMMA WriteLogInv ==
  ASSUME Inv, WriteLog
  PROVE  Inv'
<1> USE DEF WriteLog, counters
<1> DEFINE b == lh[tail]
<1>1. tail \in 1..Len(lh) /\ Len(lh) \in Nat /\ Len(lh) <= LOGSIZE
  BY LenProperties DEF Inv, Looping, TypeOK
<1>2. b \in Blocks /\ tail \in 1..LOGSIZE
  BY <1>1, LogAt
<1>3. Content(b) \in Vals
  BY <1>2, ContentType DEF Inv
<1>4. phase' \in {"write_log", "write_head"} /\ tail' \in 1..Len(lh)
  BY <1>1
<1>5. tail' \in 1..LOGSIZE /\ phase' \in Phases
  BY <1>1, <1>4, LogSizes DEF Phases
<1>6. TypeOK'
  BY <1>2, <1>3, <1>5 DEF Inv, TypeOK
<1>7. Inside' = Inside
  BY DEF Inside
<1>8. Counting'
  BY <1>4, <1>7 DEF Inv, Counting, Recovering, CommitPhases
<1>9. Looping'
  BY <1>1, <1>4 DEF Inv, Looping
<1>10. Pending' = Pending
  BY <1>4 DEF Pending, Recovering
<1>11. Pinning'
  BY <1>2, <1>10 DEF Inv, Pinning, Content, TypeOK, Free
<1> QED
  BY <1>6, <1>8, <1>9, <1>11 DEF Inv

LEMMA WriteHeadInv ==
  ASSUME Inv, WriteHead
  PROVE  Inv'
<1> USE DEF Inv, WriteHead, counters, bufs
<1>1. TypeOK'
  BY DEF TypeOK, Phases
<1>2. Inside' = Inside
  BY DEF Inside
<1>3. Counting'
  BY <1>2 DEF Counting, Recovering, CommitPhases
<1>4. Looping'
  BY LenProperties DEF Looping, TypeOK
<1>5. Pending' = Pending
  BY LenProperties DEF Looping, Pending, Recovering, TypeOK
<1>6. Pinning'
  BY <1>5 DEF Pinning, Free
<1> QED
  BY <1>1, <1>3, <1>4, <1>6

LEMMA InstallInv ==
  ASSUME Inv, Install
  PROVE  Inv'
<1> USE DEF Install, counters
<1> DEFINE b == lh[tail]
<1>1. tail \in 1..Len(lh) /\ Len(lh) \in Nat /\ Len(lh) <= LOGSIZE
  BY LenProperties DEF Inv, Looping, TypeOK
<1>2. b \in Blocks /\ tail \in 1..LOGSIZE
  BY <1>1, LogAt
<1>3. phase' \in {"install", "r_install", "clear", "r_clear"}
  BY DEF Inv
<1>4. tail' \in 1..LOGSIZE /\ phase' \in Phases
  BY <1>1, <1>3, LogSizes DEF Phases
<1>5. phase' \in {"install", "r_install"} => tail' <= Len(lh)
  BY <1>1
<1>6. (phase = "install" /\ b \in Pending) \/ phase = "r_install"
  BY <1>1 DEF Pending, Recovering
<1>7. pins' \in [Blocks -> Nat]
  BY <1>2, <1>6 DEF Inv, TypeOK, Pinning
<1>8. TypeOK'
  BY <1>2, <1>4, <1>7 DEF Inv, TypeOK
<1>9. Inside' = Inside /\ Recovering' = Recovering
  BY <1>3 DEF Inside, Recovering
<1>10. Counting'
  BY <1>3, <1>9 DEF Inv, Counting, Recovering, CommitPhases
<1>11. Looping'
  BY <1>1, <1>3, <1>5 DEF Inv, Looping
<1>12. CASE phase = "r_install"
  <2>1. Pending = {} /\ Pending' = {}
    BY <1>9, <1>12 DEF Pending, Recovering
  <2>2. Pinning'
    BY <1>2, <1>12, <2>1 DEF Inv, Pinning, TypeOK, Free
  <2> QED
    BY <1>8, <1>10, <1>11, <2>2 DEF Inv
<1>13. CASE phase = "install"
  <2>1. Pending = {lh[i] : i \in tail..Len(lh)}
    BY <1>1, <1>13 DEF Pending, Recovering
  <2>2. Pending' = {lh[i] : i \in (tail + 1)..Len(lh)}
    BY <1>1, <1>13 DEF Pending, Recovering
  <2>3. Pending' = Pending \ {b}
    BY <1>1, <2>1, <2>2 DEF Inv, Looping
  <2>4. b \in Pending
    BY <1>1, <2>1
  <2>5. Pinning'
    BY <1>2, <1>13, <2>3, <2>4 DEF Inv, Pinning, TypeOK, Free
  <2> QED
    BY <1>8, <1>10, <1>11, <2>5 DEF Inv
<1> QED
  BY <1>6, <1>12, <1>13

LEMMA ClearHeadInv ==
  ASSUME Inv, ClearHead
  PROVE  Inv'
<1> USE DEF ClearHead, bufs
<1>1. <<>> \in Seq(Blocks) /\ Len(<<>>) = 0
  BY EmptySeq
<1>2. TypeOK'
  BY <1>1, LogSizes DEF Inv, TypeOK, Phases
<1>3. Inside' = Inside
  BY DEF Inside
<1>4. Counting'
  BY <1>3 DEF Inv, Counting, Recovering, CommitPhases
<1>5. Looping'
  BY <1>1 DEF Inv, Looping
<1>6. Pending = {} /\ Pending' = {}
  BY <1>1 DEF Pending, Recovering
<1>7. Pinning'
  BY <1>6 DEF Inv, Pinning, Free
<1> QED
  BY <1>2, <1>4, <1>5, <1>7 DEF Inv

LEMMA FinishInv ==
  ASSUME Inv, NEW p \in Procs, Finish(p)
  PROVE  Inv'
<1> USE DEF Inv, Finish, disk, bufs
<1>1. TypeOK'
  BY WakeFacts DEF TypeOK, Phases
<1>2. Inside = {} /\ Inside' = {}
  BY WakeFacts DEF Counting, Inside
<1>3. \A q \in Procs : pc'[q] # "commit"
  BY WakeFacts DEF Counting
<1>4. \A q \in Procs : held'[q] = NoBlock
  BY <1>2 DEF Counting, Inside
<1>5. Counting'
  BY <1>2, <1>3, <1>4 DEF Counting, Recovering, CommitPhases
<1>6. Looping'
  BY DEF Looping
<1>7. Pending' = Pending
  BY DEF Pending, Recovering
<1>8. Pinning'
  BY <1>7 DEF Pinning, Free
<1> QED
  BY <1>1, <1>5, <1>6, <1>8

-----------------------------------------------------------------------------
(* Recovery, the buffer cache and a crash keep the invariant. *)

LEMMA ReadHeadInv ==
  ASSUME Inv, ReadHead
  PROVE  Inv'
<1> USE DEF ReadHead, disk, bufs
<1>1. Len(hdr) \in Nat /\ (hdr # <<>> => 1 <= Len(hdr))
  BY EmptySeq, LenProperties DEF Inv, TypeOK
<1>2. phase' \in {"r_clear", "r_install"} /\ (phase' = "r_install" => hdr # <<>>)
  OBVIOUS
<1>3. TypeOK'
  BY <1>2, FirstSlot DEF Inv, TypeOK, Phases
<1>4. Inside' = Inside /\ Recovering /\ Recovering'
  BY <1>2 DEF Inside, Recovering
<1>5. Counting'
  BY <1>2, <1>4 DEF Inv, Counting, CommitPhases
<1>6. Looping'
  BY <1>1, <1>2 DEF Inv, Looping
<1>7. Pending = {} /\ Pending' = {}
  BY <1>4 DEF Pending
<1>8. Pinning'
  BY <1>7 DEF Inv, Pinning, Free
<1> QED
  BY <1>3, <1>5, <1>6, <1>8 DEF Inv

LEMMA CacheInv ==
  ASSUME Inv, NEW b \in Blocks, Load(b) \/ Recycle(b)
  PROVE  Inv'
<1> USE DEF Load, Recycle, disk, counters
<1>1. TypeOK'
  BY DEF Inv, TypeOK
<1>2. Inside' = Inside
  BY DEF Inside
<1>3. Counting' /\ Looping'
  BY <1>2 DEF Inv, Counting, Looping, Recovering
<1>4. Pending' = Pending
  BY DEF Pending, Recovering
<1>5. Pinning'
  <2>1. cache' \in [Blocks -> Vals \union {NoBuf}] /\ cache'[b] \in {NoBuf, home[b]}
    BY DEF Inv, TypeOK
  <2>2. \A c \in Blocks \ {b} : cache'[c] = cache[c]
    BY DEF Inv, TypeOK
  <2> QED
    BY <1>4, <2>1, <2>2 DEF Inv, Pinning, Free
<1> QED
  BY <1>1, <1>3, <1>5 DEF Inv

LEMMA CrashInv ==
  ASSUME Inv, Crash
  PROVE  Inv'
<1> USE DEF Crash, disk
<1>1. <<>> \in Seq(Blocks) /\ Len(<<>>) = 0
  BY EmptySeq
<1>2. /\ lh' \in Seq(Blocks) /\ Len(lh') <= LOGSIZE
      /\ outstanding' \in Nat
  BY <1>1, LogSizes
<1>3. /\ cache' \in [Blocks -> Vals \union {NoBuf}]
      /\ pins' \in [Blocks -> Nat]
      /\ held' \in [Procs -> Blocks \union {NoBlock}]
      /\ wrote' \in [Procs -> SUBSET Blocks]
      /\ pc' \in [Procs -> {"out", "begin", "sleep", "in", "commit"}]
  OBVIOUS
<1>4. committing' \in BOOLEAN /\ panicked' \in BOOLEAN /\ phase' \in Phases
  BY DEF Phases
<1>5. tail' \in 1..LOGSIZE
  BY FirstSlot
<1>6. TypeOK'
  BY <1>2, <1>3, <1>4, <1>5 DEF Inv, TypeOK
<1>7. Inside' = {} /\ Cardinality(Inside') = 0
  BY FS_EmptySet DEF Inside
<1>8. Counting'
  BY <1>7 DEF Counting, CommitPhases, Recovering
<1>9. Looping'
  BY <1>1 DEF Inv, Looping
<1>10. Pending' = {}
  BY DEF Pending, Recovering
<1>11. Pinning'
  BY <1>10 DEF Pinning
<1> QED
  BY <1>6, <1>8, <1>9, <1>11 DEF Inv

LEMMA NextInv ==
  ASSUME Inv, [Next]_vars
  PROVE  Inv'
<1>1. CASE \E p \in Procs : BeginOp(p) \/ BeginOpSleep(p)
  BY <1>1, BeginOpInv
<1>2. CASE \E p \in Procs : EndOp(p)
  BY <1>2, EndOpInv
<1>3. CASE \E p \in Procs, b \in Blocks, v \in Vals : Modify(p, b, v)
  BY <1>3, ModifyInv
<1>4. CASE \E p \in Procs : LogWrite(p)
  BY <1>4, LogWriteInv
<1>5. CASE Commit
  BY <1>5, WriteLogInv, WriteHeadInv, InstallInv, ClearHeadInv, FinishInv DEF Commit
<1>6. CASE ReadHead
  BY <1>6, ReadHeadInv
<1>7. CASE \E b \in Blocks : Load(b) \/ Recycle(b)
  BY <1>7, CacheInv
<1>8. CASE Crash
  BY <1>8, CrashInv
<1>9. CASE UNCHANGED vars
  <2>1. TypeOK'
    BY <1>9 DEF Inv, TypeOK, vars, disk, counters, bufs
  <2>2. Counting' /\ Looping'
    BY <1>9 DEF Inv, Counting, Looping, Inside, Recovering, vars, disk, counters, bufs
  <2>3. Pinning'
    BY <1>9 DEF Inv, Pinning, Pending, Recovering, Free, vars, disk, counters, bufs
  <2> QED
    BY <2>1, <2>2, <2>3 DEF Inv
<1> QED
  BY <1>1, <1>2, <1>3, <1>4, <1>5, <1>6, <1>7, <1>8, <1>9 DEF Next

THEOREM Invariance == Spec => []Inv
BY InitInv, NextInv, PTL DEF Spec

\* The headers stay within their arrays, outstanding never drops below zero,
\* and every loop of commit and of recovery within the header.
THEOREM TypeCorrect == Spec => []TypeOK
<1>1. Inv => TypeOK
  BY DEF Inv
<1> QED
  BY <1>1, Invariance, PTL

\* A buffer with contents that its home does not have is pinned or held, so
\* bget() recycles no block that the log has not written; and commit gives
\* every pin of log_write() back.
THEOREM DirtyStayPinned == Spec => []DirtyIsPinned
<1>1. Inv => DirtyIsPinned
  BY LogSizes DEF Inv, Pinning, Pending, Logged, DirtyIsPinned
<1> QED
  BY <1>1, Invariance, PTL

-----------------------------------------------------------------------------
(* The space in the log. *)

\* What a call logged is in the log until it ends, and is no more than it
\* was allowed to; so a reservation covers all that is left to log.
Spending ==
  /\ \A p \in Procs : pc[p] = "in" =>
       /\ wrote[p] \subseteq Logged
       /\ Cardinality(wrote[p]) <= OPBLOCKS
       /\ held[p] # NoBlock => Cardinality(wrote[p] \union {held[p]}) <= OPBLOCKS
  /\ LogSpaceReserved

SpaceInv == Inv /\ Spending

LEMMA UnspentFinite ==
  /\ IsFiniteSet(Procs \X (1..MAXOPBLOCKS))
  /\ IsFiniteSet(Unspent) /\ Cardinality(Unspent) \in Nat
<1>1. IsFiniteSet(1..MAXOPBLOCKS)
  BY LogSizes, FS_Interval
<1>2. IsFiniteSet(Procs \X (1..MAXOPBLOCKS))
  BY <1>1, LogData, FS_Product
<1>3. Unspent \subseteq Procs \X (1..MAXOPBLOCKS)
  BY DEF Unspent
<1> QED
  BY <1>2, <1>3, FS_Subset, FS_CardinalityType

LEMMA WroteFinite ==
  ASSUME TypeOK, NEW p \in Procs
  PROVE  IsFiniteSet(wrote[p]) /\ Cardinality(wrote[p]) \in Nat
<1>1. wrote[p] \in SUBSET Blocks
  BY DEF TypeOK
<1> QED
  BY <1>1, LogData, FS_Subset, FS_CardinalityType

LEMMA SpaceInit == Init => Spending
<1> SUFFICES ASSUME Init PROVE Spending
  OBVIOUS
<1>1. Unspent = {} /\ Len(lh) = 0
  BY EmptySeq DEF Init, Unspent
<1>2. LogSpaceReserved
  BY <1>1, LogSizes, FS_EmptySet DEF LogSpaceReserved
<1> QED
  BY <1>2 DEF Init, Spending

\* A call may begin only if every call inside, itself included, could still
\* use up a whole reservation.
LEMMA BeginOpSpace ==
  ASSUME SpaceInv, NEW p \in Procs, BeginOp(p)
  PROVE  Spending'
<1> USE DEF BeginOp, InBeginOp, disk, bufs
<1>1. Inv' /\ TypeOK /\ TypeOK'
  BY BeginOpInv DEF SpaceInv, Inv
<1>2. Cardinality(Inside') = outstanding + 1
  BY <1>1, CountUp DEF SpaceInv, Inv
<1>3. Unspent' \subseteq Inside' \X (1..MAXOPBLOCKS)
  BY DEF Unspent, Inside
<1>4. IsFiniteSet(Inside')
  BY LogData, FS_Subset DEF Inside
<1>5. IsFiniteSet(1..MAXOPBLOCKS) /\ Cardinality(1..MAXOPBLOCKS) = MAXOPBLOCKS
  BY LogSizes, FS_Interval
<1>6. /\ IsFiniteSet(Inside' \X (1..MAXOPBLOCKS))
      /\ Cardinality(Inside' \X (1..MAXOPBLOCKS)) = (outstanding + 1) * MAXOPBLOCKS
  <2>1. \A S : IsFiniteSet(S) => /\ IsFiniteSet(S \X (1..MAXOPBLOCKS))
                                /\ Cardinality(S \X (1..MAXOPBLOCKS))
                                     = Cardinality(S) * MAXOPBLOCKS
    BY <1>5, FS_Product
  <2> QED
    BY <1>2, <1>4, <2>1
<1>7. Cardinality(Unspent') <= (outstanding + 1) * MAXOPBLOCKS
  BY <1>3, <1>6, FS_Subset
<1>8. IsFiniteSet(Unspent') /\ Cardinality(Unspent') \in Nat
  BY <1>3, <1>6, FS_Subset, FS_CardinalityType
<1>9. Len(lh) \in Nat /\ (outstanding + 1) * MAXOPBLOCKS \in Int
  BY <1>1, <1>2, <1>4, LogSizes, LenProperties, FS_CardinalityType DEF TypeOK
<1>10. LogSpaceReserved'
  BY <1>7, <1>8, <1>9, LogSizes DEF HasSpace, LogSpaceReserved
<1>11. Cardinality({}) = 0 /\ held[p] = NoBlock
  BY FS_EmptySet DEF SpaceInv, Inv, Counting
<1>12. wrote'[p] = {} /\ \A q \in Procs \ {p} : wrote'[q] = wrote[q] /\ pc'[q] = pc[q]
  BY <1>1 DEF TypeOK
<1>13. Logged' = Logged /\ held' = held
  BY DEF Logged
<1>14. /\ wrote'[p] \subseteq Logged'
       /\ Cardinality(wrote'[p]) <= OPBLOCKS
       /\ held'[p] = NoBlock
  BY <1>11, <1>12, <1>13, LogSizes
<1>15. \A q \in Procs \ {p} : pc'[q] = "in" =>
         /\ wrote'[q] \subseteq Logged'
         /\ Cardinality(wrote'[q]) <= OPBLOCKS
         /\ held'[q] # NoBlock => Cardinality(wrote'[q] \union {held'[q]}) <= OPBLOCKS
  BY <1>12, <1>13 DEF SpaceInv, Spending
<1> QED
  BY <1>10, <1>14, <1>15 DEF Spending

LEMMA LogWriteSpace ==
  ASSUME SpaceInv, NEW p \in Procs, LogWrite(p)
  PROVE  Spending'
<1> DEFINE b == held[p]
           n == Cardinality(wrote[p])
<1>1. Inv /\ TypeOK /\ TypeOK' /\ b \in Blocks /\ pc[p] = "in" /\ b # NoBlock
  BY LogWriteInv DEF SpaceInv, Inv, LogWrite, Counting, TypeOK
<1>2. IsFiniteSet(wrote[p]) /\ n \in Nat
  BY <1>1, WroteFinite
<1>3. CASE panicked'
  BY <1>3 DEF LogWrite, SpaceInv, Spending, LogSpaceReserved, Unspent, Logged
<1>4. CASE ~panicked'
  <2>1. /\ held' = [held EXCEPT ![p] = NoBlock]
        /\ wrote' = [wrote EXCEPT ![p] = wrote[p] \union {b}]
        /\ pc' = pc
    BY <1>4 DEF LogWrite
  <2>2. Len(lh) \in Nat
    BY <1>1, LenProperties DEF TypeOK
  <2>3. IF b \in wrote[p] THEN Cardinality(wrote'[p]) = n
                          ELSE Cardinality(wrote'[p]) = n + 1
    BY <1>1, <1>2, <2>1, FS_AddElement DEF TypeOK
  <2>4. \A q \in Procs \ {p} : wrote'[q] = wrote[q] /\ held'[q] = held[q]
    BY <1>1, <2>1 DEF TypeOK
  <2>5. n + 0 <= OPBLOCKS /\ Cardinality(wrote'[p]) <= OPBLOCKS
    BY <1>1, <1>2, <2>1 DEF SpaceInv, Spending, TypeOK
  <2>6. Unspent' \subseteq Unspent
    BY <1>2, <2>1, <2>3, <2>4, LogSizes DEF Unspent
  <2>7. CASE b \in Logged
    <3>1. lh' = lh /\ Logged' = Logged
      BY <1>4, <2>7 DEF LogWrite, Logged
    <3>2. Cardinality(Unspent') <= Cardinality(Unspent) /\ Cardinality(Unspent') \in Nat
      BY <2>6, UnspentFinite, FS_Subset, FS_CardinalityType
    <3>3. LogSpaceReserved'
      BY <2>2, <3>1, <3>2, UnspentFinite, LogSizes DEF LogSpaceReserved, SpaceInv, Spending
    <3>4. \A q \in Procs : pc'[q] = "in" =>
             /\ wrote'[q] \subseteq Logged'
             /\ Cardinality(wrote'[q]) <= OPBLOCKS
             /\ held'[q] # NoBlock => Cardinality(wrote'[q] \union {held'[q]}) <= OPBLOCKS
      BY <1>1, <2>1, <2>4, <2>5, <2>7, <3>1 DEF SpaceInv, Spending, TypeOK
    <3> QED
      BY <3>3, <3>4 DEF Spending
  <2>8. CASE b \notin Logged
    <3>1. lh' = Append(lh, b)
      BY <1>4, <2>8 DEF LogWrite
    <3>2. Len(lh') = Len(lh) + 1 /\ Logged' = Logged \union {b}
      <4>1. /\ Len(lh') = Len(lh) + 1
            /\ \A i \in 1..Len(lh) : lh'[i] = lh[i]
            /\ lh'[Len(lh) + 1] = b
        BY <1>1, <3>1, AppendProperties DEF TypeOK
      <4> QED
        BY <2>2, <4>1 DEF Logged
    <3>3. b \notin wrote[p]
      BY <1>1, <2>8 DEF SpaceInv, Spending
    <3>4. Cardinality(wrote'[p]) = n + 1
      BY <2>3, <3>3
    <3>5. <<p, n + 1>> \in Unspent /\ <<p, n + 1>> \notin Unspent'
      <4>1. n + 1 \in 1..MAXOPBLOCKS
        BY <1>2, <2>5, <3>4, LogSizes
      <4>2. n + 1 > n /\ ~(n + 1 > n + 1)
        BY <1>2
      <4> QED
        BY <1>1, <3>4, <4>1, <4>2 DEF Unspent
    <3>6. Unspent' \subseteq Unspent \ {<<p, n + 1>>}
      BY <2>6, <3>5
    <3>7. /\ IsFiniteSet(Unspent \ {<<p, n + 1>>})
          /\ Cardinality(Unspent \ {<<p, n + 1>>}) = Cardinality(Unspent) - 1
      BY <3>5, UnspentFinite, FS_RemoveElement
    <3>8. Cardinality(Unspent') <= Cardinality(Unspent) - 1 /\ Cardinality(Unspent') \in Nat
      BY <3>6, <3>7, FS_Subset, FS_CardinalityType
    <3>9. LogSpaceReserved'
      BY <2>2, <3>2, <3>8, UnspentFinite, LogSizes DEF LogSpaceReserved, SpaceInv, Spending
    <3>10. \A q \in Procs : pc'[q] = "in" =>
             /\ wrote'[q] \subseteq Logged'
             /\ Cardinality(wrote'[q]) <= OPBLOCKS
             /\ held'[q] # NoBlock => Cardinality(wrote'[q] \union {held'[q]}) <= OPBLOCKS
      BY <1>1, <2>1, <2>4, <2>5, <3>2 DEF SpaceInv, Spending, TypeOK
    <3> QED
      BY <3>9, <3>10 DEF Spending
  <2> QED
    BY <2>7, <2>8
<1> QED
  BY <1>3, <1>4

LEMMA ModifySpace ==
  ASSUME SpaceInv, NEW p \in Procs, NEW b \in Blocks, NEW v \in Vals, Modify(p, b, v)
  PROVE  Spending'
<1> USE DEF Modify, disk, counters
<1>1. Unspent' = Unspent /\ Logged' = Logged
  BY DEF Unspent, Logged
<1>2. LogSpaceReserved'
  BY <1>1 DEF SpaceInv, Spending, LogSpaceReserved
<1>3. held'[p] = b /\ \A q \in Procs \ {p} : held'[q] = held[q]
  BY DEF SpaceInv, Inv, TypeOK
<1> QED
  BY <1>1, <1>2, <1>3 DEF SpaceInv, Spending

\* The steps that leave the log and the calls' writes alone, or let a call go.
LEMMA SameSpace ==
  ASSUME SpaceInv, lh' = lh, wrote' = wrote, held' = held, Inside' \subseteq Inside
  PROVE  Spending'
<1>1. Logged' = Logged
  BY DEF Logged
<1>2. \A p \in Procs : pc'[p] = "in" => pc[p] = "in"
  BY DEF Inside
<1>3. Unspent' \subseteq Unspent
  BY <1>2 DEF Unspent
<1>4. Cardinality(Unspent') <= Cardinality(Unspent) /\ Cardinality(Unspent') \in Nat
  BY <1>3, UnspentFinite, FS_Subset, FS_CardinalityType
<1>5. Len(lh) \in Nat
  BY LenProperties DEF SpaceInv, Inv, TypeOK
<1>6. LogSpaceReserved'
  BY <1>4, <1>5, UnspentFinite, LogSizes DEF SpaceInv, Spending, LogSpaceReserved
<1> QED
  BY <1>1, <1>2, <1>6 DEF SpaceInv, Spending

\* The steps of a committer alone in the log, of recovery, and of a crash.
LEMMA NobodyInside ==
  ASSUME Inv', Inside' = {}
  PROVE  Spending'
<1>1. \A p \in Procs : pc'[p] # "in"
  BY DEF Inside
<1>2. Unspent' = {}
  BY <1>1 DEF Unspent
<1>3. Len(lh)' \in Nat /\ Len(lh)' <= LOGSIZE
  BY LenProperties DEF Inv, TypeOK
<1>4. LogSpaceReserved'
  BY <1>2, <1>3, FS_EmptySet DEF LogSpaceReserved
<1> QED
  BY <1>1, <1>4 DEF Spending

LEMMA SpaceNext ==
  ASSUME SpaceInv, [Next]_vars
  PROVE  SpaceInv'
<1>0. Inv'
  BY NextInv DEF SpaceInv
<1> SUFFICES Spending'
  BY <1>0 DEF SpaceInv
<1>1. ASSUME NEW p \in Procs, BeginOp(p)
      PROVE  Spending'
  BY <1>1, BeginOpSpace
<1>2. ASSUME NEW p \in Procs, BeginOpSleep(p)
      PROVE  Spending'
  BY <1>2, SameSpace DEF BeginOpSleep, counters, bufs, Inside, SpaceInv, Inv, TypeOK
<1>3. ASSUME NEW p \in Procs, EndOp(p)
      PROVE  Spending'
  <2>1. CASE outstanding' = 0
    BY <1>3, <2>1, SameSpace DEF EndOp, bufs, Inside, SpaceInv, Inv, TypeOK
  <2>2. CASE outstanding' # 0
    BY <1>3, <2>2, WakeFacts, SameSpace DEF EndOp, bufs, Inside, SpaceInv, Inv
  <2> QED
    BY <2>1, <2>2
<1>4. ASSUME NEW p \in Procs, NEW b \in Blocks, NEW v \in Vals, Modify(p, b, v)
      PROVE  Spending'
  BY <1>4, ModifySpace
<1>5. ASSUME NEW p \in Procs, LogWrite(p)
      PROVE  Spending'
  BY <1>5, LogWriteSpace
<1>6. CASE WriteLog \/ WriteHead \/ Install
  BY <1>6, SameSpace DEF WriteLog, WriteHead, Install, counters, bufs, Inside
<1>7. CASE ClearHead
  <2>1. Inside = {}
    BY <1>7 DEF SpaceInv, Inv, Counting, CommitPhases, Inside, Recovering, ClearHead
  <2> QED
    BY <1>0, <1>7, <2>1, NobodyInside DEF ClearHead, Inside
<1>8. ASSUME NEW p \in Procs, Finish(p)
      PROVE  Spending'
  <2>1. Inside = {}
    BY <1>8 DEF SpaceInv, Inv, Counting, Finish
  <2>2. Inside' = {}
    BY <1>8, <2>1, WakeFacts DEF Finish, Inside, SpaceInv, Inv
  <2> QED
    BY <1>0, <2>2, NobodyInside
<1>9. CASE ReadHead
  <2>1. Inside = {}
    BY <1>9 DEF SpaceInv, Inv, Counting, Inside, Recovering, ReadHead
  <2> QED
    BY <1>0, <1>9, <2>1, NobodyInside DEF ReadHead, Inside
<1>10. ASSUME NEW b \in Blocks, Load(b) \/ Recycle(b)
       PROVE  Spending'
  BY <1>10, SameSpace DEF Load, Recycle, counters, Inside
<1>11. CASE Crash
  <2>1. Inside' = {}
    BY <1>11 DEF Crash, Inside
  <2> QED
    BY <1>0, <2>1, NobodyInside
<1>12. CASE UNCHANGED vars
  BY <1>12, SameSpace DEF vars, counters, bufs, Inside
<1> QED
  BY <1>1, <1>2, <1>3, <1>4, <1>5, <1>6, <1>7, <1>8, <1>9, <1>10, <1>11, <1>12
  DEF Next, Commit

THEOREM SpaceInvariance == Spec => []SpaceInv
<1>1. Init => SpaceInv
  BY InitInv, SpaceInit DEF SpaceInv
<1> QED
  BY <1>1, SpaceNext, PTL DEF Spec

\* However calls come, go, absorb each other's blocks and leave theirs behind
\* in the log, begin_op()'s check reserves enough: the blocks logged and those
\* the calls inside may still log fit LOGSIZE together.
THEOREM SpaceReserved == Spec => []LogSpaceReserved
<1>1. SpaceInv => LogSpaceReserved
  BY DEF SpaceInv, Spending
<1> QED
  BY <1>1, SpaceInvariance, PTL

\* No log_write() panics with "too big a transaction" or "log_write outside of
\* trans" and no end_op() with "log.committing", provided that calls really
\* write fewer blocks than they reserve, by enough to make up for the header
\* block that mkfs counts into the log.
THEOREM PanicFree ==
  ASSUME LogFits
  PROVE  Spec => []NoPanic
<1>1. Init => NoPanic
  BY DEF Init, NoPanic
<1>2. ASSUME SpaceInv, NoPanic, NEW p \in Procs, LogWrite(p)
      PROVE  NoPanic'
  <2> DEFINE Rest == {<<p, i>> : i \in (OPBLOCKS + 1)..MAXOPBLOCKS}
  <2>1. Inv /\ TypeOK /\ pc[p] = "in" /\ Cardinality(wrote[p]) <= OPBLOCKS
    BY <1>2 DEF SpaceInv, Spending, Inv, Counting, LogWrite
  <2>2. Rest \subseteq Unspent
    BY <2>1, LogSizes, WroteFinite DEF Unspent
  <2>3. IsFiniteSet(Rest) /\ Cardinality(Rest) = MAXOPBLOCKS - OPBLOCKS
    <3> DEFINE T == (OPBLOCKS + 1)..MAXOPBLOCKS
    <3>1. IsFiniteSet(T) /\ Cardinality(T) = MAXOPBLOCKS - OPBLOCKS
      BY LogSizes, LogFits, FS_Interval DEF LogFits
    <3>2. IsFiniteSet({p}) /\ Cardinality({p}) = 1
      BY FS_Singleton
    <3> HIDE DEF T
    <3>3. IsFiniteSet({p} \X T) /\ Cardinality({p} \X T) = 1 * (MAXOPBLOCKS - OPBLOCKS)
      BY <3>1, <3>2, FS_Product
    <3>4. Rest = {p} \X T
      BY DEF T
    <3>5. 1 * (MAXOPBLOCKS - OPBLOCKS) = MAXOPBLOCKS - OPBLOCKS
      BY LogSizes
    <3> HIDE DEF Rest
    <3> QED
      BY <3>3, <3>4, <3>5
  <2>4. MAXOPBLOCKS - OPBLOCKS <= Cardinality(Unspent)
    BY <2>2, <2>3, UnspentFinite, FS_Subset
  <2>5. Len(lh) + (MAXOPBLOCKS - OPBLOCKS) <= LOGSIZE /\ Len(lh) \in Nat
    BY <2>1, <2>4, <1>2, UnspentFinite, LogSizes, LenProperties
    DEF SpaceInv, Spending, LogSpaceReserved, TypeOK
  <2>6. Len(lh) < LOGSIZE /\ Len(lh) < NLOG - 1
    BY <2>5, LogSizes, LogFits DEF LogFits
  <2>7. outstanding >= 1
    <3>1. IsFiniteSet(Inside) /\ Inside # {}
      BY <2>1, LogData, FS_Subset DEF Inside
    <3>2. Cardinality(Inside) \in Nat \ {0}
      BY <3>1, FS_CardinalityType, FS_EmptySet
    <3> QED
      BY <2>1, <3>2 DEF Inv, Counting
  <2>8. ~LogWritePanics
    BY <2>5, <2>6, <2>7, <2>1, LogSizes DEF LogWritePanics, TypeOK
  <2> QED
    BY <1>2, <2>8 DEF LogWrite, NoPanic
<1>3. ASSUME SpaceInv, NoPanic, NEW p \in Procs, EndOp(p)
      PROVE  NoPanic'
  BY <1>3, EndOpInv DEF SpaceInv, NoPanic
<1>4. SpaceInv /\ NoPanic /\ [Next]_vars => NoPanic'
  BY <1>2, <1>3
  DEF Next, Commit, BeginOp, BeginOpSleep, Modify, WriteLog, WriteHead, Install, ClearHead,
      Finish, ReadHead, Load, Recycle, Crash, vars, NoPanic
<1> QED
  BY <1>1, <1>4, SpaceInvariance, PTL DEF Spec

-----------------------------------------------------------------------------
(***************************************************************************)
(* The log implements the atomic disk: whatever the step of a commit or of *)
(* a recovery at which the power fails, the disk holds what it held at the *)
(* last commit.                                                            *)
(***************************************************************************)

\* Calls that the abstract disk regards as active.
Active == {p \in Procs : pc[p] \in {"in", "commit"}}

\* The header on disk names the transaction exactly from the commit point to
\* its erasure, and only a process in end_op() commits.
Header ==
  /\ phase \in {"idle", "write_log", "write_head", "finish"} => hdr = <<>>
  /\ phase \in {"install", "clear", "r_install", "r_clear"} => hdr = lh
  /\ phase = "finish" => lh = <<>>
  /\ committing => \E p \in Procs : pc[p] = "commit"

\* How far the contents of the logged blocks have come: from the cache to the
\* log, and from the log home.
Copied ==
  /\ \A b \in Pending : cache[b] # NoBuf
  /\ \A p \in Procs : held[p] # NoBlock => cache[held[p]] # NoBuf
  /\ phase = "write_log" => \A i \in 1..(tail - 1) : logblk[i] = cache[lh[i]]
  /\ phase = "write_head" => \A i \in 1..Len(lh) : logblk[i] = cache[lh[i]]
  /\ phase = "install" => \A i \in tail..Len(lh) : logblk[i] = cache[lh[i]]
  /\ phase \in {"install", "r_install"} => \A i \in 1..(tail - 1) : home[lh[i]] = logblk[i]
  /\ phase \in {"clear", "r_clear"} => \A i \in 1..Len(lh) : home[lh[i]] = logblk[i]

RefInv == Inv /\ Header /\ Copied

-----------------------------------------------------------------------------
(* The invariant. *)

LEMMA RefInit == Init => RefInv
<1> SUFFICES ASSUME Init PROVE RefInv
  OBVIOUS
<1>1. Inv
  BY InitInv
<1>2. Pending = {}
  BY DEF Init, Pending, Recovering
<1>3. Header /\ Copied
  BY <1>2 DEF Init, Header, Copied
<1> QED
  BY <1>1, <1>3 DEF RefInv

\* Everything one needs to know about the state in the middle of a loop.
LEMMA LoopFacts ==
  ASSUME RefInv, phase \in {"write_log", "install", "r_install"}
  PROVE  /\ tail \in 1..Len(lh) /\ Len(lh) \in Nat
         /\ lh[tail] \in Blocks
         /\ tail \in 1..LOGSIZE
         /\ logblk[tail] \in Vals
         /\ \A i \in 1..Len(lh) : lh[i] \in Blocks /\ i \in 1..LOGSIZE
         /\ \A i \in 1..Len(lh) : i # tail => lh[i] # lh[tail]
<1>1. tail \in 1..Len(lh) /\ Len(lh) \in Nat
  BY LenProperties DEF RefInv, Inv, Looping, TypeOK
<1>2. \A i \in 1..Len(lh) : lh[i] \in Blocks /\ i \in 1..LOGSIZE
  BY LogAt DEF RefInv
<1> QED
  BY <1>1, <1>2 DEF RefInv, Inv, Looping, TypeOK

LEMMA CallRef ==
  ASSUME RefInv, NEW p \in Procs,
         BeginOp(p) \/ BeginOpSleep(p) \/ EndOp(p)
  PROVE  Header' /\ Copied'
<1>1. Inv /\ TypeOK /\ Counting
  BY DEF RefInv, Inv
<1>2. CASE BeginOp(p) \/ BeginOpSleep(p)
  <2>1. /\ UNCHANGED <<disk, lh, bufs, phase, tail, committing>>
        /\ \A q \in Procs : pc[q] = "commit" => pc'[q] = "commit"
    BY <1>1, <1>2 DEF BeginOp, BeginOpSleep, InBeginOp, counters, TypeOK
  <2>2. Pending' = Pending
    BY <2>1 DEF Pending, Recovering
  <2> QED
    BY <2>1, <2>2 DEF RefInv, Header, Copied, disk, bufs
<1>3. CASE EndOp(p)
  <2>1. UNCHANGED <<disk, lh, bufs>> /\ ~committing
    BY <1>1, <1>3 DEF EndOp, Counting, Inside
  <2>2. phase = "idle"
    BY <1>1, <1>3, <2>1 DEF EndOp, Counting, CommitPhases, TypeOK, Phases, Recovering
  <2>3. CASE outstanding' = 0
    <3>1. /\ tail' = 1 /\ pc'[p] = "commit"
          /\ phase' = IF lh = <<>> THEN "finish" ELSE "write_log"
      BY <1>1, <1>3, <2>3 DEF EndOp, TypeOK
    <3>2. Pending' = Pending
      BY <2>1, <2>2, <3>1 DEF Pending, Recovering
    <3> QED
      BY <2>1, <2>2, <3>1, <3>2 DEF RefInv, Header, Copied, disk, bufs
  <2>4. CASE outstanding' # 0
    <3>1. UNCHANGED <<phase, tail, committing>>
      BY <1>3, <2>4 DEF EndOp
    <3>2. Pending' = Pending
      BY <2>1, <3>1 DEF Pending, Recovering
    <3> QED
      BY <2>1, <2>2, <3>1, <3>2 DEF RefInv, Header, Copied, disk, bufs
  <2> QED
    BY <2>3, <2>4
<1> QED
  BY <1>2, <1>3

LEMMA WorkRef ==
  ASSUME RefInv, NEW p \in Procs,
         LogWrite(p) \/ \E b \in Blocks, v \in Vals : Modify(p, b, v)
  PROVE  Header' /\ Copied'
<1>1. Inv /\ TypeOK /\ Counting /\ Header /\ Copied
  BY DEF RefInv, Inv
<1>2. pc[p] = "in" /\ ~committing /\ phase = "idle"
  BY <1>1 DEF LogWrite, Modify, Counting, Inside, CommitPhases, TypeOK, Phases, Recovering
<1>3. ASSUME NEW b \in Blocks, NEW v \in Vals, Modify(p, b, v)
      PROVE  Header' /\ Copied'
  <2>1. /\ UNCHANGED <<disk, counters, phase, pc, tail>>
        /\ cache' = [cache EXCEPT ![b] = v] /\ held' = [held EXCEPT ![p] = b]
    BY <1>3 DEF Modify
  <2>2. v # NoBuf
    BY LogData
  <2>3. \A c \in Blocks : cache[c] # NoBuf => cache'[c] # NoBuf
    BY <1>1, <2>1, <2>2 DEF TypeOK
  <2>4. \A q \in Procs : held'[q] # NoBlock => cache'[held'[q]] # NoBuf
    BY <1>1, <2>1, <2>2, <2>3 DEF TypeOK, Copied
  <2>5. Pending' = Pending /\ Pending \subseteq Blocks
    <3>1. Pending' = Pending
      BY <2>1 DEF Pending, Recovering, counters
    <3>2. \A i \in 1..Len(lh) : lh[i] \in Blocks
      BY <1>1, LogAt
    <3> QED
      BY <3>1, <3>2 DEF Pending
  <2> QED
    BY <1>1, <1>2, <2>1, <2>3, <2>4, <2>5 DEF Header, Copied, disk, counters
<1>4. CASE LogWrite(p)
  <2>1. /\ UNCHANGED <<disk, cache, phase, pc, committing>>
        /\ held'[p] \in {held[p], NoBlock}
        /\ \A q \in Procs \ {p} : held'[q] = held[q]
        /\ lh' = lh \/ lh' = Append(lh, held[p])
    BY <1>1, <1>4 DEF LogWrite, TypeOK
  <2>2. held[p] \in Blocks /\ cache[held[p]] # NoBuf
    BY <1>1, <1>4 DEF LogWrite, TypeOK, Copied
  <2>3. Pending = Logged /\ Pending' = Logged'
    BY <1>2, <2>1 DEF Pending, Logged, Recovering
  <2>4. Logged' \subseteq Logged \union {held[p]}
    <3>1. CASE lh' = lh
      BY <3>1 DEF Logged
    <3>2. CASE lh' = Append(lh, held[p])
      <4>1. /\ Len(lh) \in Nat
            /\ Len(lh') = Len(lh) + 1
            /\ \A i \in 1..Len(lh) : lh'[i] = lh[i]
            /\ lh'[Len(lh) + 1] = held[p]
        BY <1>1, <2>2, <3>2, AppendProperties, LenProperties DEF TypeOK
      <4> QED
        BY <4>1 DEF Logged
    <3> QED
      BY <2>1, <3>1, <3>2
  <2> QED
    BY <1>1, <1>2, <2>1, <2>2, <2>3, <2>4 DEF Header, Copied, disk
<1> QED
  BY <1>3, <1>4

LEMMA WriteLogRef ==
  ASSUME RefInv, WriteLog
  PROVE  Header' /\ Copied'
<1> USE DEF WriteLog, counters
<1> DEFINE b == lh[tail]
<1>1. /\ tail \in 1..Len(lh) /\ Len(lh) \in Nat /\ b \in Blocks /\ tail \in 1..LOGSIZE
      /\ \A i \in 1..Len(lh) : lh[i] \in Blocks /\ i \in 1..LOGSIZE
      /\ \A i \in 1..Len(lh) : i # tail => lh[i] # b
  BY LoopFacts
<1>2. Pending = Logged /\ Pending' = Logged
  BY DEF Pending, Logged, Recovering
<1>3. cache[b] # NoBuf /\ Content(b) = cache[b]
  BY <1>1, <1>2 DEF RefInv, Copied, Logged, Content
<1>4. cache' = cache
  BY <1>1, <1>3 DEF RefInv, Inv, TypeOK
<1>5. logblk'[tail] = cache[b] /\ \A i \in 1..LOGSIZE : i # tail => logblk'[i] = logblk[i]
  BY <1>1, <1>3 DEF RefInv, Inv, TypeOK
<1>6. \A i \in 1..tail : logblk'[i] = cache[lh[i]]
  BY <1>1, <1>5 DEF RefInv, Copied
<1>7. phase' = "write_log" => tail' = tail + 1
  BY DEF RefInv
<1>8. phase' = "write_head" => tail = Len(lh)
  BY DEF RefInv
<1>9. phase' \in {"write_log", "write_head"}
  BY DEF RefInv
<1>10. Header'
  BY <1>9 DEF RefInv, Header
<1>11. Copied'
  BY <1>1, <1>2, <1>4, <1>6, <1>7, <1>8, <1>9 DEF RefInv, Copied
<1> QED
  BY <1>10, <1>11

LEMMA InstallRef ==
  ASSUME RefInv, Install
  PROVE  Header' /\ Copied'
<1> USE DEF Install, counters
<1> DEFINE b == lh[tail]
<1>1. /\ tail \in 1..Len(lh) /\ Len(lh) \in Nat /\ b \in Blocks
      /\ logblk[tail] \in Vals
      /\ \A i \in 1..Len(lh) : lh[i] \in Blocks
      /\ \A i \in 1..Len(lh) : i # tail => lh[i] # b
  BY LoopFacts
<1>2. home'[b] = logblk[tail] /\ \A c \in Blocks : c # b => home'[c] = home[c]
  BY <1>1 DEF RefInv, Inv, TypeOK
<1>3. cache'[b] = logblk[tail] /\ \A c \in Blocks : c # b => cache'[c] = cache[c]
  BY <1>1 DEF RefInv, Inv, TypeOK
<1>4. \A i \in 1..(tail - 1) : home[lh[i]] = logblk[i]
  BY DEF RefInv, Copied
<1>5. \A i \in 1..tail : home'[lh[i]] = logblk[i]
  BY <1>1, <1>2, <1>4
<1>6. \/ phase' = phase /\ tail' = tail + 1
      \/ /\ tail = Len(lh)
         /\ \/ phase = "install" /\ phase' = "clear"
            \/ phase = "r_install" /\ phase' = "r_clear"
  <2>1. CASE tail = Len(lh)
    BY <2>1
  <2>2. CASE tail # Len(lh)
    BY <2>2
  <2> QED
    BY <2>1, <2>2
<1>7. phase' = "install" => /\ tail' = tail + 1
                            /\ \A i \in (tail + 1)..Len(lh) : logblk[i] = cache'[lh[i]]
  BY <1>1, <1>3, <1>6 DEF RefInv, Copied
<1>8. logblk[tail] # NoBuf
  BY <1>1, LogData
<1>9. Pending' \subseteq Pending
  BY <1>1, <1>6 DEF Pending, Recovering
<1>10. \A c \in Pending' : cache'[c] # NoBuf
  <2>1. Pending \subseteq Blocks
    BY <1>1 DEF Pending
  <2> QED
    BY <1>3, <1>8, <1>9, <2>1 DEF RefInv, Copied
<1>11. \A p \in Procs : held'[p] # NoBlock => cache'[held'[p]] # NoBuf
  BY <1>3, <1>8 DEF RefInv, Copied, Inv, TypeOK
<1>12. Header'
  BY <1>6 DEF RefInv, Header
<1>13. Copied'
  BY <1>1, <1>5, <1>6, <1>7, <1>10, <1>11 DEF Copied
<1> QED
  BY <1>12, <1>13

LEMMA OtherRef ==
  ASSUME RefInv, WriteHead \/ ClearHead \/ (\E p \in Procs : Finish(p)) \/ ReadHead \/ Crash
  PROVE  Header' /\ Copied'
<1>1. Inv /\ TypeOK /\ Counting /\ Looping /\ Header /\ Copied
  BY DEF RefInv, Inv
<1>2. Len(lh) \in Nat /\ Len(<<>>) = 0
  BY <1>1, LenProperties, EmptySeq DEF TypeOK
<1>3. CASE WriteHead
  <2>1. Pending = Logged /\ Pending' = Logged
    BY <1>1, <1>2, <1>3 DEF WriteHead, Pending, Logged, Looping, Recovering, counters
  <2> QED
    BY <1>1, <1>2, <1>3, <2>1 DEF WriteHead, Header, Copied, Looping, counters, bufs
<1>4. CASE ClearHead
  <2>1. Pending' = {}
    BY <1>2, <1>4 DEF ClearHead, Pending
  <2> QED
    BY <1>1, <1>2, <1>4, <2>1 DEF ClearHead, Header, Copied, Counting, CommitPhases, bufs
<1>5. ASSUME NEW p \in Procs, Finish(p)
      PROVE  Header' /\ Copied'
  <2>1. Pending' = Pending
    BY <1>1, <1>5 DEF Finish, Pending, Recovering
  <2> QED
    BY <1>1, <1>5, <2>1 DEF Finish, Header, Copied, disk, bufs
<1>6. CASE ReadHead
  <2>1. Pending' = {}
    BY <1>6 DEF ReadHead, Pending, Recovering
  <2>2. ~committing /\ tail' = 1
    BY <1>1, <1>6 DEF ReadHead, Counting, CommitPhases
  <2> QED
    BY <1>1, <1>2, <1>6, <2>1, <2>2 DEF ReadHead, Header, Copied, disk, bufs
<1>7. CASE Crash
  <2>1. Pending' = {}
    BY <1>7 DEF Crash, Pending, Recovering
  <2> QED
    BY <1>7, <2>1 DEF Crash, Header, Copied
<1> QED
  BY <1>3, <1>4, <1>5, <1>6, <1>7

LEMMA CacheRef ==
  ASSUME RefInv, NEW b \in Blocks, Load(b) \/ Recycle(b)
  PROVE  Header' /\ Copied'
<1> USE DEF Load, Recycle, disk, counters
<1>1. Inv /\ TypeOK /\ Pinning /\ Header /\ Copied
  BY DEF RefInv, Inv
<1>2. Pending' = Pending /\ Pending \subseteq Blocks
  <2>1. \A i \in 1..Len(lh) : lh[i] \in Blocks
    BY <1>1, LogAt
  <2> QED
    BY <2>1 DEF Pending, Recovering
<1>3. b \notin Pending
  BY <1>1 DEF Pinning, Copied
<1>4. \A p \in Procs : held[p] # b
  BY DEF Free
<1>5. \A c \in Blocks : c # b => cache'[c] = cache[c]
  BY <1>1 DEF TypeOK
<1>6. Len(lh) \in Nat /\ tail \in Nat
  BY <1>1, LogSizes, LenProperties DEF TypeOK
<1>7. phase \in {"write_log", "write_head"} => \A i \in 1..Len(lh) : lh[i] \in Pending
  BY DEF Pending, Recovering
<1>8. phase = "install" => \A i \in tail..Len(lh) : i \in 1..Len(lh) => lh[i] \in Pending
  BY DEF Pending, Recovering
<1>9. \A i \in 1..Len(lh) : lh[i] \in Pending => cache'[lh[i]] = cache[lh[i]]
  BY <1>2, <1>3, <1>5
<1>10. \A c \in Pending' : cache'[c] # NoBuf
  BY <1>1, <1>2, <1>3, <1>5 DEF Copied
<1>11. \A p \in Procs : held'[p] # NoBlock => cache'[held'[p]] # NoBuf
  BY <1>1, <1>4, <1>5 DEF Copied, TypeOK
<1>12. phase = "write_log" => \A i \in 1..(tail - 1) : logblk[i] = cache'[lh[i]]
  BY <1>1, <1>6, <1>7, <1>9 DEF Copied, Looping, Inv, RefInv
<1>13. phase = "write_head" => \A i \in 1..Len(lh) : logblk[i] = cache'[lh[i]]
  BY <1>1, <1>7, <1>9 DEF Copied
<1>14. phase = "install" => \A i \in tail..Len(lh) : logblk[i] = cache'[lh[i]]
  BY <1>1, <1>6, <1>8, <1>9, LogSizes DEF Copied, TypeOK
<1>15. Copied'
  BY <1>1, <1>10, <1>11, <1>12, <1>13, <1>14 DEF Copied
<1> QED
  BY <1>1, <1>15 DEF Header

LEMMA RefNext ==
  ASSUME RefInv, [Next]_vars
  PROVE  RefInv'
<1>1. Inv'
  BY NextInv DEF RefInv
<1>2. CASE UNCHANGED vars
  <2>1. Pending' = Pending
    BY <1>2 DEF Pending, Recovering, vars, disk, counters, bufs
  <2> QED
    BY <1>1, <1>2, <2>1 DEF RefInv, Header, Copied, vars, disk, counters, bufs
<1>3. CASE Next
  BY <1>1, <1>3, CallRef, WorkRef, WriteLogRef, InstallRef, OtherRef, CacheRef
  DEF Next, Commit, RefInv
<1> QED
  BY <1>2, <1>3

-----------------------------------------------------------------------------
(* What the disk would hold after a crash. *)

\* A header laid over the home blocks, and what it shows of one block.
Overlay(h, l, m, b) ==
  IF \E i \in 1..Len(h) : h[i] = b THEN l[CHOOSE i \in 1..Len(h) : h[i] = b] ELSE m[b]

LEMMA OverlayAt ==
  ASSUME NEW h, NEW l, NEW m, NEW b,
         \A i, j \in 1..Len(h) : h[i] = h[j] => i = j
  PROVE  /\ \A i \in 1..Len(h) : h[i] = b => Overlay(h, l, m, b) = l[i]
         /\ (\A i \in 1..Len(h) : h[i] # b) => Overlay(h, l, m, b) = m[b]
<1>1. ASSUME NEW i \in 1..Len(h), h[i] = b
      PROVE  Overlay(h, l, m, b) = l[i]
  <2>1. (CHOOSE k \in 1..Len(h) : h[k] = b) = i
    BY <1>1
  <2> QED
    BY <1>1, <2>1 DEF Overlay
<1> QED
  BY <1>1 DEF Overlay

\* With no transaction in the header, recovery changes nothing.
LEMMA RecoveredHome ==
  ASSUME Inv, hdr = <<>>
  PROVE  Recovered = home
<1>1. Len(hdr) = 0 /\ 1..Len(hdr) = {}
  BY EmptySeq
<1>2. Recovered = [b \in Blocks |-> home[b]]
  BY <1>1 DEF Recovered
<1> QED
  BY <1>2 DEF Inv, TypeOK

\* With the transaction in the header, recovery overwrites its blocks.
LEMMA RecoveredLog ==
  ASSUME Inv, hdr = lh, NEW b \in Blocks
  PROVE  /\ \A i \in 1..Len(lh) : lh[i] = b => Recovered[b] = logblk[i]
         /\ (\A i \in 1..Len(lh) : lh[i] # b) => Recovered[b] = home[b]
<1>1. Recovered[b] = Overlay(lh, logblk, home, b)
  BY DEF Recovered, Overlay
<1>2. \A i, j \in 1..Len(lh) : lh[i] = lh[j] => i = j
  BY DEF Inv, Looping
<1> QED
  BY <1>1, <1>2, OverlayAt

LEMMA RecoveredLogNext ==
  ASSUME Inv, hdr' = lh, NEW b \in Blocks
  PROVE  /\ \A i \in 1..Len(lh) : lh[i] = b => Recovered'[b] = logblk'[i]
         /\ (\A i \in 1..Len(lh) : lh[i] # b) => Recovered'[b] = home'[b]
<1>1. Recovered'[b] = Overlay(lh, logblk', home', b)
  BY DEF Recovered, Overlay
<1>2. \A i, j \in 1..Len(lh) : lh[i] = lh[j] => i = j
  BY DEF Inv, Looping
<1> QED
  BY <1>1, <1>2, OverlayAt

\* While nobody is inside, a block that is not pending reads as it is at home.
LEMMA CleanContent ==
  ASSUME Inv, Inside = {}, NEW b \in Blocks, b \notin Pending
  PROVE  Content(b) = home[b]
<1>1. Free(b)
  BY LogData DEF Inv, Counting, Inside, Free
<1> QED
  BY <1>1 DEF Inv, Pinning, Content

-----------------------------------------------------------------------------
(* Every step of the log is a step of the atomic disk, or none. *)

LEMMA BeginStep ==
  ASSUME RefInv, NEW p \in Procs, BeginOp(p)
  PROVE  Disk!Begin(p)
<1> USE DEF BeginOp, InBeginOp, disk, bufs
<1>1. Recovered' = Recovered
  BY DEF Recovered
<1>2. Visible' = Visible
  BY <1>1 DEF Visible, Recovering, Content
<1>3. Active' = Active \union {p} /\ p \notin Active
  BY DEF Active, RefInv, Inv, TypeOK
<1> QED
  BY <1>1, <1>2, <1>3 DEF Disk!Begin, Active

LEMMA EndOpStep ==
  ASSUME RefInv, NEW p \in Procs, EndOp(p)
  PROVE  Disk!Leave(p) \/ UNCHANGED Disk!vars
<1> USE DEF EndOp, disk, bufs
<1>1. Inv /\ TypeOK /\ Counting /\ ~committing
  BY DEF RefInv, Inv, Counting, Inside
<1>2. Recovered' = Recovered
  BY DEF Recovered
<1>3. Recovering' = Recovering
  BY <1>1 DEF Recovering, Counting
<1>4. Visible' = Visible
  BY <1>2, <1>3 DEF Visible, Content
<1>5. CASE outstanding' = 0
  <2>1. Active' = Active
    BY <1>1, <1>5 DEF Active, TypeOK
  <2> QED
    BY <1>2, <1>4, <2>1 DEF Disk!vars, Active
<1>6. CASE outstanding' # 0
  <2>1. Active' = Active \ {p} /\ p \in Active
    BY <1>1, <1>6, WakeFacts DEF Active
  <2>2. Active # {p}
    <3>1. SUFFICES ASSUME Active = {p} PROVE FALSE
      OBVIOUS
    <3>2. Inside = {p}
      BY <3>1 DEF Active, Inside
    <3>3. outstanding = 1
      BY <1>1, <3>2, FS_Singleton DEF Counting
    <3> QED
      BY <1>6, <3>3
  <2> QED
    BY <1>2, <1>4, <2>1, <2>2 DEF Disk!Leave, Active
<1> QED
  BY <1>5, <1>6

LEMMA ModifyStep ==
  ASSUME RefInv, NEW p \in Procs, NEW b \in Blocks, NEW v \in Vals, Modify(p, b, v)
  PROVE  Disk!Write(p, b, v)
<1> USE DEF Modify, disk, counters
<1>1. Recovered' = Recovered /\ Active' = Active /\ p \in Active
  BY DEF Recovered, Active
<1>2. ~Recovering /\ ~Recovering'
  BY DEF RefInv, Inv, Counting, Recovering
<1>3. v # NoBuf
  BY LogData
<1>4. \A c \in Blocks : Content(c)' = IF c = b THEN v ELSE Content(c)
  BY <1>3 DEF RefInv, Inv, TypeOK, Content
<1>5. Visible' = [Visible EXCEPT ![b] = v]
  BY <1>2, <1>4 DEF Visible
<1> QED
  BY <1>1, <1>5 DEF Disk!Write, Active

LEMMA StutterSteps ==
  ASSUME RefInv,
         \/ \E p \in Procs : BeginOpSleep(p) \/ LogWrite(p)
         \/ \E b \in Blocks : Load(b) \/ Recycle(b)
         \/ WriteLog \/ ReadHead
  PROVE  UNCHANGED Disk!vars
<1>1. Inv /\ TypeOK /\ Pinning /\ Header /\ Copied
  BY DEF RefInv, Inv
<1>2. ASSUME NEW p \in Procs, BeginOpSleep(p) \/ LogWrite(p)
      PROVE  UNCHANGED <<Visible, Recovered, Active>>
  <2>1. UNCHANGED <<disk, cache, phase>>
    BY <1>2 DEF BeginOpSleep, LogWrite, bufs
  <2>2. Active' = Active
    BY <1>1, <1>2 DEF BeginOpSleep, InBeginOp, LogWrite, Active, TypeOK
  <2> QED
    BY <2>1, <2>2 DEF Visible, Recovered, Recovering, Content, disk
<1>3. ASSUME NEW b \in Blocks, Load(b) \/ Recycle(b)
      PROVE  UNCHANGED <<Visible, Recovered, Active>>
  <2> USE <1>3 DEF Load, Recycle, disk, counters
  <2>1. Recovered' = Recovered /\ Active' = Active /\ Recovering' = Recovering
    BY DEF Recovered, Active, Recovering
  <2>2. home[b] # NoBuf
    BY <1>1, LogData DEF TypeOK
  <2>3. b \notin Pending
    BY <1>1 DEF Pinning, Copied
  <2>4. Content(b)' = Content(b)
    BY <1>1, <2>2, <2>3 DEF Content, Pinning, TypeOK
  <2>5. \A c \in Blocks : c # b => Content(c)' = Content(c)
    BY <1>1 DEF Content, TypeOK
  <2>6. \A c \in Blocks : Content(c)' = Content(c)
    BY <2>4, <2>5
  <2> QED
    BY <2>1, <2>6 DEF Visible
<1>4. ASSUME WriteLog
      PROVE  UNCHANGED <<Visible, Recovered, Active>>
  <2> USE <1>4 DEF WriteLog, counters
  <2>1. hdr = <<>> /\ hdr' = <<>> /\ home' = home
    BY <1>1 DEF Header
  <2>2. Inv'
    BY <1>1, WriteLogInv
  <2>3. Recovered = home /\ Recovered' = home'
    <3>1. Len(hdr) = 0 /\ Len(hdr') = 0
      BY <2>1, EmptySeq
    <3>2. Recovered = [b \in Blocks |-> home[b]] /\ Recovered' = [b \in Blocks |-> home'[b]]
      BY <2>1, <3>1 DEF Recovered
    <3> QED
      BY <1>1, <2>2, <3>2 DEF Inv, TypeOK
  <2>4. ~Recovering /\ ~Recovering' /\ Active' = Active
    BY <1>1 DEF Recovering, Active
  <2>5. lh[tail] \in Blocks /\ Content(lh[tail]) # NoBuf
    BY <1>1, LoopFacts, ContentType, LogData
  <2>6. \A c \in Blocks : Content(c)' = Content(c)
    BY <1>1, <2>1, <2>5 DEF Content, TypeOK
  <2> QED
    BY <2>1, <2>3, <2>4, <2>6 DEF Visible
<1>5. ASSUME ReadHead
      PROVE  UNCHANGED <<Visible, Recovered, Active>>
  <2>1. UNCHANGED <<disk, pc>> /\ Recovering /\ Recovering'
    BY <1>5 DEF ReadHead, Recovering
  <2> QED
    BY <2>1 DEF Visible, Recovered, Active, disk
<1>6. UNCHANGED <<Visible, Recovered, Active>>
  BY <1>2, <1>3, <1>4, <1>5
<1> QED
  BY <1>6 DEF Disk!vars, Active

\* A committer is alone in the log.
LEMMA OneCommitter ==
  ASSUME RefInv, committing
  PROVE  \E p \in Procs : Active = {p} /\ pc[p] = "commit"
<1>1. PICK p \in Procs : pc[p] = "commit"
  BY DEF RefInv, Header
<1>2. \A q \in Procs : pc[q] # "in" /\ (pc[q] = "commit" => q = p)
  BY <1>1 DEF RefInv, Inv, Counting, Inside
<1>3. Active = {p}
  BY <1>1, <1>2 DEF Active
<1> QED
  BY <1>1, <1>3

\* Writing the header is the commit point.
LEMMA WriteHeadStep ==
  ASSUME RefInv, WriteHead
  PROVE  \E p \in Procs : Disk!Commit(p)
<1> USE DEF WriteHead, counters, bufs
<1>1. Inv /\ TypeOK /\ Copied /\ committing /\ Inside = {} /\ Inv'
  BY WriteHeadInv DEF RefInv, Inv, Counting, CommitPhases
<1>2. ~Recovering /\ ~Recovering'
  BY DEF Recovering
<1>3. PICK p \in Procs : Active = {p}
  BY <1>1, OneCommitter
<1>4. Pending = Logged
  BY <1>2 DEF Pending, Logged
<1>5. Visible = [b \in Blocks |-> Content(b)] /\ Visible' = Visible
  BY <1>2 DEF Visible, Content
<1>6. ASSUME NEW b \in Blocks
      PROVE  Recovered'[b] = Content(b)
  <2>1. /\ \A i \in 1..Len(lh) : lh[i] = b => Recovered'[b] = logblk[i]
        /\ (\A i \in 1..Len(lh) : lh[i] # b) => Recovered'[b] = home[b]
    BY <1>1, RecoveredLogNext
  <2>2. CASE b \in Logged
    <3>1. PICK i \in 1..Len(lh) : lh[i] = b
      BY <2>2 DEF Logged
    <3>2. logblk[i] = cache[b] /\ cache[b] # NoBuf
      BY <1>1, <1>4, <2>2, <3>1 DEF Copied
    <3> QED
      BY <2>1, <3>1, <3>2 DEF Content
  <2>3. CASE b \notin Logged
    BY <1>1, <1>4, <2>1, <2>3, CleanContent DEF Logged
  <2> QED
    BY <2>2, <2>3
<1>7. Recovered' = Visible
  BY <1>5, <1>6 DEF Recovered
<1>8. Active' = Active
  BY DEF Active
<1> QED
  BY <1>3, <1>5, <1>7, <1>8 DEF Disk!Commit, Active

\* Installing the transaction changes neither what calls read nor what a
\* crash would leave.
LEMMA InstallStep ==
  ASSUME RefInv, Install
  PROVE  UNCHANGED Disk!vars
<1> USE DEF Install, counters
<1>1. /\ Inv /\ TypeOK /\ Copied /\ Pinning /\ hdr = lh /\ hdr' = lh'
      /\ Inv' /\ lh' = lh /\ logblk' = logblk
  BY InstallInv DEF RefInv, Inv, Header
<1>2. /\ tail \in 1..Len(lh) /\ lh[tail] \in Blocks /\ logblk[tail] \in Vals
      /\ Len(lh) \in Nat
  BY LoopFacts
<1>3. \A b \in Blocks : b # lh[tail] => home'[b] = home[b] /\ cache'[b] = cache[b]
  BY <1>1, <1>2 DEF TypeOK
<1>4. ASSUME NEW b \in Blocks
      PROVE  Recovered'[b] = Recovered[b]
  <2>1. /\ \A i \in 1..Len(lh) : lh[i] = b => Recovered[b] = logblk[i]
        /\ (\A i \in 1..Len(lh) : lh[i] # b) => Recovered[b] = home[b]
    BY <1>1, RecoveredLog
  <2>2. /\ \A i \in 1..Len(lh) : lh[i] = b => Recovered'[b] = logblk'[i]
        /\ (\A i \in 1..Len(lh) : lh[i] # b) => Recovered'[b] = home'[b]
    BY <1>1, RecoveredLogNext
  <2> QED
    BY <1>1, <1>2, <1>3, <2>1, <2>2
<1>5. Recovered' = Recovered
  BY <1>4 DEF Recovered
<1>6. Active' = Active
  BY DEF Active
<1>7. CASE phase = "r_install"
  <2>1. Recovering /\ Recovering'
    BY <1>7 DEF Recovering
  <2>2. Visible' = Visible
    BY <1>5, <2>1 DEF Visible
  <2> QED
    BY <1>5, <1>6, <2>2 DEF Disk!vars, Active
<1>8. CASE phase = "install"
  <2>1. ~Recovering /\ ~Recovering'
    BY <1>8 DEF Recovering
  <2>2. lh[tail] \in Pending
    BY <1>2, <1>8, <2>1 DEF Pending
  <2>3. cache[lh[tail]] = logblk[tail] /\ cache[lh[tail]] # NoBuf
    BY <1>1, <1>2, <1>8, <2>2 DEF Copied
  <2>4. cache' = cache
    BY <1>1, <1>2, <2>3 DEF TypeOK
  <2>5. \A b \in Blocks : Content(b)' = Content(b)
    BY <1>3, <2>3, <2>4 DEF Content
  <2>6. Visible' = Visible
    BY <2>1, <2>5 DEF Visible
  <2> QED
    BY <1>5, <1>6, <2>6 DEF Disk!vars, Active
<1> QED
  BY <1>7, <1>8

\* Once every block is home, erasing the header loses nothing.
LEMMA ClearHeadStep ==
  ASSUME RefInv, ClearHead
  PROVE  UNCHANGED Disk!vars
<1> USE DEF ClearHead, bufs
<1>1. Inv /\ TypeOK /\ Copied /\ Pinning /\ hdr = lh /\ Inv'
  BY ClearHeadInv DEF RefInv, Inv, Header
<1>2. Recovered' = home
  <2>1. Len(hdr') = 0
    BY EmptySeq
  <2>2. Recovered' = [b \in Blocks |-> home[b]]
    BY <2>1 DEF Recovered
  <2> QED
    BY <1>1, <2>2 DEF TypeOK
<1>3. ASSUME NEW b \in Blocks
      PROVE  Recovered[b] = home[b]
  <2>1. \A i \in 1..Len(lh) : lh[i] = b => logblk[i] = home[b]
    BY <1>1 DEF Copied
  <2> QED
    BY <1>1, <2>1, RecoveredLog
<1>4. Recovered = [b \in Blocks |-> home[b]]
  BY <1>3 DEF Recovered
<1>5. Recovered' = Recovered /\ Recovered = home
  BY <1>1, <1>2, <1>4 DEF TypeOK
<1>6. ~Recovering'
  BY DEF Recovering
<1>7. CASE phase = "clear"
  BY <1>5, <1>6, <1>7 DEF Visible, Recovering, Content, Disk!vars
<1>8. CASE phase = "r_clear"
  <2>1. Pending = {} /\ Recovering /\ Inside = {}
    BY <1>1, <1>8 DEF Pending, Recovering, Inv, Counting, Inside
  <2>2. \A b \in Blocks : Content(b)' = home[b]
    BY <1>1, <2>1, CleanContent DEF Content
  <2>3. Visible' = [b \in Blocks |-> home[b]] /\ Visible = Recovered
    BY <1>6, <2>1, <2>2, <1>4, <1>3 DEF Visible
  <2> QED
    BY <1>1, <1>5, <2>3 DEF Disk!vars, TypeOK
<1> QED
  BY <1>7, <1>8

\* The last call returns when memory and disk agree.
LEMMA FinishStep ==
  ASSUME RefInv, NEW p \in Procs, Finish(p)
  PROVE  Disk!Return(p)
<1> USE DEF Finish, disk, bufs
<1>1. /\ Inv /\ TypeOK /\ hdr = <<>> /\ lh = <<>> /\ committing /\ Inside = {}
      /\ ~Recovering /\ ~Recovering'
  BY DEF RefInv, Inv, Header, Counting, CommitPhases, Recovering
<1>2. Active = {p} /\ Active' = {}
  <2>1. Active = {p}
    BY <1>1, OneCommitter DEF Active
  <2> QED
    BY <1>1, <2>1, WakeFacts DEF Active
<1>3. Pending = {}
  BY <1>1, EmptySeq DEF Pending
<1>4. \A b \in Blocks : Content(b) = home[b]
  BY <1>1, <1>3, CleanContent
<1>5. Recovered = home /\ Recovered' = Recovered
  BY <1>1, RecoveredHome DEF Recovered
<1>6. Visible = Recovered /\ Visible' = Visible
  <2>1. Visible = [b \in Blocks |-> home[b]]
    BY <1>1, <1>4 DEF Visible
  <2>2. Visible' = Visible
    BY <1>1 DEF Visible, Content
  <2> QED
    BY <1>1, <1>5, <2>1, <2>2 DEF TypeOK
<1> QED
  BY <1>2, <1>5, <1>6 DEF Disk!Return, Active

LEMMA CrashStep ==
  ASSUME Crash
  PROVE  Disk!Crash
<1> USE DEF Crash, disk
<1>1. Recovered' = Recovered /\ Recovering'
  BY DEF Recovered, Recovering
<1>2. Visible' = Recovered' /\ Active' = {}
  BY <1>1 DEF Visible, Active, Recovered
<1> QED
  BY <1>1, <1>2 DEF Disk!Crash, Active

LEMMA RefInitStep == Init => Disk!Init
<1> SUFFICES ASSUME Init PROVE Disk!Init
  OBVIOUS
<1>1. Inv /\ hdr = <<>> /\ Recovering
  BY InitInv DEF Init, Recovering
<1>2. Recovered = home
  BY <1>1, RecoveredHome
<1>3. Visible = Recovered /\ Active = {}
  BY <1>1 DEF Visible, Recovered, Active, Init
<1> QED
  BY <1>2, <1>3 DEF Disk!Init, Active, Init

LEMMA RefStep ==
  ASSUME RefInv, [Next]_vars
  PROVE  [Disk!Next]_Disk!vars
<1>1. CASE UNCHANGED vars
  BY <1>1 DEF vars, disk, counters, bufs, Disk!vars, Visible, Recovered, Recovering, Content
<1>2. CASE Next
  BY <1>2, BeginStep, EndOpStep, ModifyStep, StutterSteps, WriteHeadStep, InstallStep,
     ClearHeadStep, FinishStep, CrashStep
  DEF Next, Commit, Disk!Next
<1> QED
  BY <1>1, <1>2

\* The log implements the atomic disk for any number of processes, blocks,
\* contents and sizes: every step of a call, of a commit, of a recovery and
\* of a crash is one step of AtomicDisk or none.
THEOREM LogImplementsAtomicDisk == Spec => AtomicDiskSpec
<1>1. Spec => []RefInv
  BY RefInit, RefNext, PTL DEF Spec
<1> QED
  BY <1>1, RefInitStep, RefStep, PTL DEF Spec, AtomicDiskSpec, Disk!Spec
=============================================================================
