------------------------------- MODULE Umalloc -------------------------------
(* malloc() and free() of the user library (user/umalloc.c).  Assignment2's    *)
(* copy.  Addresses and sizes count headers (16 bytes); base, in the data of the *)
(* program, lies below everything that sbrk() gives, at address 0.               *)
EXTENDS Naturals, FiniteSets

CONSTANTS MOREUNITS,   \* morecore() asks for so many units at least
          Requests,    \* the sizes that are asked for, in units without the header
          MaxBrk       \* how far the heap may grow: sbrk() fails beyond

VARIABLES size,    \* size[a]: s.size of the block at a, 0 where none begins
          ptr,     \* ptr[a]: s.ptr of a block on the free list
          freep,   \* freep; Unset before the first malloc()
          brk,     \* the end of the heap
          live,    \* history: the blocks that the program has
          gaps     \* history: units the program took from sbrk() itself

uvars == <<size, ptr, freep, brk, live, gaps>>

Base == 0
Unset == MaxBrk + 1
Addrs == 0..MaxBrk

MallocInit ==
  /\ size = [a \in Addrs |-> 0] /\ ptr = [a \in Addrs |-> Base]
  /\ freep = Unset /\ brk = 1 /\ live = {} /\ gaps = {}

Heap == [size |-> size, ptr |-> ptr, freep |-> freep, brk |-> brk, block |-> Unset]

\* The block that is k steps from freep along the list.
After(m, k) == LET at[i \in 0..k] == IF i = 0 THEN m.freep ELSE m.ptr[at[i - 1]] IN at[k]
FirstOf(K) == CHOOSE k \in K : \A l \in K : k <= l

----------------------------------------------------------------------------
(* free() *)

\* bp belongs between p and the block after it, which may be the first one again.
Between(m, p, bp) ==
  LET next == m.ptr[p] IN
  (bp > p /\ bp < next) \/ (p >= next /\ (bp > p \/ bp < next))

Put(m, a, sz, next) == [m EXCEPT !.size[a] = sz, !.ptr[a] = next]

\* bp swallows the block that follows it, and then p swallows bp.
Upper(m, p, bp) ==
  LET next == m.ptr[p] IN
  IF bp + m.size[bp] = next
  THEN Put(Put(m, next, 0, Base), bp, m.size[bp] + m.size[next], m.ptr[next])
  ELSE Put(m, bp, m.size[bp], next)
MutLower(m, p, bp) == [m EXCEPT !.ptr[p] = bp]
Lower(m, p, bp) ==
  IF p + m.size[p] = bp
  THEN Put(Put(m, bp, 0, Base), p, m.size[p] + m.size[bp], m.ptr[bp])
  ELSE [m EXCEPT !.ptr[p] = bp]

Insert(m, p, bp) == [Lower(Upper(m, p, bp), p, bp) EXCEPT !.freep = p]
free(m, bp) ==
  Insert(m, After(m, FirstOf({k \in Addrs : Between(m, After(m, k), bp)})), bp)

----------------------------------------------------------------------------
(* malloc() *)

\* morecore(): what sbrk() gives is a block that is freed.
Units(n) == IF n < MOREUNITS THEN MOREUNITS ELSE n
morecore(m, n) ==
  free([m EXCEPT !.size[m.brk] = Units(n), !.brk = @ + Units(n)], m.brk)

\* The first block that is large enough is taken, or the end of it.
Fitting(m, n) == {k \in 1..MaxBrk : m.size[After(m, k)] >= n}
Cut(m, prevp, p, n) ==
  IF m.size[p] = n THEN [Put(m, prevp, m.size[prevp], m.ptr[p]) EXCEPT !.block = p]
  ELSE LET rest == m.size[p] - n IN
       [m EXCEPT !.size[p] = rest, !.size[p + rest] = n, !.block = p + rest]
Chosen(m, k, n) == [Cut(m, After(m, k - 1), After(m, k), n) EXCEPT !.freep = After(m, k - 1)]
Search(m, n) == Chosen(m, FirstOf(Fitting(m, n)), n)

Begun(m) == IF m.freep = Unset THEN [m EXCEPT !.freep = Base] ELSE m

\* sbrk() may fail, and then so does malloc().
Malloc(n) ==
  LET m == Begun(Heap)
      nunits == n + 1
      r == IF Fitting(m, nunits) # {} THEN Search(m, nunits)
           ELSE IF brk + Units(nunits) <= MaxBrk THEN Search(morecore(m, nunits), nunits)
           ELSE m
  IN
  /\ size' = r.size /\ ptr' = r.ptr /\ freep' = r.freep /\ brk' = r.brk
  /\ live' = IF r.block = Unset THEN live ELSE live \cup {<<r.block, nunits>>}
  /\ UNCHANGED gaps

Free(b) ==
  LET r == free(Heap, b[1]) IN
  /\ size' = r.size /\ ptr' = r.ptr /\ freep' = r.freep
  /\ live' = live \ {b}
  /\ UNCHANGED <<brk, gaps>>

\* The program calls sbrk() itself, and the heap has a gap.
Sbrk ==
  /\ brk < MaxBrk
  /\ brk' = brk + 1 /\ gaps' = gaps \cup {brk}
  /\ UNCHANGED <<size, ptr, freep, live>>

MallocNext == Sbrk \/ (\E n \in Requests : Malloc(n)) \/ (\E b \in live : Free(b))

MallocSpec == MallocInit /\ [][MallocNext]_uvars

----------------------------------------------------------------------------
(* Properties. *)

FreeList == IF freep = Unset THEN {} ELSE {After(Heap, k) : k \in Addrs}
Covers(a, n, u) == a <= u /\ u < a + n

\* Every unit of the heap is in one free block, in one block that the program has, or
\* its own; the header of a block it has says how large it is; and the free list
\* goes round once in the order of the addresses, with neighbours joined.
HeapTiled ==
  /\ \A u \in 1..(brk - 1) :
       Cardinality({a \in FreeList : Covers(a, size[a], u)})
       + Cardinality({b \in live : Covers(b[1], b[2], u)}) + (IF u \in gaps THEN 1 ELSE 0) = 1
  /\ \A b \in live : size[b[1]] = b[2]
  /\ \A a \in FreeList : size[a] > 0 => a + size[a] \notin FreeList
  /\ Cardinality({a \in FreeList : ptr[a] <= a}) <= 1
=============================================================================
