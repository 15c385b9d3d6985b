------------------------------- MODULE Memory -------------------------------
(* Pages and page tables: kalloc.c, vm.c, exec.c and what proc.c does with    *)
(* memory (allocproc, freeproc, fork, growproc).  Assignment2's copy.         *)
(*                                                                            *)
(* Every C function is an operator from a state of memory to the next one, so *)
(* a call is one step.  What other processors do to the free list meanwhile    *)
(* shows only in kalloc() failing: quota says how many more times it finds a    *)
(* page during the call.  Which page it finds does not matter; sizes are        *)
(* counted in halves of a page, so that a size can end inside a page.           *)
EXTENDS Naturals, Sequences, FiniteSets, FiniteSetsExt, SequencesExt

CONSTANTS Slots,      \* 1..n; 1 is init, and 0 is the page table exec() builds
          NPAGES,     \* pages of physical memory
          MaxSz,      \* bound on p->sz, far below TRAPFRAME
          MaxQuota,
          Deltas,     \* what sbrk() is asked for: <<TRUE, n>> for n, <<FALSE, n>> for -n
          Programs    \* the ends of the segments of programs that exec() may load

VARIABLES freelist, \* the pages on kmem.freelist
          pt,      \* pt[p]: a page table; node 0 stands for none
          tf,      \* p->trapframe, or 0
          psz,     \* p->sz
          status,  \* "unused", "live" or "zombie"
          bad,     \* a panic, or a page that was freed twice
          failed   \* the call that was made last returned -1

mvars == <<freelist, pt, tf, psz, status, bad, failed>>

\* Three levels with two entries per table: 8 virtual pages.  A node is named by
\* its level and the part of the address that leads to it.
Pages8 == 0..7
TRAMPOLINE == 7
TRAPFRAME == 6
TEXT == NPAGES + 1        \* the page of trampoline.S, which is not kalloc()'s
Phys == 1..NPAGES
RootNode == <<2, 0>>
Nodes == {RootNode} \cup {<<1, i>> : i \in 0..1} \cup {<<0, i>> : i \in 0..3}
NoTable == [node |-> [n \in Nodes |-> 0], leaf |-> [v \in Pages8 |-> 0]]

PageUp(sz) == (sz + 1) \div 2      \* PGROUNDUP(sz) / PGSIZE

\* pa, ok, stop: results of the last function: a page or 0, success, and the page
\* at which a loop gave up; sz: the size exec() has reached.
Memory(quota) == [free |-> freelist, pt |-> pt, tf |-> tf, psz |-> psz, bad |-> bad,
                  quota |-> quota, pa |-> 0, ok |-> TRUE, stop |-> 0, sz |-> 0]

----------------------------------------------------------------------------
(* kalloc.c *)

Fails(m) == [m EXCEPT !.ok = FALSE]

kalloc(m) ==
  IF m.free = {} \/ m.quota = 0 THEN [m EXCEPT !.pa = 0]
  ELSE [m EXCEPT !.pa = Min(m.free), !.free = @ \ {Min(m.free)}, !.quota = @ - 1]

kfreeAll(m, P) ==
  [m EXCEPT !.free = @ \cup P, !.bad = @ \/ P \cap m.free # {} \/ ~(P \subseteq Phys)]
kfree(m, pa) == kfreeAll(m, {pa})

----------------------------------------------------------------------------
(* vm.c *)

Linked(k, x, n) == IF k.pa = 0 THEN k ELSE [k EXCEPT !.pt[x].node[n] = k.pa]
Enter(m, x, n) == IF m.pt[x].node[n] # 0 THEN [m EXCEPT !.pa = m.pt[x].node[n]]
                  ELSE Linked(kalloc(m), x, n)

\* walk() that allocates: what it has allocated stays when it fails.
Lower(a, x, v) == IF a.pa = 0 THEN a ELSE Enter(a, x, <<0, v \div 2>>)
walk(m, x, v) == Lower(Enter(m, x, <<1, v \div 4>>), x, v)

\* The table entry for v was found, or not.
Point(w, x, v, pa) ==
  IF w.pa = 0 THEN Fails(w)
  ELSE [w EXCEPT !.ok = TRUE, !.bad = @ \/ w.pt[x].leaf[v] # 0, !.pt[x].leaf[v] = pa]
mappages(m, x, v, pa) == Point(walk(m, x, v), x, v, pa)

\* uvmunmap() of the pages V, which must all be there.
uvmunmap(m, x, V, do_free) ==
  LET leaf == m.pt[x].leaf
      n == IF do_free THEN kfreeAll(m, {leaf[v] : v \in V}) ELSE m
  IN  [n EXCEPT !.bad = @ \/ (\E v \in V : leaf[v] = 0)
                        \/ (do_free /\ \E v, w \in V : v # w /\ leaf[v] = leaf[w]),
                !.pt[x].leaf = [v \in Pages8 |-> IF v \in V THEN 0 ELSE leaf[v]]]

\* A page of memory at v; a page that cannot be mapped is given back.
MutKept(q, v, pa) == IF q.ok THEN q ELSE [q EXCEPT !.stop = v]
Kept(q, v, pa) == IF q.ok THEN q ELSE [kfree(q, pa) EXCEPT !.stop = v]
PutPage(k, x, v) == IF k.pa = 0 THEN [Fails(k) EXCEPT !.stop = v]
                    ELSE Kept(mappages(k, x, v, k.pa), v, k.pa)
NewPage(m, x, v) == IF m.ok THEN PutPage(kalloc(m), x, v) ELSE m

Upwards(m, x, from, to) ==
  FoldLeft(LAMBDA n, v : NewPage(n, x, v), [m EXCEPT !.ok = TRUE],
           [i \in 1..(to - from) |-> from + i - 1])

\* The pages from a size down to another; neither need be a multiple of a page.
Between(old, new) == (PageUp(new)..(PageUp(old) - 1))

MutUndo(r, x, from) == r
Undo(r, x, from) == IF r.ok THEN r ELSE uvmunmap(r, x, from..(r.stop - 1), TRUE)

uvmalloc(m, x, old, new) == Undo(Upwards(m, x, PageUp(old), PageUp(new)), x, PageUp(old))

freewalk(m, x) ==
  LET T == m.pt[x] IN
  [kfreeAll(m, {T.node[n] : n \in Nodes} \ {0}) EXCEPT
     !.bad = @ \/ (\E v \in Pages8 : T.leaf[v] # 0) \/ T.node[RootNode] = 0,
     !.pt[x] = NoTable]

uvmfree(m, x, sz) == freewalk(uvmunmap(m, x, Between(sz, 0), TRUE), x)

uvmcopy(m, x, y, sz) ==
  Undo(Upwards([m EXCEPT !.bad = @ \/ \E v \in Between(sz, 0) : m.pt[x].leaf[v] = 0],
               y, 0, PageUp(sz)), y, 0)

----------------------------------------------------------------------------
(* proc.c and exec.c *)

\* The trampoline and the trapframe at the top of an empty table, from the last
\* step to the first.
Framed(c, x) == IF c.ok THEN c ELSE freewalk(uvmunmap(c, x, {TRAMPOLINE}, FALSE), x)
Jumped(b, x, trapframe) == IF b.ok THEN Framed(mappages(b, x, TRAPFRAME, trapframe), x)
                           ELSE freewalk(b, x)
Rooted(a, x, trapframe) ==
  IF a.pa = 0 THEN Fails(a)
  ELSE Jumped(mappages([a EXCEPT !.pt[x].node[RootNode] = a.pa], x, TRAMPOLINE, TEXT), x, trapframe)
proc_pagetable(m, x, trapframe) == Rooted(kalloc(m), x, trapframe)

proc_freepagetable(m, x, sz) ==
  uvmfree(uvmunmap(m, x, {TRAMPOLINE, TRAPFRAME}, FALSE), x, sz)

NoFrame(m, p) == IF m.tf[p] # 0 THEN [kfree(m, m.tf[p]) EXCEPT !.tf[p] = 0] ELSE m
freeproc(m, p) ==
  [(IF m.pt[p].node[RootNode] = 0 THEN NoFrame(m, p)
    ELSE proc_freepagetable(NoFrame(m, p), p, m.psz[p])) EXCEPT !.psz[p] = 0]

OrFree(m, p) == IF m.ok THEN m ELSE Fails(freeproc(m, p))
allocproc(m, p) ==
  LET a == kalloc(m)
  IN  IF a.pa = 0 THEN Fails(a)
      ELSE OrFree(proc_pagetable([a EXCEPT !.tf[p] = a.pa], p, a.pa), p)

\* np->sz is set when the memory is there, and not before as forkn() does.
MutCopied(b, p, c) == OrFree([b EXCEPT !.psz[c] = b.psz[p]], c)
Copied(b, p, c) == IF b.ok THEN [b EXCEPT !.psz[c] = b.psz[p]] ELSE OrFree(b, c)
Allocated(a, p, c) == IF a.ok THEN Copied(uvmcopy(a, p, c, a.psz[p]), p, c) ELSE a
ForkMemory(m, p, c) == Allocated(allocproc(m, c), p, c)

\* The segments one after the other.
Loaded(n, end) == IF n.ok THEN [n EXCEPT !.sz = end] ELSE n
Segments(m, ends) ==
  FoldLeft(LAMBDA r, end : IF ~r.ok \/ end < r.sz THEN r ELSE Loaded(uvmalloc(r, 0, r.sz, end), end),
           m, ends)

\* exec(): a guard page and a stack page follow the segments.  unfit: a segment
\* that cannot be read or arguments too long for the stack.  Then the new table
\* takes the place of the old one.
Stacked(s, p, sz, unfit) ==
  IF ~s.ok THEN Fails(proc_freepagetable(s, 0, sz))
  ELSE IF unfit = "arguments" THEN Fails(proc_freepagetable(s, 0, sz + 4))
  ELSE proc_freepagetable([s EXCEPT !.pt[p] = s.pt[0], !.pt[0] = s.pt[p], !.psz[p] = sz + 4],
                          0, s.psz[p])
Read(r, p, unfit) ==
  IF ~r.ok \/ unfit = "segment" THEN Fails(proc_freepagetable(r, 0, r.sz))
  ELSE LET sz == 2 * PageUp(r.sz) IN Stacked(uvmalloc(r, 0, sz, sz + 4), p, sz, unfit)
Fresh(a, p, ends, unfit) == IF a.ok THEN Read(Segments(a, ends), p, unfit) ELSE a
exec(m, p, ends, unfit) == Fresh(proc_pagetable([m EXCEPT !.sz = 0], 0, m.tf[p]), p, ends, unfit)

----------------------------------------------------------------------------

Returns(m) ==
  /\ freelist' = m.free /\ pt' = m.pt /\ tf' = m.tf /\ psz' = m.psz /\ bad' = m.bad
  /\ failed' = ~m.ok

\* userinit(): one page for initcode.
MemInit ==
  LET none == [free |-> Phys, pt |-> [x \in Slots \cup {0} |-> NoTable],
               tf |-> [p \in Slots |-> 0], psz |-> [p \in Slots |-> 0], bad |-> FALSE,
               quota |-> NPAGES, pa |-> 0, ok |-> TRUE, stop |-> 0, sz |-> 0]
      m == uvmalloc(allocproc(none, 1), 1, 0, 2)
  IN
  /\ freelist = m.free /\ pt = m.pt /\ tf = m.tf /\ psz = [m.psz EXCEPT ![1] = 2] /\ bad = m.bad
  /\ status = [p \in Slots |-> IF p = 1 THEN "live" ELSE "unused"]
  /\ failed = FALSE

SysFork(p) == \E c \in Slots, q \in 0..MaxQuota :
  LET m == ForkMemory(Memory(q), p, c) IN
  /\ status[p] = "live" /\ status[c] = "unused"
  /\ Returns(m)
  /\ status' = IF m.ok THEN [status EXCEPT ![c] = "live"] ELSE status

\* growproc() by n > 0.
Grow(p, n) == \E q \in 0..MaxQuota :
  LET m == uvmalloc(Memory(q), p, psz[p], psz[p] + n) IN
  /\ status[p] = "live" /\ psz[p] + n <= MaxSz
  /\ Returns([m EXCEPT !.psz[p] = IF m.ok THEN @ + n ELSE @])
  /\ UNCHANGED status

\* growproc() by -n: below 0 the size wraps around, and nothing is done.
Shrink(p, n) ==
  LET new == IF n > psz[p] THEN psz[p] ELSE psz[p] - n
      m == uvmunmap(Memory(0), p, Between(psz[p], new), TRUE)
  IN
  /\ status[p] = "live"
  /\ Returns([m EXCEPT !.psz[p] = new])
  /\ UNCHANGED status

\* sys_exec() has a page for the argument until exec() returns.
SysExec(p) == \E ends \in Programs, unfit \in {"no", "segment", "arguments"}, q \in 0..MaxQuota :
  LET a == kalloc(Memory(q))
      b == exec(a, p, ends, unfit)
  IN
  /\ status[p] = "live"
  /\ Returns(IF a.pa = 0 THEN Fails(a) ELSE kfree(b, a.pa))
  /\ UNCHANGED status

SysExit(p) ==
  /\ status[p] = "live" /\ p # 1
  /\ status' = [status EXCEPT ![p] = "zombie"]
  /\ UNCHANGED <<freelist, pt, tf, psz, bad, failed>>

\* wait() by the parent.
Reap(p) ==
  /\ status[p] = "zombie"
  /\ Returns(freeproc(Memory(0), p))
  /\ status' = [status EXCEPT ![p] = "unused"]

MemNext == \E p \in Slots :
  \/ SysFork(p) \/ SysExec(p) \/ SysExit(p) \/ Reap(p)
  \/ \E d \in Deltas : IF d[1] THEN Grow(p, d[2]) ELSE Shrink(p, d[2])

MemSpec == MemInit /\ [][MemNext]_mvars

----------------------------------------------------------------------------
(* Properties. *)

\* p->sz says exactly which pages are mapped, and the two pages at the top are.
SizeIsMapped == \A p \in Slots : status[p] # "unused" =>
  /\ \A v \in Pages8 \ {TRAPFRAME, TRAMPOLINE} : pt[p].leaf[v] # 0 <=> v < PageUp(psz[p])
  /\ pt[p].leaf[TRAPFRAME] = tf[p] /\ pt[p].leaf[TRAMPOLINE] = TEXT

Frames0 == Phys \cup {0}

\* Types, and memory that is as large as p->sz says.
MemTypeOK ==
  /\ freelist \subseteq Phys /\ bad \in BOOLEAN /\ failed \in BOOLEAN
  /\ pt \in [Slots \cup {0} -> [node : [Nodes -> Frames0], leaf : [Pages8 -> Frames0 \cup {TEXT}]]]
  /\ tf \in [Slots -> Frames0] /\ psz \in [Slots -> 0..MaxSz]
  /\ status \in [Slots -> {"unused", "live", "zombie"}]
  /\ SizeIsMapped

\* Wherever an allocation fails, there is no panic of vm.c or kalloc.c (remap, not
\* mapped, freewalk: leaf), no page is freed twice, and every page is free, or at one
\* place: a node or a leaf of one table, or a trapframe.  Nothing is lost on the
\* error paths, and unused slots have nothing.
PlacesIn(x) == {<<x, "node", n>> : n \in {n \in Nodes : pt[x].node[n] # 0}}
               \cup {<<x, "leaf", v>> : v \in {v \in Pages8 \ {TRAPFRAME, TRAMPOLINE} : pt[x].leaf[v] # 0}}
PageAt(o) == IF o[2] = "node" THEN pt[o[1]].node[o[3]] ELSE pt[o[1]].leaf[o[3]]

PagesOwnedOnce ==
  LET places == UNION {PlacesIn(x) : x \in Slots \cup {0}}
      frames == {p \in Slots : tf[p] # 0}
      owned == {PageAt(o) : o \in places} \cup {tf[p] : p \in frames}
  IN
  /\ ~bad
  /\ freelist = Phys \ owned
  /\ Cardinality(owned) = Cardinality(places) + Cardinality(frames)
  /\ pt[0] = NoTable
  /\ \A p \in Slots : status[p] = "unused" <=> pt[p] = NoTable /\ tf[p] = 0

\* A call that fails leaves every process the memory it had; what stays is at most
\* a node that walk() has added to a table.
FailureChangesNothing ==
  [][failed' => /\ tf' = tf /\ psz' = psz
                /\ \A p \in Slots : pt'[p].leaf = pt[p].leaf
                /\ \A p \in Slots, n \in Nodes : pt[p].node[n] # 0 => pt'[p].node[n] = pt[p].node[n]
    ]_mvars
=============================================================================
