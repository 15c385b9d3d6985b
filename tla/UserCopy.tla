------------------------------ MODULE UserCopy ------------------------------
(* How the kernel reaches into the memory of a process: walkaddr(), copyin(),  *)
(* copyout(), copyinstr() and uvmclear() of vm.c, and fetchaddr() and           *)
(* fetchstr() of syscall.c.  Assignment2's copy.  Nothing else touches the page  *)
(* table of the process meanwhile, so a call is one step; what stays of a copy   *)
(* that fails half way is part of it.                                           *)
EXTENDS Naturals, Sequences, SequencesExt

CONSTANTS UPages,   \* pages below MAXVA; the last one is the trapframe's
          UPGSIZE,  \* bytes in a page
          UWORD,    \* sizeof(uint64)
          UWrap,    \* addresses are computed modulo UWrap
          UAddrs,   \* addresses that a program passes to a system call
          MaxLen,   \* bound on the lengths it asks for
          Sources   \* what the kernel has to hand over

VARIABLES usz,   \* p->sz
          perm,  \* "user": PTE_V and PTE_U; "kernel": PTE_V alone; "none"
          umem,  \* the bytes at the virtual addresses
          call   \* the last call: its arguments, whether it returned -1, what it read

cvars == <<usz, perm, umem, call>>

MAXVA == UPages * UPGSIZE
Octets == {0, 1}
PageOf(va) == va \div UPGSIZE

\* uvmclear(), by exec() for the guard page below the stack.
uvmclear(P, v) == [P EXCEPT ![v] = "kernel"]

\* The pages below p->sz, one of which may be the guard, and the trapframe.
Mapped(sz) == [v \in 0..(UPages - 1) |->
                 IF v = UPages - 1 THEN "kernel" ELSE IF v * UPGSIZE < sz THEN "user" ELSE "none"]
Below(sz) == {v \in 0..(UPages - 2) : v * UPGSIZE < sz}

UserCopyInit ==
  /\ usz \in 0..((UPages - 1) * UPGSIZE)
  /\ perm \in {Mapped(usz)} \cup {uvmclear(Mapped(usz), v) : v \in Below(usz)}
  /\ umem \in {f \in [0..(MAXVA - 1) -> Octets] : \A a \in DOMAIN f :
                 perm[PageOf(a)] # "user" => f[a] = 0}
  /\ call = [kind |-> "none", va |-> 0, src |-> <<>>, max |-> 0, ok |-> TRUE, got |-> <<>>]

----------------------------------------------------------------------------
(* vm.c *)

\* Mutant: PTE_U is not looked at.
Mutwalkaddr(va) == va < MAXVA /\ perm[PageOf(va)] # "none"
walkaddr(va) == va < MAXVA /\ perm[PageOf(va)] = "user"

\* A copy under way: len bytes from va on are still to be copied; nul: the end of
\* the string has been seen.
Copying(va, len) == [va |-> va, len |-> len, dst |-> <<>>, mem |-> umem, ok |-> TRUE, nul |-> FALSE]
\* To the end of the page, or of what is asked for.
InPage(c) == LET rest == UPGSIZE - (c.va % UPGSIZE) IN IF c.len < rest THEN c.len ELSE rest
FromUser(c, n) == [i \in 1..n |-> umem[c.va + i - 1]]

\* To the next page.
Onwards(c, n) == [c EXCEPT !.len = @ - n, !.va = (UPGSIZE * (PageOf(@) + 1)) % UWrap]

\* A turn of a loop; a page takes one, and each copies a byte at least.
Turns(Page(_), va, len) ==
  FoldLeft(LAMBDA c, i : IF c.len = 0 \/ ~c.ok \/ c.nul THEN c
                         ELSE IF walkaddr(c.va) THEN Page(c) ELSE [c EXCEPT !.ok = FALSE],
           Copying(va, len), [i \in 1..len |-> i])

copyin(va, len) ==
  LET Page(c) == Onwards([c EXCEPT !.dst = @ \o FromUser(c, InPage(c))], InPage(c))
  IN  Turns(Page, va, len)

copyout(va, src) ==
  LET Page(c) ==
        LET to == c.va..(c.va + InPage(c) - 1)
            from == Len(src) - c.len + 1
        IN  Onwards([c EXCEPT !.mem = [a \in DOMAIN umem |->
                       IF a \in to THEN src[from + a - c.va] ELSE @[a]]], InPage(c))
  IN  Turns(Page, va, Len(src))

\* dst without the '\0' at its end.
copyinstr(va, max) ==
  LET Page(c) ==
        LET here == FromUser(c, InPage(c))
            nuls == {i \in 1..Len(here) : here[i] = 0}
            first == CHOOSE i \in nuls : \A j \in nuls : i <= j
        IN  IF nuls = {} THEN Onwards([c EXCEPT !.dst = @ \o here], InPage(c))
            ELSE [c EXCEPT !.dst = @ \o SubSeq(here, 1, first - 1), !.nul = TRUE]
      c == Turns(Page, va, max)
  IN  [c EXCEPT !.ok = c.nul]

----------------------------------------------------------------------------
(* syscall.c, and the calls of the others *)

Return(kind, va, src, max, c) ==
  /\ call' = [kind |-> kind, va |-> va, src |-> src, max |-> max, ok |-> c.ok, got |-> c.dst]
  /\ umem' = c.mem
  /\ UNCHANGED <<usz, perm>>

CopyIn(va, len) == Return("in", va, <<>>, len, copyin(va, len))
CopyOut(va, src) == Return("out", va, src, 0, copyout(va, src))

\* The string with its end, from which strlen() is computed.
fetchstr(va, max) == Return("str", va, <<>>, max, copyinstr(va, max))

fetchaddr(va) ==
  Return("addr", va, <<>>, 0,
         IF va >= usz \/ (va + UWORD) % UWrap > usz
         THEN [Copying(va, UWORD) EXCEPT !.ok = FALSE] ELSE copyin(va, UWORD))

UserCopyNext == \E va \in UAddrs :
  \/ \E len \in 0..MaxLen : CopyIn(va, len)
  \/ \E src \in Sources : CopyOut(va, src)
  \/ \E max \in 1..MaxLen : fetchstr(va, max)
  \/ fetchaddr(va)

UserCopySpec == UserCopyInit /\ [][UserCopyNext]_cvars

----------------------------------------------------------------------------
(* Properties. *)

\* Types; what lies below p->sz is mapped, and only that and the trapframe.
CopyTypeOK ==
  /\ usz \in 0..MAXVA /\ umem \in [0..(MAXVA - 1) -> Octets]
  /\ perm \in [0..(UPages - 1) -> {"user", "kernel", "none"}]
  /\ \A v \in 0..(UPages - 2) : perm[v] # "none" <=> v \in Below(usz)
  /\ call.ok \in BOOLEAN /\ call.got \in Seq(Octets)

\* The n bytes from va on are the program's own.
Own(va, n) == \A a \in va..(va + n - 1) : a < MAXVA /\ perm[PageOf(a)] = "user"
At0(va, n) == [i \in 1..n |-> umem[va + i - 1]]

\* A call succeeds exactly if every byte it needs is the program's own (and, for a
\* string, its end comes in time), and then it has read or written just those
\* bytes; copyout() that fails has written those before the first bad page.
CopiesAsAsked ==
  [][LET va == call'.va  src == call'.src  max == call'.max  got == call'.got  ok == call'.ok IN
     /\ call'.kind = "in" => /\ ok <=> Own(va, max)
                             /\ ok => got = At0(va, max)
     /\ call'.kind = "addr" => /\ ok <=> va + UWORD <= usz /\ Own(va, UWORD)
                               /\ ok => got = At0(va, UWORD)
     /\ call'.kind = "str" =>
          /\ ok <=> \E n \in 0..(max - 1) : Own(va, n + 1) /\ umem[va + n] = 0
          /\ ok => got = At0(va, Len(got)) /\ umem[va + Len(got)] = 0 /\ ~Contains(got, 0)
     /\ call'.kind = "out" =>
          /\ ok <=> Own(va, Len(src))
          /\ \A a \in DOMAIN umem : umem'[a] =
               IF a \in va..(va + Len(src) - 1) /\ Own(va, a - va + 1)
               THEN src[a - va + 1] ELSE umem[a]
     /\ call'.kind # "out" => umem' = umem]_cvars
=============================================================================
