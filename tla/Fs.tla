--------------------------------- MODULE Fs ---------------------------------
(***************************************************************************)
(* Inodes, blocks and directories (kernel/fs.c).  The disk is what the     *)
(* buffer cache and the log show of it: that a call is atomic across a     *)
(* crash is Log's matter.  An in-memory inode is named by its number: it   *)
(* has a slot of the inode table, and no other inode has it, as long as    *)
(* its ref is not 0.  A step goes from one lock to the next: what a        *)
(* process does under a sleep lock that it takes and releases, and that    *)
(* touches nothing else, is one step.                                      *)
(* todo[p] is what is left of the system call of process p; the functions  *)
(* of fs.c that take several steps put those in front of it.               *)
(***************************************************************************)
EXTENDS Integers, Sequences, FiniteSets

CONSTANTS
  Procs,
  NINODES,      \* inodes on the disk
  NINODE,       \* slots of the inode table
  NBLOCKS,      \* data blocks on the disk
  NDIRECT, NINDIRECT,
  Names,        \* names of files, other than "." and ".."
  NoProc        \* the holder of a free sleep lock

ASSUME FsConstants ==
  /\ NINODES \in Nat \ {0} /\ NBLOCKS \in Nat \ {0} /\ NINODE \in Nat \ {0}
  /\ NDIRECT \in Nat \ {0} /\ NINDIRECT \in Nat
  /\ NoProc \notin Procs /\ IsFiniteSet(Procs)
  /\ Names \cap {".", ".."} = {}

Inums == 1..NINODES
ROOTINO == 1
Blocks == 1..NBLOCKS
MAXFILE == NDIRECT + NINDIRECT
DirNames == Names \cup {".", ".."}
Types == {"none", "dir", "file", "dev"}

VARIABLES
  dino,         \* the inodes on disk
  bitmap,       \* blocks in use
  ind,          \* what each block holds if it is an indirect block
  dents,        \* entries of each directory: an inode number, or 0
  itable,       \* in-memory inodes: ref, valid, and the copy d
  ilk,          \* who holds ip->lock
  cwd, file,    \* of each process: current directory, open file
  call, todo,   \* the system call of each process and its steps left
  lost          \* history: inodes that had a name in a directory when it was freed

disk == <<dino, bitmap, ind, dents>>
procs == <<cwd, file>>
vars == <<disk, itable, ilk, procs, call, todo, lost>>

Zeros == [k \in 0..NDIRECT |-> 0]
FreeInode == [type |-> "none", nlink |-> 0, size |-> 0, addrs |-> Zeros]
NoEntries == [n \in DirNames |-> 0]
NoFile == [ip |-> 0, off |-> 0, writable |-> FALSE]

Lowest(S) == IF S = {} THEN 0 ELSE CHOOSE x \in S : \A y \in S : x <= y

----------------------------------------------------------------------------
(* Steps of a process. *)

Step(op, i, j, name) == [op |-> op, i |-> i, j |-> j, name |-> name]
iput(i) == Step("iput", i, 0, ".")

At(p, op) == todo[p] # <<>> /\ Head(todo[p]).op = op
Now(p) == Head(todo[p])

\* The steps left are these alone, or these and then what was left before.
NoCall == [op |-> "none"]
Return(p, steps) ==
  /\ todo' = [todo EXCEPT ![p] = steps]
  /\ call' = IF steps = <<>> THEN [call EXCEPT ![p] = NoCall] ELSE call
Go(p, steps) == Return(p, steps \o Tail(todo[p]))

\* What iget(i) makes of the table T, and what ilock(i) does once it has the lock.
iget(T, i) ==
  IF T[i].ref > 0 THEN [T EXCEPT ![i].ref = @ + 1]
  ELSE [T EXCEPT ![i] = [ref |-> 1, valid |-> FALSE, d |-> @.d]]

\* iget(i) would find neither inode i nor an empty slot, and panic.
NoSlot(i) == itable[i].ref = 0 /\ Cardinality({k \in Inums : itable[k].ref > 0}) >= NINODE

ilock(T, i) == IF T[i].valid THEN T ELSE [T EXCEPT ![i].valid = TRUE, ![i].d = dino[i]]

Free(i) == ilk[i] = NoProc

\* ip->lock of i passes from free to p or back.
Lock(p, S) == [i \in Inums |-> IF i \in S THEN p ELSE ilk[i]]

MutIupdate(T, i, d) ==
  /\ itable' = [T EXCEPT ![i].d = d]
  /\ UNCHANGED dino

\* The copy of inode i changes to d and iupdate() writes it out.
iupdate(T, i, d) ==
  /\ itable' = [T EXCEPT ![i].d = d]
  /\ dino' = [dino EXCEPT ![i] = d]

----------------------------------------------------------------------------
(* Blocks. *)

balloc(used) == Lowest(Blocks \ used)

\* bmap() on the inode, the bitmap and the indirect blocks in f; addr is its
\* result, 0 if the disk is full.
bmap(f, bn) ==
  LET k == IF bn < NDIRECT THEN bn ELSE NDIRECT
      a == IF f.d.addrs[k] # 0 THEN f.d.addrs[k] ELSE balloc(f.used)
      g == IF f.d.addrs[k] # 0 \/ a = 0 THEN f
           ELSE [f EXCEPT !.d.addrs[k] = a, !.used = @ \cup {a},
                          !.ind[a] = [m \in 0..(NINDIRECT - 1) |-> 0]]
      j == bn - NDIRECT
      b == IF g.ind[a][j] # 0 THEN g.ind[a][j] ELSE balloc(g.used)
  IN  IF bn < NDIRECT \/ a = 0 THEN [g EXCEPT !.addr = a]
      ELSE IF g.ind[a][j] # 0 \/ b = 0 THEN [g EXCEPT !.addr = b]
      ELSE [g EXCEPT !.ind[a][j] = b, !.used = @ \cup {b}, !.addr = b]

\* The blocks of an inode: direct, indirect, and those the indirect one names.
Owned(d) ==
  ( {d.addrs[k] : k \in 0..NDIRECT} \cup
    (IF d.addrs[NDIRECT] = 0 THEN {}
     ELSE {ind[d.addrs[NDIRECT]][j] : j \in 0..(NINDIRECT - 1)}) ) \ {0}

MutTruncated(d) ==
  [d EXCEPT !.size = 0, !.addrs = [Zeros EXCEPT ![NDIRECT] = d.addrs[NDIRECT]]]
Truncated(d) == [d EXCEPT !.size = 0, !.addrs = Zeros]

\* itrunc(): bfree() of every block, and the inode written back.
itrunc(T, i) ==
  /\ bitmap' = bitmap \ Owned(T[i].d)
  /\ iupdate(T, i, Truncated(T[i].d))
  /\ UNCHANGED ind

\* readi() of one block, and writei() of one block at off for the inode i of T:
\* how far they get, and with a full disk writei() still keeps what bmap() did.
readi(d, off) == IF off < d.size THEN 1 ELSE 0

writei(T, i, off) ==
  LET f == bmap([d |-> T[i].d, used |-> bitmap, ind |-> ind, addr |-> 0], off)
      tot == IF f.addr = 0 THEN 0 ELSE 1
  IN  IF off > T[i].d.size \/ off >= MAXFILE
      THEN [d |-> T[i].d, used |-> bitmap, ind |-> ind, tot |-> 0]
      ELSE [d |-> [f.d EXCEPT !.size = IF off + tot > @ THEN off + tot ELSE @],
            used |-> f.used, ind |-> f.ind, tot |-> tot]

----------------------------------------------------------------------------
(* Directories: their entries fit in one block, which is there as long as   *)
(* the directory is.                                                        *)

dirlookup(dp, name) == dents[dp][name]
dirlink(dp, name, i) == [dents EXCEPT ![dp][name] = i]

MutIalloc == Lowest({i \in 1..(NINODES + 1) : i > NINODES \/ dino[i].type = "none"})

\* A free inode on the disk, or 0.
ialloc == Lowest({i \in Inums : dino[i].type = "none"})

----------------------------------------------------------------------------
(* iput().  With the last reference to an inode without a name it truncates *)
(* and frees the inode, and does not hold itable.lock meanwhile.            *)

MutLastOfAll(i) == itable[i].valid /\ itable[i].d.nlink = 0
LastOfAll(i) == itable[i].ref = 1 /\ itable[i].valid /\ itable[i].d.nlink = 0

IputDrop(p) ==
  LET i == Now(p).i IN
  /\ At(p, "iput") /\ ~LastOfAll(i)
  /\ itable' = [itable EXCEPT ![i].ref = @ - 1]
  /\ Go(p, <<>>)
  /\ UNCHANGED <<disk, ilk, procs, lost>>

IputLast(p) ==
  LET i == Now(p).i IN
  /\ At(p, "iput") /\ LastOfAll(i) /\ Free(i)
  /\ ilk' = Lock(p, {i})
  /\ Go(p, <<Step("itrunc", i, 0, "."), Step("ifree", i, 0, "."),
             Step("irelease", i, 0, "."), Step("idrop", i, 0, ".")>>)
  /\ UNCHANGED <<disk, itable, procs, lost>>

\* The entries of a removed directory go with its blocks.
IputTrunc(p) ==
  LET i == Now(p).i IN
  /\ At(p, "itrunc")
  /\ itrunc(itable, i)
  /\ dents' = [dents EXCEPT ![i] = NoEntries]
  /\ lost' = lost \cup ({dents[i][n] : n \in Names} \ {0})
  /\ Go(p, <<>>)
  /\ UNCHANGED <<ilk, procs>>

IputFree(p) ==
  LET i == Now(p).i IN
  /\ At(p, "ifree")
  /\ iupdate(itable, i, [itable[i].d EXCEPT !.type = "none"])
  /\ Go(p, <<>>)
  /\ UNCHANGED <<bitmap, ind, dents, ilk, procs, lost>>

IputRelease(p) ==
  LET i == Now(p).i IN
  /\ At(p, "irelease")
  /\ itable' = [itable EXCEPT ![i].valid = FALSE]
  /\ ilk' = Lock(NoProc, {i})
  /\ Go(p, <<>>)
  /\ UNCHANGED <<disk, procs, lost>>

IputEnd(p) ==
  /\ At(p, "idrop")
  /\ itable' = [itable EXCEPT ![Now(p).i].ref = @ - 1]
  /\ Go(p, <<>>)
  /\ UNCHANGED <<disk, ilk, procs, lost>>

----------------------------------------------------------------------------
(* namex(), from inode i along path; parent is nameiparent, op what the    *)
(* call does with the result, j what else it needs.                        *)

Walk(i, path, parent, op, j) ==
  [op |-> "namex", i |-> i, path |-> path, parent |-> parent, then |-> op, j |-> j]

MutNotFound(t) == <<>>

\* What a call still has to do when namex() returns 0.
NotFound(t) == IF t.then = "link2" THEN <<Step("linkbad", t.j, 0, ".")>> ELSE <<>>

NamexEnd(p) ==
  LET t == Now(p) IN
  /\ At(p, "namex") /\ t.path = <<>>
  /\ IF t.parent THEN Return(p, <<iput(t.i)>> \o NotFound(t))
     ELSE Go(p, <<Step(t.then, t.i, t.j, ".")>>)
  /\ UNCHANGED <<disk, itable, ilk, procs, lost>>

\* The current inode is locked, looked at and unlocked; its directory entry
\* is followed with a reference, so that it cannot go away.
NamexStep(p) ==
  LET t == Now(p)
      T == ilock(itable, t.i)
      last == t.parent /\ Len(t.path) = 1
      next == dirlookup(t.i, Head(t.path))
  IN
  /\ At(p, "namex") /\ t.path # <<>> /\ Free(t.i)
  /\ \/ /\ T[t.i].d.type # "dir" \/ (~last /\ next = 0)
        /\ itable' = T
        /\ Return(p, <<iput(t.i)>> \o NotFound(t))
     \/ /\ T[t.i].d.type = "dir" /\ last
        /\ itable' = T
        /\ Go(p, <<Step(t.then, t.i, t.j, Head(t.path))>>)
     \/ /\ T[t.i].d.type = "dir" /\ ~last /\ next # 0
        /\ itable' = iget(T, next)
        /\ Go(p, <<iput(t.i), [t EXCEPT !.i = next, !.path = Tail(@)]>>)
  /\ UNCHANGED <<disk, ilk, procs, lost>>

\* iunlockput().
Iunlockput(p) ==
  LET i == Now(p).i IN
  /\ At(p, "iunlockput")
  /\ ilk' = Lock(NoProc, {i})
  /\ Go(p, <<iput(i)>>)
  /\ UNCHANGED <<disk, itable, procs, lost>>

FsStep(p) ==
  \/ Iunlockput(p)
  \/ IputDrop(p) \/ IputLast(p) \/ IputTrunc(p) \/ IputFree(p)
  \/ IputRelease(p) \/ IputEnd(p) \/ NamexEnd(p) \/ NamexStep(p)
=============================================================================
