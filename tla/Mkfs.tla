-------------------------------- MODULE Mkfs --------------------------------
(***************************************************************************)
(* The file system that mkfs/mkfs.c makes on the host, with Fs's disk as   *)
(* the image.  It writes blocks one after the other, without the bitmap,   *)
(* and numbers them from 1: the first is the one after the meta data.      *)
(***************************************************************************)
EXTENDS Fs, SequencesExt

CONSTANTS
  Files,        \* the files on the command line: their names and sizes in blocks
  DPB           \* directory entries in a block

ASSUME MkfsFits == /\ DPB \in Nat \ {0} /\ Len(Files) + 2 < DPB /\ Len(Files) < NINODES
                   /\ \A k \in DOMAIN Files : Files[k].name \in Names /\ Files[k].size <= MAXFILE

Blank == [dino |-> [i \in Inums |-> FreeInode],
          ind |-> [b \in Blocks |-> [j \in 0..(NINDIRECT - 1) |-> 0]],
          dents |-> [i \in Inums |-> NoEntries],
          freeinode |-> 1, freeblock |-> 1]

Ialloc(m, type) ==
  [m EXCEPT !.dino[m.freeinode] = [FreeInode EXCEPT !.type = type, !.nlink = 1],
            !.freeinode = @ + 1]

\* iappend(): block fbn of inode i, allocated if it is not there.
Direct(m, i, k) ==
  IF m.dino[i].addrs[k] # 0 THEN m
  ELSE [m EXCEPT !.dino[i].addrs[k] = m.freeblock, !.freeblock = @ + 1]
Indirect(m, b, j) ==
  IF m.ind[b][j] # 0 THEN m ELSE [m EXCEPT !.ind[b][j] = m.freeblock, !.freeblock = @ + 1]
Mapped(m, i, fbn) ==
  IF fbn < NDIRECT THEN Direct(m, i, fbn)
  ELSE LET d == Direct(m, i, NDIRECT) IN Indirect(d, d.dino[i].addrs[NDIRECT], fbn - NDIRECT)

\* A block of a file, and the n-th entry of the root, whose size counts entries so far.
AppendBlock(m, i) == LET n == Mapped(m, i, m.dino[i].size) IN [n EXCEPT !.dino[i].size = @ + 1]
AppendEntry(m, name, i) ==
  LET n == Mapped(m, ROOTINO, m.dino[ROOTINO].size \div DPB)
  IN  [n EXCEPT !.dino[ROOTINO].size = @ + 1, !.dents[ROOTINO][name] = i]

Copy(m, f) ==
  LET i == m.freeinode IN
  FoldLeft(LAMBDA n, k : AppendBlock(n, i), AppendEntry(Ialloc(m, "file"), f.name, i),
           [k \in 1..f.size |-> k])

\* The size of the root is rounded up to a block, by one more if it is one already.
FixRoot(m) == [m EXCEPT !.dino[ROOTINO].size = (@ \div DPB) + 1]

Image ==
  LET root == AppendEntry(AppendEntry(Ialloc(Blank, "dir"), ".", ROOTINO), "..", ROOTINO)
  IN  FixRoot(FoldLeft(Copy, root, Files))

\* balloc(): the blocks that were handed out are the first ones.
Used(m) == 1..(m.freeblock - 1)
=============================================================================
