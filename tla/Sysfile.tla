------------------------------- MODULE Sysfile -------------------------------
(***************************************************************************)
(* The file system calls (kernel/sysfile.c, and the inode side of          *)
(* kernel/file.c) on top of Fs.  Every process has room for one open file. *)
(***************************************************************************)
EXTENDS Mkfs

CONSTANTS
  Calls,        \* the calls each process makes, with their arguments
  MaxLink       \* bound: no link() once some inode has so many links

\* A path starts at the root or at the current directory.
Path == [abs : BOOLEAN, elems : Seq(DirNames)]

\* What a program may call, and with which paths.
ASSUME SysCalls ==
  \A p \in Procs : \A c \in Calls[p] :
    /\ c.op \in {"create", "mkdir", "mknod", "open", "unlink", "link", "chdir"}
    /\ c.path \in Path /\ (c.op = "link" => c.new \in Path)

Start(p, path) == IF path.abs THEN ROOTINO ELSE cwd[p]

\* create() makes what the call asks for; the call "create" is open(O_CREATE).
TypeOf(op) == CASE op = "mkdir" -> "dir" [] op = "mknod" -> "dev" [] OTHER -> "file"
Creates(op) == op \in {"create", "mkdir", "mknod"}

NewInode == [ref |-> 0, valid |-> FALSE, d |-> FreeInode]

\* The disk as mkfs makes it, and one process for each p.
Init ==
  /\ dino = Image.dino /\ ind = Image.ind /\ dents = Image.dents /\ bitmap = Used(Image)
  /\ itable = [i \in Inums |-> IF i = ROOTINO THEN [NewInode EXCEPT !.ref = Cardinality(Procs)]
                               ELSE NewInode]
  /\ ilk = [i \in Inums |-> NoProc]
  /\ cwd = [p \in Procs |-> ROOTINO]
  /\ file = [p \in Procs |-> NoFile]
  /\ call = [p \in Procs |-> NoCall]
  /\ todo = [p \in Procs |-> <<>>]
  /\ lost = {}

----------------------------------------------------------------------------
(* Calls. *)

\* begin_op() and the start of namex().
BeginPath(p, c) ==
  /\ todo[p] = <<>>
  /\ c.op = "link" => \A i \in Inums : dino[i].nlink < MaxLink
  /\ call' = [call EXCEPT ![p] = c]
  /\ LET i == Start(p, c.path) IN
     /\ ~NoSlot(i)
     /\ itable' = iget(itable, i)
     /\ todo' = [todo EXCEPT ![p] =
          <<Walk(i, c.path.elems, c.op \notin {"open", "link", "chdir"},
                 IF Creates(c.op) THEN "create" ELSE c.op, 0)>>]
  /\ UNCHANGED <<disk, ilk, cwd, file, lost>>

\* sys_close() with the last reference to the file.
Close(p) ==
  /\ todo[p] = <<>> /\ file[p].ip # 0
  /\ file' = [file EXCEPT ![p] = NoFile]
  /\ todo' = [todo EXCEPT ![p] = <<iput(file[p].ip)>>]
  /\ UNCHANGED <<disk, itable, ilk, cwd, call, lost>>

\* The file is an FD_INODE one: devices are not read and written here.
OnDisk(i) == i # 0 /\ itable[i].d.type # "dev"

\* fileread() of one block.
Fileread(p) ==
  LET i == file[p].ip IN
  /\ todo[p] = <<>> /\ OnDisk(i) /\ Free(i)
  /\ itable' = ilock(itable, i)
  /\ file' = [file EXCEPT ![p].off = @ + readi(itable'[i].d, @)]
  /\ UNCHANGED <<disk, ilk, cwd, call, todo, lost>>

\* filewrite() of one block.
Filewrite(p) ==
  LET i == file[p].ip
      T == ilock(itable, i)
      w == writei(T, i, file[p].off)
  IN
  /\ todo[p] = <<>> /\ OnDisk(i) /\ file[p].writable /\ Free(i)
  /\ iupdate(T, i, w.d)
  /\ bitmap' = w.used
  /\ ind' = w.ind
  /\ file' = [file EXCEPT ![p].off = @ + w.tot]
  /\ UNCHANGED <<dents, ilk, cwd, call, todo, lost>>

----------------------------------------------------------------------------
(* create() and open(). *)

\* The parent directory is locked.  If the name is there, that is what is
\* opened; else ialloc() marks a free inode, and the parent stays locked.
Create(p) ==
  LET t == Now(p)
      T == ilock(itable, t.i)
      old == dirlookup(t.i, t.name)
      new == ialloc
  IN
  /\ At(p, "create") /\ Free(t.i)
  /\ \/ /\ old # 0
        /\ itable' = iget(T, old)
        /\ Go(p, <<iput(t.i), Step("exists", old, 0, ".")>>)
        /\ UNCHANGED <<dino, ilk, lost>>
     \/ /\ old = 0 /\ new = 0
        /\ itable' = T
        /\ Return(p, <<iput(t.i)>>)
        /\ UNCHANGED <<dino, ilk, lost>>
     \/ /\ old = 0 /\ new # 0
        /\ itable' = T
        /\ dino' = [dino EXCEPT ![new] = [FreeInode EXCEPT !.type = TypeOf(call[p].op)]]
        /\ ilk' = Lock(p, {t.i})
        /\ lost' = lost \ {new}
        /\ Go(p, <<Step("iget", new, 0, "."), Step("make", new, t.i, t.name)>>)
  /\ UNCHANGED <<bitmap, ind, dents, procs>>

\* The end of ialloc().
Iget(p) ==
  /\ At(p, "iget")
  /\ itable' = iget(itable, Now(p).i)
  /\ Go(p, <<>>)
  /\ UNCHANGED <<disk, ilk, procs, lost>>

Exists(p) ==
  LET i == Now(p).i
      T == ilock(itable, i)
      opens == call[p].op = "create" /\ T[i].d.type \in {"file", "dev"}
  IN
  /\ At(p, "exists") /\ Free(i)
  /\ itable' = T
  /\ ilk' = IF opens THEN Lock(p, {i}) ELSE ilk
  /\ Go(p, <<IF opens THEN Step("opened", i, 0, ".") ELSE iput(i)>>)
  /\ UNCHANGED <<disk, procs, lost>>

\* The new inode ip, locked too, gets its entries "." and ".." if it is a
\* directory (for which there may be no block) and its name in dp.
Make(p) ==
  LET t == Now(p)
      ip == t.i
      dp == t.j
      isdir == TypeOf(call[p].op) = "dir"
      b == balloc(bitmap)
      T == ilock(itable, ip)
      made == [T[ip].d EXCEPT !.nlink = 1, !.size = IF isdir THEN 1 ELSE 0,
                              !.addrs[0] = IF isdir THEN b ELSE 0]
      parent == [T[dp].d EXCEPT !.nlink = IF isdir THEN @ + 1 ELSE @]
  IN
  /\ At(p, "make") /\ Free(ip)
  /\ \/ /\ isdir /\ b = 0
        /\ iupdate(T, ip, [T[ip].d EXCEPT !.nlink = 0])
        /\ Return(p, <<iput(ip), Step("iunlockput", dp, 0, ".")>>)
        /\ UNCHANGED <<bitmap, ind, dents, ilk, lost>>
     \/ /\ ~(isdir /\ b = 0)
        /\ dino' = [dino EXCEPT ![ip] = made, ![dp] = parent]
        /\ itable' = [T EXCEPT ![ip].d = made, ![dp].d = parent]
        /\ dents' = [dirlink(dp, t.name, ip) EXCEPT
             ![ip] = IF isdir THEN [NoEntries EXCEPT !["."] = ip, ![".."] = dp] ELSE @]
        /\ bitmap' = bitmap \cup ({made.addrs[0]} \ {0})
        /\ ilk' = [ilk EXCEPT ![dp] = NoProc, ![ip] = p]
        /\ Go(p, <<iput(dp), Step(IF call[p].op = "create" THEN "opened" ELSE "iunlockput",
                                  ip, 0, ".")>>)
        /\ UNCHANGED <<ind, lost>>
  /\ UNCHANGED procs

\* open() without O_CREATE locks what it found.
Open(p) ==
  LET i == Now(p).i
      T == ilock(itable, i)
      refused == T[i].d.type = "dir" /\ call[p].mode # "rd"
  IN
  /\ At(p, "open") /\ Free(i)
  /\ itable' = T
  /\ ilk' = IF refused THEN ilk ELSE Lock(p, {i})
  /\ Go(p, <<IF refused THEN iput(i) ELSE Step("opened", i, 0, ".")>>)
  /\ UNCHANGED <<disk, procs, lost>>

\* The rest of open(), with the inode locked: no free descriptor, or a file.
Opened(p) ==
  LET i == Now(p).i IN
  /\ At(p, "opened")
  /\ ilk' = Lock(NoProc, {i})
  /\ IF file[p].ip # 0
     THEN /\ Go(p, <<iput(i)>>)
          /\ UNCHANGED <<disk, itable, file>>
     ELSE /\ file' = [file EXCEPT ![p] =
                        [ip |-> i, off |-> 0, writable |-> call[p].mode # "rd"]]
          /\ Go(p, <<>>)
          /\ IF call[p].mode = "trunc" /\ itable[i].d.type = "file"
             THEN itrunc(itable, i) /\ UNCHANGED dents
             ELSE UNCHANGED <<disk, itable>>
  /\ UNCHANGED <<cwd, lost>>

----------------------------------------------------------------------------
(* unlink(), link(), chdir(). *)

isdirempty(i) == \A n \in Names : dents[i][n] = 0

\* The parent is locked and stays so while the entry is looked up.
Unlink(p) ==
  LET t == Now(p)
      T == ilock(itable, t.i)
      i == dirlookup(t.i, t.name)
      bad == t.name \in {".", ".."} \/ i = 0
  IN
  /\ At(p, "unlink") /\ Free(t.i)
  /\ IF bad
     THEN /\ itable' = T
          /\ Go(p, <<iput(t.i)>>)
          /\ UNCHANGED ilk
     ELSE /\ itable' = iget(T, i)
          /\ ilk' = Lock(p, {t.i})
          /\ Go(p, <<Step("unlink2", i, t.i, t.name)>>)
  /\ UNCHANGED <<disk, procs, lost>>

\* Both are locked: the entry goes, and the parent is released before the
\* count of ip is brought down.
Unlink2(p) ==
  LET t == Now(p)
      ip == t.i
      dp == t.j
      T == ilock(itable, ip)
      isdir == T[ip].d.type = "dir"
      parent == [T[dp].d EXCEPT !.nlink = IF isdir THEN @ - 1 ELSE @]
  IN
  /\ At(p, "unlink2") /\ Free(ip)
  /\ IF isdir /\ ~isdirempty(ip)
     THEN /\ itable' = T
          /\ Go(p, <<iput(ip), Step("iunlockput", dp, 0, ".")>>)
          /\ UNCHANGED <<disk, ilk>>
     ELSE /\ dents' = dirlink(dp, t.name, 0)
          /\ iupdate(T, dp, parent)
          /\ ilk' = [ilk EXCEPT ![dp] = NoProc, ![ip] = p]
          /\ Go(p, <<iput(dp), Step("unlink3", ip, 0, ".")>>)
          /\ UNCHANGED <<bitmap, ind>>
  /\ UNCHANGED <<procs, lost>>

Unlink3(p) ==
  LET i == Now(p).i IN
  /\ At(p, "unlink3")
  /\ iupdate(itable, i, [itable[i].d EXCEPT !.nlink = @ - 1])
  /\ ilk' = Lock(NoProc, {i})
  /\ Go(p, <<iput(i)>>)
  /\ UNCHANGED <<bitmap, ind, dents, procs, lost>>

\* link() raises the count first, and then looks for the new parent.
Link(p) ==
  LET i == Now(p).i
      T == ilock(itable, i)
      new == call[p].new
      start == Start(p, new)
  IN
  /\ At(p, "link") /\ Free(i)
  /\ IF T[i].d.type = "dir"
     THEN /\ itable' = T
          /\ Go(p, <<iput(i)>>)
          /\ UNCHANGED dino
     ELSE /\ iupdate(iget(T, start), i, [T[i].d EXCEPT !.nlink = @ + 1])
          /\ Go(p, <<Walk(start, new.elems, TRUE, "link2", i)>>)
  /\ UNCHANGED <<bitmap, ind, dents, ilk, procs, lost>>

\* dirlink(): a name that is there is looked up and put again, which changes
\* nothing, since the entry keeps its inode alive while dp is locked.
Link2(p) ==
  LET t == Now(p) IN
  /\ At(p, "link2") /\ Free(t.i)
  /\ itable' = ilock(itable, t.i)
  /\ IF dirlookup(t.i, t.name) # 0
     THEN /\ Go(p, <<iput(t.i), Step("linkbad", t.j, 0, ".")>>)
          /\ UNCHANGED dents
     ELSE /\ dents' = dirlink(t.i, t.name, t.j)
          /\ Go(p, <<iput(t.i), iput(t.j)>>)
  /\ UNCHANGED <<dino, bitmap, ind, ilk, procs, lost>>

MutLinkBad(p) ==
  /\ At(p, "linkbad") /\ Free(Now(p).i) /\ Go(p, <<iput(Now(p).i)>>)
  /\ UNCHANGED <<disk, itable, ilk, procs, lost>>
LinkBad(p) ==
  LET i == Now(p).i
      T == ilock(itable, i)
  IN
  /\ At(p, "linkbad") /\ Free(i)
  /\ iupdate(T, i, [T[i].d EXCEPT !.nlink = @ - 1])
  /\ Go(p, <<iput(i)>>)
  /\ UNCHANGED <<bitmap, ind, dents, ilk, procs, lost>>

Chdir(p) ==
  LET i == Now(p).i
      T == ilock(itable, i)
      isdir == T[i].d.type = "dir"
  IN
  /\ At(p, "chdir") /\ Free(i)
  /\ itable' = T
  /\ cwd' = IF isdir THEN [cwd EXCEPT ![p] = i] ELSE cwd
  /\ Go(p, <<iput(IF isdir THEN cwd[p] ELSE i)>>)
  /\ UNCHANGED <<disk, ilk, file, lost>>

----------------------------------------------------------------------------
(* The kernel's own assertions: a process for which one fails panics. *)

\* A step that starts with ilock().
Ilocks(t) == \/ t.op \in {"create", "exists", "make", "open", "unlink", "unlink2", "link",
                         "link2", "linkbad", "chdir"}
             \/ t.op = "namex" /\ t.path # <<>>

Panics(p) ==
  LET t == Now(p)
      i == t.i
  IN
  /\ todo[p] # <<>>
  /\ \/ Ilocks(t) /\ Free(i) /\ ~itable[i].valid /\ dino[i].type = "none" \* ilock: no type
     \/ Ilocks(t) /\ itable[i].ref < 1                                    \* ilock
     \/ Ilocks(t) /\ ilk[i] = p                                           \* sleeps for ever
     \/ t.op = "iput" /\ LastOfAll(i) /\ ~Free(i)                         \* sched locks
     \/ t.op = "unlink2" /\ Free(i) /\ ilock(itable, i)[i].d.nlink < 1    \* unlink: nlink < 1
     \/ t.op = "itrunc" /\ ~(Owned(itable[i].d) \subseteq bitmap)         \* freeing free block

\* The inodes that the next step of p passes to iget(): an entry of a directory,
\* the new inode of ialloc(), the start of the second path of link().
Gets(p) ==
  LET t == Now(p)
      isdir == ilock(itable, t.i)[t.i].d.type = "dir"
  IN  IF Ilocks(t) /\ ~Free(t.i) THEN {}
      ELSE {i \in Inums :
        \/ t.op = "iget" /\ i = t.i
        \/ t.op = "namex" /\ t.path # <<>> /\ ~(t.parent /\ Len(t.path) = 1)
             /\ isdir /\ i = dirlookup(t.i, Head(t.path))
        \/ t.op \in {"create", "link2"} /\ i = dirlookup(t.i, t.name)
        \/ t.op = "unlink" /\ t.name \notin {".", ".."} /\ i = dirlookup(t.i, t.name)
        \/ t.op = "link" /\ ~isdir /\ i = Start(p, call[p].new)}

\* The panic of iget(), "no inodes": a process that meets it stops too.
TableFull(p) == todo[p] # <<>> /\ \E i \in Gets(p) : NoSlot(i)

CallStep(p) ==
  \/ Create(p) \/ Iget(p) \/ Exists(p) \/ Make(p) \/ Open(p) \/ Opened(p)
  \/ Unlink(p) \/ Unlink2(p) \/ Unlink3(p) \/ Link(p) \/ Link2(p) \/ LinkBad(p) \/ Chdir(p)

Next == \E p \in Procs :
  \/ \E c \in Calls[p] : BeginPath(p, c)
  \/ Close(p) \/ Fileread(p) \/ Filewrite(p)
  \/ ~Panics(p) /\ ~TableFull(p) /\ (FsStep(p) \/ CallStep(p))

Spec == Init /\ [][Next]_vars

----------------------------------------------------------------------------
(* Properties. *)

Dinode == [type : Types, nlink : Nat, size : 0..MAXFILE, addrs : [0..NDIRECT -> {0} \cup Blocks]]

\* The image of mkfs fits on the disk, and its fields in theirs.
ASSUME ImageFits ==
  /\ Image.dino \in [Inums -> Dinode] /\ Used(Image) \subseteq Blocks
  /\ Image.ind \in [Blocks -> [0..(NINDIRECT - 1) -> {0} \cup Blocks]]
  /\ Image.dents \in [Inums -> [DirNames -> {0} \cup Inums]]

\* The steps that a call may have left, and what namex() may be for.
Thens == {"open", "link", "chdir", "create", "unlink", "link2"}
Ops == Thens \cup {"iget", "make", "exists", "opened", "unlink2", "unlink3", "linkbad",
                   "iunlockput", "iput", "itrunc", "ifree", "irelease", "idrop"}
Steps == [op : Ops, i : Inums, j : {0} \cup Inums, name : DirNames]
Walks == [op : {"namex"}, i : Inums, path : Seq(DirNames), parent : BOOLEAN, then : Thens,
          j : {0} \cup Inums]

\* The types of everything; a count of links that becomes negative would show.
TypeOK ==
  /\ dino \in [Inums -> Dinode]
  /\ bitmap \subseteq Blocks
  /\ ind \in [Blocks -> [0..(NINDIRECT - 1) -> {0} \cup Blocks]]
  /\ dents \in [Inums -> [DirNames -> {0} \cup Inums]]
  /\ itable \in [Inums -> [ref : Nat, valid : BOOLEAN, d : Dinode]]
  /\ ilk \in [Inums -> Procs \cup {NoProc}]
  /\ cwd \in [Procs -> Inums]
  /\ file \in [Procs -> [ip : {0} \cup Inums, off : 0..MAXFILE, writable : BOOLEAN]]
  /\ todo \in [Procs -> Seq(Steps \cup Walks)]
  /\ lost \subseteq Inums

\* None of these panics of fs.c and sysfile.c is reached, whatever the calls of
\* several processes do to each other between two locks.
NoPanic == \A p \in Procs : ~Panics(p)

\* iget() finds a slot, for every entry and every start of a path.
SlotsFound == \A p \in Procs : ~TableFull(p) /\ (todo[p] = <<>> => ~NoSlot(ROOTINO))

\* What that takes: a process has a current directory and an open file, the inode of an
\* iput() under way, and two that its call works on.
InodesSuffice == NINODE >= 5 * Cardinality(Procs)

\* The entries that name inode i and count as links: not ".", and not the ".."
\* of a directory that has been removed.
Links(i) == {e \in Inums \X (DirNames \ {"."}) :
  /\ dino[e[1]].type = "dir" /\ dents[e[1]][e[2]] = i
  /\ e[2] = ".." => e[1] = ROOTINO \/ \E d \in Inums, n \in Names : dents[d][n] = e[1]}

\* A name leads to an inode that exists and whose link count covers it, also
\* half way through every call: iput() frees no inode that can still be found.
NamesLead == \A i \in Inums :
  Links(i) # {} => dino[i].type # "none" /\ dino[i].nlink >= Cardinality(Links(i))

Quiet == \A p \in Procs : todo[p] = <<>>

\* Between calls (the states a commit can capture) link counts are exact, but
\* for inodes that were named in a directory when it was freed.
LinksCounted == Quiet =>
  \A i \in Inums : dino[i].type # "none" /\ i \notin lost =>
    dino[i].nlink = Cardinality(Links(i))

\* Between calls no lock is held, and ip->ref counts the current directories and
\* open files that are this inode: no path through a call forgets to put one.
NothingLeaks == Quiet => \A i \in Inums :
  /\ ilk[i] = NoProc
  /\ itable[i].ref = Cardinality({p \in Procs : cwd[p] = i})
                     + Cardinality({p \in Procs : file[p].ip = i})

\* fs.c:333: "If that was the last reference and the inode has no links to it,
\* free the inode (and its content) on disk."
InodesFreed == Quiet => \A i \in Inums :
  dino[i].nlink = 0 /\ itable[i].ref = 0 => dino[i].type = "none"

\* A block is marked in use exactly when one inode has it, and then only at one
\* place; no file has a hole.
BlocksOwnedOnce ==
  LET direct == {x \in Inums \X (0..NDIRECT) : dino[x[1]].addrs[x[2]] # 0}
      through == {x \in Inums \X (0..(NINDIRECT - 1)) :
                   LET b == dino[x[1]].addrs[NDIRECT] IN b # 0 /\ ind[b][x[2]] # 0}
      owned == UNION {Owned(dino[i]) : i \in Inums}
  IN  /\ bitmap = owned
      /\ Cardinality(owned) = Cardinality(direct) + Cardinality(through)
      /\ \A i \in Inums, k \in 0..(NDIRECT - 1) :
           k < dino[i].size /\ dino[i].type # "dev" => dino[i].addrs[k] # 0
=============================================================================
