------------------------------ MODULE MCSysfile ------------------------------
(* File system calls on a small disk. *)
EXTENDS Sysfile

\* mkfs puts a file d on the disk, with a block of each kind, or nothing.
MCFiles == <<[name |-> "d", size |-> 2]>>
NoFiles == <<>>

Root(elems) == [abs |-> TRUE, elems |-> elems]
Here(elems) == [abs |-> FALSE, elems |-> elems]

Make1(op, path) == [op |-> op, path |-> path, mode |-> "rdwr"]
Path1(op, path) == [op |-> op, path |-> path]
Open1(path, mode) == [op |-> "open", path |-> path, mode |-> mode]
Link1(path, new) == [op |-> "link", path |-> path, new |-> new]

\* Process 1 makes and removes a directory d.  Process 2 makes, opens and
\* truncates a file f here or in d, gives it a second name d, and tries to link
\* ./d, which may be a directory or that file, to a name that cannot be.  Root, d and
\* f can take all inodes, and f every block but the root's.
MCCalls ==
  <<{Make1("mkdir", Root(<<"d">>)), Path1("unlink", Root(<<"d">>))},
    {Make1("create", Here(<<"f">>)), Path1("chdir", Root(<<"d">>)),
     Link1(Here(<<"f">>), Here(<<"d">>)), Link1(Here(<<"d">>), Here(<<"f", "d">>)),
     Open1(Here(<<"f">>), "trunc")}>>

\* Two processes make and remove one directory.
MCMkdir == [p \in Procs |-> {Make1("mkdir", Root(<<"d">>)), Path1("unlink", Root(<<"d">>))}]

\* The parent of a directory that is still somebody's current one is removed.
MCDotDot == [p \in Procs |->
  {Make1("mkdir", Root(<<"d">>)), Make1("mkdir", Root(<<"d", "f">>)),
   Path1("chdir", Root(<<"d", "f">>)), Path1("unlink", Root(<<"d", "f">>)),
   Path1("unlink", Root(<<"d">>)), Open1(Here(<<"..">>), "rd")}]
=============================================================================
