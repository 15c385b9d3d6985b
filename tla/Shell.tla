-------------------------------- MODULE Shell --------------------------------
(* The shell: the parser of sh.c, and runcmd() over the processes, pipes and   *)
(* descriptors that the kernel promises.  Assignment2's copy.                  *)
(*                                                                            *)
(* todo of a process is the system calls it has still to make, one step each.  *)
(* A line is a sequence of tokens; a word is a token that is no symbol.        *)
EXTENDS Naturals, Sequences, FiniteSets, SequencesExt, TLC

CONSTANTS Typed,       \* the lines that are typed: tokens, and the command they mean
          MaxLines, MaxProcs,
          MAXARGS,
          Fds          \* 0..n; NOFILE is never reached

VARIABLES sproc,   \* sproc[q]: status, parent, todo, descriptors, the local variable p
                   \* of runcmd(), the line, and whether it is in the background
          typed,   \* lines typed
          broken   \* a fork has failed

svars == <<sproc, typed, broken>>

Symbols == {"<", ">", "+", "|", "&", ";", "(", ")"}
Shells == 1..MaxProcs

----------------------------------------------------------------------------
(* The constructors, and the parser: what it has read and what is left. *)

Execcmd(argv) == [type |-> "exec", argv |-> argv]
Redircmd(cmd, r) == [type |-> "redir", cmd |-> cmd, file |-> r[1], fd |-> r[2]]
Binary(type, left, right) == [type |-> type, left |-> left, right |-> right]  \* pipecmd(), listcmd()
Backcmd(cmd) == [type |-> "back", cmd |-> cmd]

Peek(ts, S) == ts # <<>> /\ Head(ts) \in S
Parsed(cmd, ts) == [ok |-> TRUE, cmd |-> cmd, rest |-> ts]
Panic == [ok |-> FALSE, cmd |-> Execcmd(<<>>), rest |-> <<>>]
\* The tokens of a command with its words and its redirections apart.
Words(ts) == [ok |-> TRUE, argv |-> <<>>, redirs |-> <<>>, rest |-> ts]
NoWords == [Words(<<>>) EXCEPT !.ok = FALSE]

RECURSIVE parseredirs(_), parseargs(_), parsepipe(_), parseline(_), parseback(_)

parseredirs(r) ==
  IF ~Peek(r.rest, {"<", ">", "+"}) THEN r
  ELSE IF Len(r.rest) < 2 \/ r.rest[2] \in Symbols THEN NoWords
  ELSE parseredirs([r EXCEPT !.redirs = Append(@, <<r.rest[2], IF r.rest[1] = "<" THEN 0 ELSE 1>>),
                             !.rest = SubSeq(@, 3, Len(@))])

parseargs(r) ==
  IF r.rest = <<>> \/ Peek(r.rest, {"|", ")", "&", ";"}) THEN r
  ELSE IF Head(r.rest) \in Symbols \/ Len(r.argv) + 1 >= MAXARGS THEN NoWords
  ELSE parseargs(parseredirs([r EXCEPT !.argv = Append(@, Head(r.rest)), !.rest = Tail(@)]))

Redirected(cmd, r) == IF r.ok THEN Parsed(FoldLeft(Redircmd, cmd, r.redirs), r.rest) ELSE Panic
Simple(r) == Redirected(Execcmd(r.argv), r)
parseblock(b) == IF Peek(b.rest, {")"}) THEN Redirected(b.cmd, parseredirs(Words(Tail(b.rest))))
                 ELSE Panic
parseexec(ts) == IF Peek(ts, {"("}) THEN parseblock(parseline(Tail(ts)))
                 ELSE Simple(parseargs(parseredirs(Words(ts))))

Joined(type, a, b) == IF b.ok THEN Parsed(Binary(type, a.cmd, b.cmd), b.rest) ELSE Panic
Piped(a) == IF Peek(a.rest, {"|"}) THEN Joined("pipe", a, parsepipe(Tail(a.rest))) ELSE a
parsepipe(ts) == Piped(parseexec(ts))

parseback(a) ==
  IF Peek(a.rest, {"&"}) THEN parseback(Parsed(Backcmd(a.cmd), Tail(a.rest))) ELSE a
Listed(a) == IF Peek(a.rest, {";"}) THEN Joined("list", a, parseline(Tail(a.rest))) ELSE a
parseline(ts) == Listed(parseback(parsepipe(ts)))

Complete(a) == IF a.rest = <<>> THEN a ELSE Panic
parsecmd(ts) == Complete(parseline(ts))

----------------------------------------------------------------------------
(* Processes.  path tells the pipes of a line apart. *)

Op(op) == [op |-> op]
Close(fd) == [op |-> "close", fd |-> fd]
CloseEnd(end) == [op |-> "close_end", end |-> end]
Dup(end) == [op |-> "dup", end |-> end]
Open(file) == [op |-> "open", file |-> file]
ForkOp(todo, bg) == [op |-> "fork", todo |-> todo, bg |-> bg]
Run(cmd, path) == [op |-> "run", cmd |-> cmd, path |-> path]

File(kind, name) == [kind |-> kind, name |-> name]
Console == File("console", <<>>)
Closed == File("none", <<>>)
NoLine == [tokens |-> <<>>, cmd |-> Execcmd(<<>>), path |-> <<>>]
NoShell == [status |-> "unused", parent |-> 0, todo |-> <<>>, fds |-> [d \in Fds |-> Closed],
            ends |-> [r |-> 0, w |-> 0], line |-> NoLine, bg |-> FALSE]

\* main(), a child of init, with the console open three times.
ShellInit ==
  /\ sproc = [q \in Shells |-> IF q # 1 THEN NoShell ELSE
                [NoShell EXCEPT !.status = "run", !.todo = <<Op("getcmd")>>,
                                !.fds = [d \in Fds |-> IF d <= 2 THEN Console ELSE Closed]]]
  /\ typed = 0 /\ broken = FALSE

\* The two children and the parent of a pipe: what each does with its ends.
Left(run) == <<Close(1), Dup("w"), CloseEnd("r"), CloseEnd("w"), run>>
Right(run) == <<Close(0), Dup("r"), CloseEnd("r"), CloseEnd("w"), run>>
MutBoth == <<Op("wait"), Op("wait"), CloseEnd("r"), CloseEnd("w"), Op("exit")>>
Both == <<CloseEnd("r"), CloseEnd("w"), Op("wait"), Op("wait"), Op("exit")>>

\* The system calls that runcmd() makes for one node.
runcmd(cmd, path) ==
  LET left == Run(cmd.left, Append(path, "l"))
      right == Run(cmd.right, Append(path, "r"))
  IN
  CASE cmd.type = "exec"  -> <<IF cmd.argv = <<>> THEN Op("exit") ELSE [op |-> "exec", argv |-> cmd.argv]>>
    [] cmd.type = "redir" -> <<Close(cmd.fd), Open(cmd.file), Run(cmd.cmd, path)>>
    [] cmd.type = "list"  -> <<ForkOp(<<left>>, FALSE), Op("wait"), right>>
    [] cmd.type = "pipe"  -> <<[op |-> "pipe", path |-> path], ForkOp(Left(left), FALSE),
                               ForkOp(Right(right), FALSE)>> \o Both
    [] cmd.type = "back"  -> <<ForkOp(<<Run(cmd.cmd, path)>>, TRUE), Op("exit")>>

Does(q, op) == sproc[q].status = "run" /\ Head(sproc[q].todo).op = op
Call(q) == Head(sproc[q].todo)
Rest(q) == Tail(sproc[q].todo)
Lowest(S) == CHOOSE x \in S : \A y \in S : x <= y
FreeFd(q) == Lowest({d \in Fds : sproc[q].fds[d] = Closed})

\* q goes on as r, with the calls that follow.
GoesOn(q, r) == sproc' = [sproc EXCEPT ![q] = [r EXCEPT !.todo = Rest(q)]]

\* getcmd() and fork1() in main(); at the end of the input the shell exits.
Getcmd(q) ==
  /\ Does(q, "getcmd")
  /\ \/ /\ typed < MaxLines
        /\ typed' = typed + 1
        /\ \E l \in Typed :
             sproc' = [sproc EXCEPT ![q].line = [l EXCEPT !.path = <<ToString(typed)>>],
                                    ![q].todo = <<ForkOp(<<Op("parse")>>, FALSE), Op("wait")>> \o @]
     \/ sproc' = [sproc EXCEPT ![q].todo = <<Op("exit")>>] /\ UNCHANGED typed
  /\ UNCHANGED broken

\* parsecmd() and the first runcmd(); a panic of the parser is exit(1).
Parsecmd(q) ==
  LET a == parsecmd(sproc[q].line.tokens) IN
  /\ Does(q, "parse")
  /\ sproc' = [sproc EXCEPT ![q].todo = IF a.ok THEN <<Run(a.cmd, sproc[q].line.path)>> ELSE <<Op("exit")>>]
  /\ UNCHANGED <<typed, broken>>

\* A runcmd() inside of a call is the last of them.
Runcmd(q) ==
  /\ Does(q, "run")
  /\ sproc' = [sproc EXCEPT ![q].todo = runcmd(Call(q).cmd, Call(q).path)]
  /\ UNCHANGED <<typed, broken>>

\* fork1(): the child has the descriptors and the memory of its parent.
Fork1(q) ==
  LET free == {c \in Shells : sproc[c].status = "unused"} IN
  /\ Does(q, "fork")
  /\ \/ /\ free # {}
        /\ sproc' = [sproc EXCEPT ![q].todo = Rest(q),
                       ![Lowest(free)] = [sproc[q] EXCEPT !.parent = q, !.todo = Call(q).todo,
                                                          !.bg = @ \/ Call(q).bg]]
        /\ UNCHANGED broken
     \/ sproc' = [sproc EXCEPT ![q].todo = <<Op("exit")>>] /\ broken' = TRUE
  /\ UNCHANGED typed

\* pipe(), which may fail, and close() and dup() of one of its ends.
PipeCall(q) ==
  LET r == FreeFd(q)
      w == Lowest({d \in Fds \ {r} : sproc[q].fds[d] = Closed})
  IN
  /\ Does(q, "pipe")
  /\ \/ GoesOn(q, [sproc[q] EXCEPT !.ends = [r |-> r, w |-> w],
                    !.fds[r] = File("r", Call(q).path), !.fds[w] = File("w", Call(q).path)])
     \/ sproc' = [sproc EXCEPT ![q].todo = <<Op("exit")>>]
  /\ UNCHANGED <<typed, broken>>

DupCall(q) ==
  /\ Does(q, "dup")
  /\ GoesOn(q, [sproc[q] EXCEPT !.fds[FreeFd(q)] = sproc[q].fds[sproc[q].ends[Call(q).end]]])
  /\ UNCHANGED <<typed, broken>>

CloseCall(q) ==
  /\ Does(q, "close") \/ Does(q, "close_end")
  /\ LET fd == IF Call(q).op = "close" THEN Call(q).fd ELSE sproc[q].ends[Call(q).end] IN
     GoesOn(q, [sproc[q] EXCEPT !.fds[fd] = Closed])
  /\ UNCHANGED <<typed, broken>>

OpenCall(q) ==
  /\ Does(q, "open")
  /\ \/ GoesOn(q, [sproc[q] EXCEPT !.fds[FreeFd(q)] = File("file", <<Call(q).file>>)])
     \/ sproc' = [sproc EXCEPT ![q].todo = <<Op("exit")>>]
  /\ UNCHANGED <<typed, broken>>

\* wait(), with and without children.
WaitForOne(q) ==
  LET mine == {c \in Shells : sproc[c].status # "unused" /\ sproc[c].parent = q} IN
  /\ Does(q, "wait")
  /\ \/ \E c \in mine :
          /\ sproc[c].status = "zombie"
          /\ sproc' = [sproc EXCEPT ![c] = NoShell, ![q].todo = Rest(q)]
     \/ mine = {} /\ GoesOn(q, sproc[q])
  /\ UNCHANGED <<typed, broken>>

\* exit() of a shell, or of the program it has become, which may come at any time.
\* Children go to init, which collects them.
ExitShell(q) ==
  /\ Does(q, "exit") \/ Does(q, "exec")
  /\ sproc' = [c \in Shells |->
       LET p == sproc[c] IN
       IF c = q THEN IF p.parent = 0 THEN NoShell
                     ELSE [NoShell EXCEPT !.status = "zombie", !.parent = p.parent, !.bg = p.bg]
       ELSE IF p.parent # q THEN p
       ELSE IF p.status = "zombie" THEN NoShell ELSE [p EXCEPT !.parent = 0]]
  /\ UNCHANGED <<typed, broken>>

ShellNext == \E q \in Shells :
  \/ Getcmd(q) \/ Parsecmd(q) \/ Runcmd(q) \/ Fork1(q) \/ PipeCall(q) \/ DupCall(q)
  \/ CloseCall(q) \/ OpenCall(q) \/ WaitForOne(q) \/ ExitShell(q)

ShellSpec == ShellInit /\ [][ShellNext]_svars

----------------------------------------------------------------------------
(* Properties. *)

\* What a command means: which programs run, with what as standard input and output.
RECURSIVE Meaning(_, _, _, _)
Meaning(cmd, in, out, path) ==
  LET l == Append(path, "l")
      r == Append(path, "r")
  IN
  CASE cmd.type = "exec"  -> {<<cmd.argv, in, out>>}
    [] cmd.type = "redir" -> LET f == File("file", <<cmd.file>>) IN
                             Meaning(cmd.cmd, IF cmd.fd = 0 THEN f ELSE in, IF cmd.fd = 1 THEN f ELSE out, path)
    [] cmd.type = "list"  -> Meaning(cmd.left, in, out, l) \cup Meaning(cmd.right, in, out, r)
    [] cmd.type = "pipe"  -> Meaning(cmd.left, in, File("w", path), l)
                             \cup Meaning(cmd.right, File("r", path), out, r)
    [] cmd.type = "back"  -> Meaning(cmd.cmd, in, out, path)

\* q or a process that waits for q.
RECURSIVE Above(_)
Above(q) == LET up == sproc[q].parent IN
  IF up = 0 THEN {} ELSE (IF Does(up, "wait") THEN {up} ELSE {}) \cup Above(up)

\* A program runs with the input and output that the line gives it and with nothing
\* else open; so none that reads to the end of a pipe waits for itself, nor for
\* a shell that waits for it in turn; and the prompt comes back only when nothing of
\* the line is left but what was put in the background (if no fork has failed).
ShellWired == \A q \in Shells :
  LET fds == sproc[q].fds
      line == sproc[q].line
  IN
  /\ Does(q, "exec") =>
       /\ <<Call(q).argv, fds[0], fds[1]>> \in Meaning(line.cmd, Console, Console, line.path)
       /\ fds[2] = Console /\ \A d \in Fds : d > 2 => fds[d] = Closed
       /\ fds[0].kind = "r" => \A w \in Above(q), d \in Fds :
            sproc[w].fds[d] # File("w", fds[0].name)
  /\ Does(q, "getcmd") /\ ~broken =>
       \A c \in Shells \ {q} : sproc[c].status # "unused" => sproc[c].bg
=============================================================================
