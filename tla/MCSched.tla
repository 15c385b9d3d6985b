------------------------------ MODULE MCSched ------------------------------
(* Processes: the process table, the locks and interrupts under it (two models *)
(* of the same code at different grains), and programs that run on them,       *)
(* the shell, grep and wc, and what uses malloc(), in one run.  part says which *)
(* of them moves.                                                              *)
EXTENDS Proc, Trap, Shell, Umalloc, Filters

VARIABLE part

PartsInit ==
  /\ part \in {"proc", "trap", "shell", "malloc", "filters"}
  /\ FiltersInit /\ (part # "filters" => pattern = NoPattern /\ input = <<>>)
  /\ Init /\ TrapInit /\ ShellInit /\ MallocInit

\* The shell has ended, and so has all that it started: only then may it stop.
Finished == \A q \in Shells : sproc[q].status \in {"unused", "zombie"}

PartsNext ==
  /\ UNCHANGED part
  /\ \/ part = "proc" /\ Next /\ UNCHANGED <<tvars, svars, uvars, fvars>>
     \/ part = "trap" /\ TrapNext /\ UNCHANGED <<vars, svars, uvars, fvars>>
     \/ part = "shell" /\ ShellNext /\ UNCHANGED <<vars, tvars, uvars, fvars>>
     \/ part = "shell" /\ Finished /\ UNCHANGED <<vars, tvars, svars, uvars, fvars>>
     \/ part = "malloc" /\ MallocNext /\ UNCHANGED <<vars, tvars, svars, fvars>>
     \/ part = "filters" /\ FiltersNext /\ UNCHANGED <<vars, tvars, svars, uvars>>
     \/ part = "filters" /\ ended # "no" /\ UNCHANGED <<vars, tvars, svars, uvars, fvars>>

PartsSpec == PartsInit /\ [][PartsNext]_<<part, vars, tvars, svars, uvars, fvars>>

----------------------------------------------------------------------------
(* What is typed, and what grep is asked for. *)

\* A command as it is written, with parentheses where it needs them.
RECURSIVE Text(_)
Parens(t, types) == IF t.type \in types THEN Text(t) ELSE <<"(">> \o Text(t) \o <<")">>
Text(t) ==
  CASE t.type = "exec"  -> t.argv
    [] t.type = "redir" -> Parens(t.cmd, {"exec", "redir"}) \o <<IF t.fd = 0 THEN "<" ELSE ">", t.file>>
    [] t.type = "pipe"  -> Parens(t.left, {"exec", "redir"}) \o <<"|">>
                           \o Parens(t.right, {"exec", "redir", "pipe"})
    [] t.type = "back"  -> Parens(t.cmd, {"exec", "redir", "pipe", "back"}) \o <<"&">>
    [] t.type = "list"  -> Parens(t.left, {"exec", "redir", "pipe", "back"}) \o <<";">> \o Text(t.right)

X(word) == Execcmd(<<word>>)
PipeOf(l, r) == Binary("pipe", l, r)
ListOf(l, r) == Binary("list", l, r)
To(cmd, file) == Redircmd(cmd, <<file, 1>>)
From(cmd, file) == Redircmd(cmd, <<file, 0>>)

\* a | b > x | c;   a | b &; c < x > y;   (a; b) | (c &);   (a | b) < x
Meant == {PipeOf(X("a"), PipeOf(To(X("b"), "x"), X("c"))),
          ListOf(Backcmd(PipeOf(X("a"), X("b"))), To(From(X("c"), "x"), "y")),
          PipeOf(ListOf(X("a"), X("b")), Backcmd(X("c"))),
          From(PipeOf(X("a"), X("b")), "x")}

\* What the parser refuses, or what does nothing.
Garbage == {<<"a", "<", "|">>, <<"(", "a">>, <<"a", ")">>, <<"a", "a">>, <<>>,
            <<"(", "a", ")", "b">>, <<"a", "(", "b", ")">>}

Line(tokens, cmd) == [tokens |-> tokens, cmd |-> cmd, path |-> <<>>]
MCTyped == {Line(Text(t), t) : t \in Meant} \cup {Line(g, Execcmd(<<>>)) : g \in Garbage}

One(c) == [c |-> c, star |-> FALSE]
Star(c) == [c |-> c, star |-> TRUE]
Regexp(start, items, end) == [start |-> start, items |-> items, end |-> end]

\* b   ^a.   a*b$   ^.*ab*$   ^$
MCPatterns == {Regexp(FALSE, <<One("b")>>, FALSE),
               Regexp(TRUE, <<One("a"), One(".")>>, FALSE),
               Regexp(FALSE, <<Star("a"), One("b")>>, TRUE),
               Regexp(TRUE, <<Star("."), One("a"), Star("b")>>, TRUE),
               Regexp(TRUE, <<>>, TRUE)}

----------------------------------------------------------------------------

\* States that differ only in what no step looks at are taken together: saved, who
\* and due, where they will be set before they are read.
DueIsRead(t) == {lab[t], trapped[t]} \cap {"test", "chan", "sleeping", "woken", "again"} # {}
TrapView == <<hart, running, owner, lab, want, trapped, scan, tstate, panicked,
              {t \in Tasks : lab[t] \in {"back", "woken"} /\ saved[t]},
              [x \in Contexts |-> IF lab[x] \in {"wake", "waking"} THEN who[x] ELSE 0],
              {t \in due : DueIsRead(t)}>>

View == <<part, vars, TrapView, svars, uvars, fvars>>
=============================================================================
