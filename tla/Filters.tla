------------------------------ MODULE Filters ------------------------------
(* grep and wc (user/grep.c, user/wc.c), which must not depend on how their    *)
(* input comes: a pipe or the console gives read() any part of what is left.   *)
(* Assignment2's copy.  Inputs are text, with no '\0' in it.                     *)
EXTENDS Naturals, Sequences, SequencesExt, FiniteSetsExt

CONSTANTS GrepBuf,   \* sizeof(buf) of grep.c
          WcBuf,     \* sizeof(buf) of wc.c
          MaxInput,  \* bound on the length of the input
          Patterns   \* what grep is asked for: anchored to a start, items, to an end

VARIABLES input,    \* all that will ever come
          taken,    \* how much of it read() has returned
          pattern,  \* argv[1] of grep, or NoPattern: the program is wc
          text,     \* grep: buf[0..m-1]
          out,      \* grep: the lines written
          tally,    \* wc: lines, words, characters, and inword
          ended     \* "no", "end": read() returned 0; "error": it returned -1

fvars == <<input, taken, pattern, text, out, tally, ended>>

NL == "nl"
NoPattern == [start |-> FALSE, items |-> <<>>, end |-> TRUE]

\* The pattern as argv[1] has it.
Spelt(P) == (IF P.start THEN <<"^">> ELSE <<>>)
            \o FlattenSeq([i \in DOMAIN P.items |-> IF P.items[i].star THEN <<P.items[i].c, "*">>
                                                  ELSE <<P.items[i].c>>])
            \o (IF P.end THEN <<"$">> ELSE <<>>)

FiltersInit ==
  /\ pattern \in Patterns \cup {NoPattern}
  /\ input \in BoundedSeq(IF pattern = NoPattern THEN {"a", " ", NL} ELSE {"a", "b", NL}, MaxInput)
  /\ taken = 0 /\ text = <<>> /\ out = <<>> /\ ended = "no"
  /\ tally = [l |-> 0, w |-> 0, c |-> 0, inword |-> FALSE]

----------------------------------------------------------------------------
(* The matcher of grep.c.  A string ends where a C string has its '\0'. *)

RECURSIVE matchhere(_, _)

\* Mutant: the star takes as much as it can.
Mutmatchstar(c, re, s) ==
  \E n \in 0..Len(s) :
    /\ (\A i \in 1..n : s[i] = c \/ c = ".")
    /\ (n = Len(s) \/ ~(s[n + 1] = c \/ c = "."))
    /\ matchhere(re, SubSeq(s, n + 1, Len(s)))
\* c* and then re: after no c, after one, and so on.
matchstar(c, re, s) ==
  \E n \in 0..Len(s) :
    /\ \A i \in 1..n : s[i] = c \/ c = "."
    /\ matchhere(re, SubSeq(s, n + 1, Len(s)))

matchhere(re, s) ==
  IF re = <<>> THEN TRUE
  ELSE IF Len(re) > 1 /\ re[2] = "*" THEN matchstar(re[1], SubSeq(re, 3, Len(re)), s)
  ELSE IF re = <<"$">> THEN s = <<>>
  ELSE s # <<>> /\ re[1] \in {".", s[1]} /\ matchhere(Tail(re), Tail(s))

match(re, s) ==
  IF re # <<>> /\ re[1] = "^" THEN matchhere(Tail(re), s)
  ELSE \E n \in 0..Len(s) : matchhere(re, SubSeq(s, n + 1, Len(s)))

----------------------------------------------------------------------------
(* grep() *)

\* The lines of buf that end in it, and what is left over, which memmove() takes to
\* its beginning.
RECURSIVE Lines(_)
Lines(b) ==
  IF ~Contains(b, NL) THEN [whole |-> <<>>, rest |-> b]
  ELSE LET q == SelectInSeq(b, LAMBDA c : c = NL)
           after == Lines(SubSeq(b, q + 1, Len(b)))
       IN  [after EXCEPT !.whole = <<SubSeq(b, 1, q - 1)>> \o @]

\* What read() is asked for leaves room for a '\0'.
Room == GrepBuf - Len(text) - 1

\* Mutant: what is left over after a whole line is lost.
MutGrepRead(n) ==
  LET b == Lines(text \o SubSeq(input, taken + 1, taken + n)) IN
  /\ pattern # NoPattern /\ ended = "no" /\ n \in 1..Room /\ taken + n <= Len(input)
  /\ out' = out \o SelectSeq(b.whole, LAMBDA s : match(Spelt(pattern), s))
  /\ text' = IF b.whole = <<>> THEN b.rest ELSE <<>>
  /\ taken' = taken + n
  /\ UNCHANGED <<input, pattern, tally, ended>>
\* One turn of the loop.
GrepRead(n) ==
  LET b == Lines(text \o SubSeq(input, taken + 1, taken + n)) IN
  /\ pattern # NoPattern /\ ended = "no" /\ n \in 1..Room /\ taken + n <= Len(input)
  /\ out' = out \o SelectSeq(b.whole, LAMBDA s : match(Spelt(pattern), s))
  /\ text' = b.rest
  /\ taken' = taken + n
  /\ UNCHANGED <<input, pattern, tally, ended>>

----------------------------------------------------------------------------
(* wc() *)

Counted(t, c) ==
  [l |-> IF c = NL THEN t.l + 1 ELSE t.l,
   w |-> IF c \notin {" ", NL} /\ ~t.inword THEN t.w + 1 ELSE t.w,
   c |-> t.c + 1,
   inword |-> c \notin {" ", NL}]

WcRead(n) ==
  /\ pattern = NoPattern /\ ended = "no" /\ n \in 1..WcBuf /\ taken + n <= Len(input)
  /\ tally' = FoldLeft(Counted, tally, SubSeq(input, taken + 1, taken + n))
  /\ taken' = taken + n
  /\ UNCHANGED <<input, pattern, text, out, ended>>

\* read() returns 0 at the end of the input, and when it is asked for nothing.
ReadNothing ==
  /\ ended = "no"
  /\ taken = Len(input) \/ (pattern # NoPattern /\ Room = 0)
  /\ ended' = "end"
  /\ UNCHANGED <<input, taken, pattern, text, out, tally>>

ReadFails ==
  /\ ended = "no" /\ ended' = "error"
  /\ UNCHANGED <<input, taken, pattern, text, out, tally>>

FiltersNext ==
  \/ \E n \in 1..MaxInput : GrepRead(n) \/ WcRead(n)
  \/ ReadNothing \/ ReadFails

FiltersSpec == FiltersInit /\ [][FiltersNext]_fvars

----------------------------------------------------------------------------
(* Properties. *)

\* s is made of what each of the items stands for, one after the other: item i of
\* the text from the end of item i - 1 to to[i].
Splits(items, s) ==
  \E to \in [0..Len(items) -> 0..Len(s)] :
    /\ to[0] = 0 /\ to[Len(items)] = Len(s)
    /\ \A i \in DOMAIN items :
         /\ to[i - 1] <= to[i]
         /\ ~items[i].star => to[i] = to[i - 1] + 1
         /\ \A k \in (to[i - 1] + 1)..to[i] : items[i].c \in {".", s[k]}

\* What it means that a line has the pattern in it.
Found(P, s) ==
  \E i \in 1..(Len(s) + 1), j \in 0..Len(s) :
    /\ i <= j + 1
    /\ P.start => i = 1
    /\ P.end => j = Len(s)
    /\ Splits(P.items, SubSeq(s, i, j))

Breaks == {0} \cup {i \in 1..taken : input[i] = NL}
LineAfter(b) == SubSeq(input, b + 1, Min({i \in Breaks : i > b}) - 1)
Word(i) == i \in 1..taken /\ input[i] \notin {" ", NL}

\* However the input comes: grep has written the lines with the pattern in them, in
\* their order, among those that have ended, and gives up before the input's end
\* only for an error or a line that does not fit; wc has counted what has come.
InputRead ==
  /\ pattern # NoPattern =>
       /\ LET starts == SetToSortSeq(Breaks \ {Max(Breaks)}, <)
              found == SelectSeq(starts, LAMBDA b : Found(pattern, LineAfter(b)))
          IN  out = [k \in DOMAIN found |-> LineAfter(found[k])]
       /\ text = SubSeq(input, Max(Breaks) + 1, taken)
       /\ ended = "end" => taken = Len(input) \/ taken - Max(Breaks) = GrepBuf - 1
  /\ pattern = NoPattern =>
       /\ tally.l = Cardinality(Breaks) - 1 /\ tally.c = taken
       /\ tally.w = Cardinality({i \in 1..taken : Word(i) /\ ~Word(i - 1)})
       /\ ended = "end" => taken = Len(input)
=============================================================================
