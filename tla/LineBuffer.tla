----------------------------- MODULE LineBuffer -----------------------------
(* What the console promises to those who read from it: a line can be edited   *)
(* until it is ended, and what was typed comes out once and in order.          *)
EXTENDS Naturals, Sequences

CONSTANTS Chars, Ends,   \* Ends: the characters that end a line
          Room           \* characters that are typed and not read, at most

VARIABLES ready,   \* the characters of lines that were ended
          line,    \* the line that is being typed
          taken    \* the character that was read last

\* The line ends, too, when there is no room for more.
Put(c) ==
  /\ Len(ready) + Len(line) < Room
  /\ LET typed == Append(line, c) IN
     IF c \in Ends \/ Len(ready) + Len(typed) = Room
     THEN ready' = ready \o typed /\ line' = <<>>
     ELSE line' = typed /\ UNCHANGED ready
  /\ UNCHANGED taken

Erase == line # <<>> /\ line' = SubSeq(line, 1, Len(line) - 1) /\ UNCHANGED <<ready, taken>>

Take == ready # <<>> /\ taken' = Head(ready) /\ ready' = Tail(ready) /\ UNCHANGED line

LineInit == ready = <<>> /\ line = <<>> /\ taken \in Chars

LineNext == (\E c \in Chars : Put(c)) \/ Erase \/ Take

linevars == <<ready, line, taken>>

LineSpec == LineInit /\ [][LineNext]_linevars
=============================================================================
