-------------------------------- MODULE Tty --------------------------------
(* The console over the UART: console.c and uart.c.  Assignment2's copy; the   *)
(* other has the same text.                                                    *)
(*                                                                            *)
(* The interrupt handler is a thread of its own, one at a time, because the     *)
(* PLIC gives the UART's interrupt to one processor until plic_complete().      *)
(* Locks are held over several steps where the code waits for the device under *)
(* them.  The three characters of a BACKSPACE echo are one; "nl" is also \r;    *)
(* ^P is left out, and so are the characters that are sent.                    *)
EXTENDS Naturals, Sequences, FiniteSets

CONSTANTS Readers, Writers, Nobody,
          Targets,            \* the lengths that read() is asked for
          INPUT_BUF_SIZE, UART_TX_BUF_SIZE,
          Turn                \* cons.r, w and e count modulo Turn (2^32)

Chars == {"a", "nl", "eof"}
Controls == {"kill", "erase"}       \* ^U; ^H and delete
Handler == "uartintr"

ASSUME TtySizes == /\ INPUT_BUF_SIZE \in Nat \ {0} /\ UART_TX_BUF_SIZE \in Nat \ {0}
                   /\ Turn \in Nat /\ Turn > INPUT_BUF_SIZE /\ Turn % INPUT_BUF_SIZE = 0
                   /\ Targets \subseteq Nat
ASSUME TtyProcs == Handler \notin Readers \cup Writers /\ Nobody \notin Readers \cup Writers \cup {Handler}

VARIABLES
  cons,      \* buf, r, w and e of the struct, and lock: who has it
  rd,        \* rd[p]: where reader p is
  left,      \* left[p]: its n and target
  doomed,    \* the readers with p->killed set
  taken,     \* c of consoleread(): the character that was consumed last
  tx,        \* uart_tx_w - uart_tx_r
  txlock,    \* who has uart_tx_lock
  wr,        \* wr[p]: where writer p is; wr[Handler]: in uartstart() or not
  fifo,      \* how many characters the UART has to send; LSR_TX_IDLE is fifo = 0
  rx,        \* the character in RHR, or "none"
  uirq,      \* the UART's interrupt is pending in the PLIC
  h,         \* where the handler is
  hc         \* its character

inputs == <<cons, rd, left, doomed, taken, rx, hc>>
outputs == <<tx, txlock, wr, fifo>>
ttyvars == <<inputs, outputs, uirq, h>>

TtyInit ==
  /\ cons = [buf |-> [i \in 0..(INPUT_BUF_SIZE - 1) |-> "a"], r |-> 0, w |-> 0, e |-> 0,
             lock |-> Nobody]
  /\ rd = [p \in Readers |-> "user"]
  /\ left = [p \in Readers |-> [n |-> 0, target |-> 0]]
  /\ doomed = {} /\ taken = "a"
  /\ tx = 0 /\ txlock = Nobody /\ fifo = 0
  /\ wr = [p \in Writers \cup {Handler} |-> "user"]
  /\ rx = "none" /\ hc = "none" /\ uirq = FALSE /\ h = "idle"

Up(x) == (x + 1) % Turn
Down(x) == (x + Turn - 1) % Turn
Span(x, y) == (x + Turn - y) % Turn
Slot(x) == x % INPUT_BUF_SIZE

----------------------------------------------------------------------------
(* The device: somebody types, and characters are sent. *)

KeyPressed ==
  /\ rx = "none"
  /\ rx' \in Chars \cup Controls
  /\ uirq' = TRUE
  /\ UNCHANGED <<cons, rd, left, doomed, taken, hc, outputs, h>>

Transmitted ==
  /\ fifo > 0
  /\ fifo' = fifo - 1
  /\ uirq' = (uirq \/ fifo = 1)
  /\ UNCHANGED <<inputs, tx, txlock, wr, h>>

----------------------------------------------------------------------------
(* uart.c *)

\* What comes after the input, and after each character of it.
MutAfterInput == "idle"
AfterInput == "tx"

Uartintr ==
  /\ h = "idle" /\ uirq
  /\ uirq' = FALSE /\ h' = "get"
  /\ UNCHANGED <<inputs, outputs>>

Uartgetc ==
  /\ h = "get"
  /\ hc' = rx /\ rx' = "none"
  /\ h' = IF rx = "none" THEN AfterInput ELSE "char"
  /\ UNCHANGED <<cons, rd, left, doomed, taken, outputs, uirq>>

\* uartputc_sync() for an echo: no lock, so that uartstart() may run between the
\* test of LSR and the write to THR.
EchoTest ==
  /\ h \in {"echo_erase", "echo_kill", "echo_put"} /\ fifo = 0
  /\ h' = CASE h = "echo_erase" -> "thr_erase" [] h = "echo_kill" -> "thr_kill"
            [] h = "echo_put" -> "thr_put"
  /\ UNCHANGED <<inputs, outputs, uirq>>

EchoWrite ==
  /\ h \in {"thr_erase", "thr_kill", "thr_put"}
  /\ fifo' = fifo + 1
  /\ h' = CASE h = "thr_erase" -> "done" [] h = "thr_kill" -> "kill" [] h = "thr_put" -> "put"
  /\ UNCHANGED <<inputs, tx, txlock, wr, uirq>>

\* uartputc(), called with every byte by consolewrite().
Uartputc(p) ==
  /\ wr[p] \in {"user", "again"} /\ txlock = Nobody
  /\ IF tx = UART_TX_BUF_SIZE
     THEN wr' = [wr EXCEPT ![p] = "asleep"] /\ UNCHANGED <<tx, txlock>>
     ELSE wr' = [wr EXCEPT ![p] = "start"] /\ tx' = tx + 1 /\ txlock' = p
  /\ UNCHANGED <<inputs, fifo, uirq, h>>

\* The second half of uartintr().
UartintrSend ==
  /\ h = "tx" /\ txlock = Nobody
  /\ h' = "sending" /\ txlock' = Handler
  /\ wr' = [wr EXCEPT ![Handler] = "start"]
  /\ UNCHANGED <<inputs, tx, fifo, uirq>>

\* uartstart(): with nothing to send or a busy UART it returns, and its caller
\* releases the lock.
Uartstart(p) ==
  /\ wr[p] = "start"
  /\ IF tx = 0 \/ fifo > 0
     THEN /\ wr' = [wr EXCEPT ![p] = "user"] /\ txlock' = Nobody
          /\ h' = IF p = Handler THEN "idle" ELSE h
          /\ UNCHANGED tx
     ELSE /\ tx' = tx - 1
          /\ wr' = [q \in DOMAIN wr |-> IF q = p THEN "thr"
                                        ELSE IF wr[q] = "asleep" THEN "again" ELSE wr[q]]
          /\ UNCHANGED <<txlock, h>>
  /\ UNCHANGED <<inputs, fifo, uirq>>

UartstartWrite(p) ==
  /\ wr[p] = "thr"
  /\ fifo' = fifo + 1
  /\ wr' = [wr EXCEPT ![p] = "start"]
  /\ UNCHANGED <<inputs, tx, txlock, uirq, h>>

----------------------------------------------------------------------------
(* console.c: consoleintr() *)

\* cons.lock is released, and uartintr() asks for the next character.
LeaveCons(c) == h' = "get" /\ cons' = [c EXCEPT !.lock = Nobody]
HoldCons(l, c) == h' = l /\ cons' = [c EXCEPT !.lock = Handler]

MutErasable == cons.e # cons.r
Erasable == cons.e # cons.w

Consoleintr ==
  /\ h = "char" /\ cons.lock = Nobody
  /\ \/ hc = "kill" /\ HoldCons("kill", cons)
     \/ hc = "erase" /\ Erasable /\ HoldCons("echo_erase", [cons EXCEPT !.e = Down(@)])
     \/ hc = "erase" /\ ~Erasable /\ LeaveCons(cons)
     \/ hc \in Chars /\ Span(cons.e, cons.r) < INPUT_BUF_SIZE /\ HoldCons("echo_put", cons)
     \/ hc \in Chars /\ Span(cons.e, cons.r) >= INPUT_BUF_SIZE /\ LeaveCons(cons)
  /\ UNCHANGED <<rd, left, doomed, taken, rx, hc, outputs, uirq>>

\* ^U, one character at a time.
KillLine ==
  /\ h = "kill"
  /\ IF Erasable /\ cons.buf[Slot(Down(cons.e))] # "nl"
     THEN HoldCons("echo_kill", [cons EXCEPT !.e = Down(@)])
     ELSE LeaveCons(cons)
  /\ UNCHANGED <<rd, left, doomed, taken, rx, hc, outputs, uirq>>

ConsoleErased ==
  /\ h = "done"
  /\ LeaveCons(cons)
  /\ UNCHANGED <<rd, left, doomed, taken, rx, hc, outputs, uirq>>

\* The character is stored after its echo; a line that ends wakes the readers.
ConsoleStore ==
  LET e == Up(cons.e)
      line == hc \in {"nl", "eof"} \/ Span(e, cons.r) = INPUT_BUF_SIZE
  IN
  /\ h = "put"
  /\ LeaveCons([cons EXCEPT !.buf[Slot(cons.e)] = hc, !.e = e, !.w = IF line THEN e ELSE @])
  /\ rd' = [p \in Readers |-> IF line /\ rd[p] = "asleep" THEN "again" ELSE rd[p]]
  /\ UNCHANGED <<left, doomed, taken, rx, hc, outputs, uirq>>

----------------------------------------------------------------------------
(* console.c: consoleread() *)

ReadBegin(p) ==
  /\ rd[p] = "user" /\ cons.lock = Nobody
  /\ \E n \in Targets : left' = [left EXCEPT ![p] = [n |-> n, target |-> n]]
  /\ rd' = [rd EXCEPT ![p] = "loop"] /\ cons' = [cons EXCEPT !.lock = p]
  /\ UNCHANGED <<doomed, taken, rx, hc, outputs, uirq, h>>

ReadAgain(p) ==
  /\ rd[p] = "again" /\ cons.lock = Nobody
  /\ rd' = [rd EXCEPT ![p] = "loop"] /\ cons' = [cons EXCEPT !.lock = p]
  /\ UNCHANGED <<left, doomed, taken, rx, hc, outputs, uirq, h>>

\* The call returns; a killed process is not seen again, but another may be.
Done(p, r) ==
  /\ cons' = [cons EXCEPT !.r = r, !.lock = Nobody]
  /\ rd' = [rd EXCEPT ![p] = "user"]
  /\ left' = [left EXCEPT ![p] = [n |-> 0, target |-> 0]]
  /\ doomed' = doomed \ {p}

ReadLoop(p) ==
  LET c == cons.buf[Slot(cons.r)]
      n == left[p].n
      some == n > 0 /\ cons.r # cons.w
  IN
  /\ rd[p] = "loop"
  /\ \/ n = 0 /\ Done(p, cons.r) /\ UNCHANGED taken
     \/ n > 0 /\ cons.r = cons.w /\ p \in doomed /\ Done(p, cons.r) /\ UNCHANGED taken
     \/ /\ n > 0 /\ cons.r = cons.w /\ p \notin doomed
        /\ rd' = [rd EXCEPT ![p] = "empty"]
        /\ UNCHANGED <<cons, left, doomed, taken>>
     \/ \* ^D stays for the next read() when this one has something to return.
        /\ some /\ c = "eof"
        /\ IF n < left[p].target THEN Done(p, cons.r) /\ UNCHANGED taken
           ELSE Done(p, Up(cons.r)) /\ taken' = c
     \/ \* The end of a line, or copyout() fails: the character is gone all the same.
        some /\ c # "eof" /\ Done(p, Up(cons.r)) /\ taken' = c
     \/ /\ some /\ c = "a"
        /\ cons' = [cons EXCEPT !.r = Up(@)] /\ taken' = c
        /\ left' = [left EXCEPT ![p].n = n - 1]
        /\ UNCHANGED <<rd, doomed>>
  /\ UNCHANGED <<rx, hc, outputs, uirq, h>>

ReadSleeps(p) ==
  /\ rd[p] = "empty"
  /\ rd' = [rd EXCEPT ![p] = "asleep"] /\ cons' = [cons EXCEPT !.lock = Nobody]
  /\ UNCHANGED <<left, doomed, taken, rx, hc, outputs, uirq, h>>

KillReader(p) ==
  /\ rd[p] # "user" /\ p \notin doomed
  /\ doomed' = doomed \cup {p}
  /\ rd' = [rd EXCEPT ![p] = IF @ = "asleep" THEN "again" ELSE @]
  /\ UNCHANGED <<cons, left, taken, rx, hc, outputs, uirq, h>>

TtyNext ==
  \/ KeyPressed \/ Transmitted
  \/ Uartintr \/ Uartgetc \/ EchoTest \/ EchoWrite \/ UartintrSend
  \/ Consoleintr \/ KillLine \/ ConsoleErased \/ ConsoleStore
  \/ \E p \in Writers : Uartputc(p)
  \/ \E p \in Writers \cup {Handler} : Uartstart(p) \/ UartstartWrite(p)
  \/ \E p \in Readers : ReadBegin(p) \/ ReadAgain(p) \/ ReadLoop(p) \/ ReadSleeps(p) \/ KillReader(p)

TtySpec == TtyInit /\ [][TtyNext]_ttyvars

----------------------------------------------------------------------------
(* Properties. *)

\* Also: what was typed and not read fits in the ring, ended lines before the others.
TtyTypeOK ==
  /\ cons \in [buf : [0..(INPUT_BUF_SIZE - 1) -> Chars], r : 0..(Turn - 1), w : 0..(Turn - 1),
               e : 0..(Turn - 1), lock : Readers \cup {Handler, Nobody}]
  /\ Span(cons.w, cons.r) + Span(cons.e, cons.w) <= INPUT_BUF_SIZE
  /\ rd \in [Readers -> {"user", "loop", "empty", "asleep", "again"}]
  /\ left \in [Readers -> [n : Nat, target : Nat]] /\ doomed \subseteq Readers /\ taken \in Chars
  /\ tx \in 0..UART_TX_BUF_SIZE /\ txlock \in DOMAIN wr \cup {Nobody} /\ fifo \in Nat
  /\ wr \in [Writers \cup {Handler} -> {"user", "start", "thr", "asleep", "again"}]
  /\ rx \in Chars \cup Controls \cup {"none"} /\ hc \in Chars \cup Controls \cup {"none"}
  /\ uirq \in BOOLEAN
  /\ h \in {"idle", "get", "char", "kill", "echo_erase", "echo_kill", "echo_put", "thr_erase",
            "thr_kill", "thr_put", "done", "put", "tx", "sending"}

\* Characters to send are sent without anybody's help: the UART is busy and will
\* interrupt, or it has, or somebody is about to look; no writer sleeps while there
\* is room and no reader while there is a line; and the two that may write to THR at
\* a time, each seeing it idle, need a FIFO of two.
TtyMoves ==
  /\ tx > 0 /\ fifo = 0 => uirq \/ txlock # Nobody \/ h # "idle"
  /\ \A p \in Writers : wr[p] = "asleep" /\ txlock = Nobody => tx = UART_TX_BUF_SIZE
  /\ \A p \in Readers : rd[p] = "asleep" /\ cons.lock = Nobody => cons.r = cons.w
  /\ fifo <= 2

\* The three indices make one buffer of ended lines and one line that is typed.
Chunk(from, n) == [j \in 1..n |-> cons.buf[Slot(from + j - 1)]]
EndedLines == Chunk(cons.r, Span(cons.w, cons.r))
TypedLine == Chunk(cons.w, Span(cons.e, cons.w))
Lines == INSTANCE LineBuffer WITH
  Ends <- {"nl", "eof"}, Room <- INPUT_BUF_SIZE, ready <- EndedLines, line <- TypedLine
LineBufferSpec == Lines!LineSpec
=============================================================================
