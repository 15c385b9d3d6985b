----------------------------- MODULE Tty_proofs -----------------------------
(* Proofs about the console and the UART, Tty.tla, for any number of readers   *)
(* and writers and any sizes of the two buffers.                               *)
EXTENDS Tty, SequenceTheorems, TLAPS

Rings == [buf : [0..(INPUT_BUF_SIZE - 1) -> Chars], r : 0..(Turn - 1), w : 0..(Turn - 1),
          e : 0..(Turn - 1), lock : Readers \cup {Handler, Nobody}]
Ready(c) == Span(c.w, c.r)
Typed(c) == Span(c.e, c.w)

\* Where the handler holds cons.lock, and where it writes to THR for an echo.
Holds == {"kill", "echo_erase", "echo_kill", "echo_put", "thr_erase", "thr_kill", "thr_put",
          "done", "put"}
Echoes == {"thr_erase", "thr_kill", "thr_put"}
Stores == {"echo_put", "thr_put", "put"}
Places == {"idle", "get", "char", "tx", "sending"} \cup Holds

\* The input: who has cons.lock, and what is in the buffer for whom.
InTypes ==
  /\ cons \in Rings
  /\ rd \in [Readers -> {"user", "loop", "empty", "asleep", "again"}]
  /\ left \in [Readers -> [n : Nat, target : Nat]] /\ doomed \subseteq Readers /\ taken \in Chars
  /\ rx \in Chars \cup Controls \cup {"none"} /\ hc \in Chars \cup Controls \cup {"none"}
  /\ uirq \in BOOLEAN /\ h \in Places

Fits == Ready(cons) + Typed(cons) <= INPUT_BUF_SIZE

\* An echo is for a character that there is room for.
Echoed == h \in Stores => hc \in Chars /\ Ready(cons) + Typed(cons) < INPUT_BUF_SIZE

\* cons.lock is with the one whose code holds it.
ConsHeld ==
  /\ cons.lock = Handler <=> h \in Holds
  /\ \A p \in Readers : cons.lock = p <=> rd[p] \in {"loop", "empty"}

\* Nobody goes to sleep, and nobody sleeps on, with a line to read.
Starved == \A p \in Readers : rd[p] \in {"empty", "asleep"} => cons.r = cons.w

\* The output.
OutTypes ==
  /\ tx \in 0..UART_TX_BUF_SIZE /\ txlock \in Writers \cup {Handler, Nobody} /\ fifo \in Nat
  /\ wr \in [Writers \cup {Handler} -> {"user", "start", "thr", "asleep", "again"}]

TxHeld ==
  /\ \A p \in Writers \cup {Handler} : txlock = p <=> wr[p] \in {"start", "thr"}
  /\ h = "sending" <=> txlock = Handler
  /\ wr[Handler] \in {"user", "start", "thr"}

Blocked == \A p \in Writers : wr[p] = "asleep" => tx = UART_TX_BUF_SIZE

\* Each of the two that have seen the UART idle may put one character in.
Sends == txlock # Nobody /\ wr[txlock] = "thr"
Room2 ==
  fifo + (IF h \in Echoes THEN 1 ELSE 0) + (IF Sends THEN 1 ELSE 0) <= 2

Noticed == tx > 0 /\ fifo = 0 => uirq \/ txlock # Nobody \/ h # "idle"

InPart == InTypes /\ Fits /\ Echoed /\ ConsHeld /\ Starved
OutPart == OutTypes /\ TxHeld /\ Blocked /\ Room2 /\ Noticed

Inv == InPart /\ OutPart

-----------------------------------------------------------------------------
(* Counters that wrap around: what % gives, and what is in the ring. *)

LEMMA Divided ==
  ASSUME NEW a \in Int, NEW n \in Nat \ {0}
  PROVE  a = n * (a \div n) + (a % n) /\ a % n \in 0..(n - 1) /\ (a \div n) \in Int
OBVIOUS

LEMMA Remainder ==
  ASSUME NEW n \in Nat \ {0}, NEW q \in Int, NEW r \in 0..(n - 1)
  PROVE  (n * q + r) % n = r
<1>1. n * q + r \in Int
  OBVIOUS
<1>2. PICK u \in Int, s \in 0..(n - 1) : n * q + r = n * u + s /\ (n * q + r) % n = s
  BY <1>1, Divided
<1>3. n * (q - u) = s - r /\ q - u \in Int
  BY <1>2
<1>4. ASSUME q - u >= 1 PROVE n * (q - u) >= n
  BY <1>3, <1>4
<1>5. ASSUME q - u <= -1 PROVE n * (q - u) <= -n
  BY <1>3, <1>5
<1>6. q - u >= 1 \/ q - u <= -1 \/ q = u
  BY <1>3
<1> QED
  BY <1>2, <1>3, <1>4, <1>5, <1>6

LEMMA Wrapped ==
  ASSUME NEW n \in Nat \ {0}, NEW a \in 0..(2 * n - 1)
  PROVE  a % n = IF a < n THEN a ELSE a - n
<1>1. CASE a < n
  BY <1>1, Remainder, n * 0 + a = a
<1>2. CASE a >= n
  <2>1. a - n \in 0..(n - 1) /\ a = n * 1 + (a - n)
    BY <1>2
  <2> QED
    BY <1>2, <2>1, Remainder
<1> QED
  BY <1>1, <1>2

LEMMA PlacesDiffer ==
  ASSUME NEW n \in Nat \ {0}, NEW a \in Int, NEW b \in Int, a < b, b < a + n
  PROVE  a % n # b % n
<1> SUFFICES ASSUME a % n = b % n PROVE FALSE
  OBVIOUS
<1>1. /\ a = n * (a \div n) + (a % n) /\ b = n * (b \div n) + (b % n)
      /\ a % n \in Int /\ (a \div n) \in Int /\ (b \div n) \in Int
  BY Divided
<1> DEFINE d == (b \div n) - (a \div n)
<1>2. n * d = b - a /\ d \in Int
  BY <1>1
<1> HIDE DEF d
<1>3. d >= 1 \/ d <= 0
  BY <1>2
<1>4. ASSUME d >= 1 PROVE n * d >= n
  BY <1>2, <1>4
<1>5. ASSUME d <= 0 PROVE n * d <= 0
  BY <1>2, <1>5
<1> QED
  BY <1>2, <1>3, <1>4, <1>5

\* A counter that has wrapped around is at the same place of the buffer.
LEMMA SamePlace ==
  ASSUME NEW a \in Int
  PROVE  Slot(a + Turn) = Slot(a) /\ Slot(a) \in 0..(INPUT_BUF_SIZE - 1)
<1> DEFINE N == INPUT_BUF_SIZE
<1>1. N \in Nat \ {0} /\ Turn \in Nat /\ Turn % N = 0
  BY TtySizes
<1>2. Turn = N * (Turn \div N) /\ (Turn \div N) \in Int
  BY <1>1, Divided
<1>3. a = N * (a \div N) + (a % N) /\ a % N \in 0..(N - 1) /\ (a \div N) \in Int
  BY <1>1, Divided
<1>4. a + Turn = N * ((a \div N) + (Turn \div N)) + (a % N)
  BY <1>1, <1>2, <1>3
<1>5. (a \div N) + (Turn \div N) \in Int
  BY <1>2, <1>3
<1>6. (a + Turn) % N = a % N
  BY <1>1, <1>3, <1>4, <1>5, Remainder
<1> QED
  BY <1>3, <1>6 DEF Slot

LEMMA SpanIs ==
  ASSUME NEW x \in 0..(Turn - 1), NEW y \in 0..(Turn - 1)
  PROVE  Span(x, y) \in 0..(Turn - 1) /\ Span(x, y) = IF x >= y THEN x - y ELSE x + Turn - y
<1> DEFINE a == x + Turn - y
           m == a % Turn
<1>1. a \in 0..(2 * Turn - 1) /\ Turn \in Nat \ {0}
  BY TtySizes
<1> HIDE DEF a
<1>2. m = IF a < Turn THEN a ELSE a - Turn
  BY <1>1, Wrapped
<1> HIDE DEF m
<1>3. m \in 0..(Turn - 1) /\ m = IF x >= y THEN x - y ELSE x + Turn - y
  BY <1>1, <1>2, TtySizes DEF a
<1> QED
  BY <1>3 DEF m, a, Span

LEMMA UpIs ==
  ASSUME NEW x \in 0..(Turn - 1)
  PROVE  Up(x) \in 0..(Turn - 1) /\ Up(x) = IF x + 1 = Turn THEN 0 ELSE x + 1
<1> DEFINE a == x + 1
           m == a % Turn
<1>1. a \in 0..(2 * Turn - 1) /\ Turn \in Nat \ {0}
  BY TtySizes
<1> HIDE DEF a
<1>2. m = IF a < Turn THEN a ELSE a - Turn
  BY <1>1, Wrapped
<1> HIDE DEF m
<1>3. m \in 0..(Turn - 1) /\ m = IF x + 1 = Turn THEN 0 ELSE x + 1
  BY <1>1, <1>2, TtySizes DEF a
<1> QED
  BY <1>3 DEF m, a, Up

LEMMA DownIs ==
  ASSUME NEW x \in 0..(Turn - 1)
  PROVE  Down(x) \in 0..(Turn - 1) /\ Down(x) = IF x = 0 THEN Turn - 1 ELSE x - 1
<1> DEFINE a == x + Turn - 1
           m == a % Turn
<1>1. a \in 0..(2 * Turn - 1) /\ Turn \in Nat \ {0}
  BY TtySizes
<1> HIDE DEF a
<1>2. m = IF a < Turn THEN a ELSE a - Turn
  BY <1>1, Wrapped
<1> HIDE DEF m
<1>3. m \in 0..(Turn - 1) /\ m = IF x = 0 THEN Turn - 1 ELSE x - 1
  BY <1>1, <1>2, TtySizes DEF a
<1> QED
  BY <1>3 DEF m, a, Down

\* The two parts of the buffer: how long they are, and where the second begins.
LEMMA PartsAre ==
  ASSUME NEW c \in Rings, Ready(c) + Typed(c) <= INPUT_BUF_SIZE
  PROVE  /\ Ready(c) \in 0..INPUT_BUF_SIZE /\ Typed(c) \in 0..INPUT_BUF_SIZE
         /\ Span(c.e, c.r) = Ready(c) + Typed(c)
         /\ c.r = c.w <=> Ready(c) = 0
         /\ c.e = c.w <=> Typed(c) = 0
         /\ c.r + Ready(c) = c.w \/ c.r + Ready(c) = c.w + Turn
         /\ c.w + Typed(c) = c.e \/ c.w + Typed(c) = c.e + Turn
<1>1. c.r \in 0..(Turn - 1) /\ c.w \in 0..(Turn - 1) /\ c.e \in 0..(Turn - 1)
  BY DEF Rings
<1>2. /\ Ready(c) = IF c.w >= c.r THEN c.w - c.r ELSE c.w + Turn - c.r
      /\ Typed(c) = IF c.e >= c.w THEN c.e - c.w ELSE c.e + Turn - c.w
      /\ Span(c.e, c.r) = IF c.e >= c.r THEN c.e - c.r ELSE c.e + Turn - c.r
  BY <1>1, SpanIs DEF Ready, Typed
<1> QED
  BY <1>1, <1>2, TtySizes

LEMMA NotFull ==
  ASSUME NEW c \in Rings, Ready(c) + Typed(c) < INPUT_BUF_SIZE
  PROVE  Ready(c) + Typed(c) <= INPUT_BUF_SIZE /\ Ready(c) \in Nat /\ Typed(c) \in Nat
<1>1. c.r \in 0..(Turn - 1) /\ c.w \in 0..(Turn - 1) /\ c.e \in 0..(Turn - 1)
  BY DEF Rings
<1>2. Ready(c) \in 0..(Turn - 1) /\ Typed(c) \in 0..(Turn - 1)
  BY <1>1, SpanIs DEF Ready, Typed
<1> QED
  BY <1>2, TtySizes

\* A character is put behind the others ...
LEMMA OneMore ==
  ASSUME NEW c \in Rings, NEW d \in Rings, Ready(c) + Typed(c) < INPUT_BUF_SIZE,
         d.r = c.r, d.w = c.w, d.e = Up(c.e)
  PROVE  Ready(d) = Ready(c) /\ Typed(d) = Typed(c) + 1
<1>1. c.r \in 0..(Turn - 1) /\ c.w \in 0..(Turn - 1) /\ c.e \in 0..(Turn - 1)
  BY DEF Rings
<1>2. d.e \in 0..(Turn - 1) /\ d.e = IF c.e + 1 = Turn THEN 0 ELSE c.e + 1
  BY <1>1, UpIs
<1>3. /\ Ready(c) = IF c.w >= c.r THEN c.w - c.r ELSE c.w + Turn - c.r
      /\ Typed(c) = IF c.e >= c.w THEN c.e - c.w ELSE c.e + Turn - c.w
      /\ Typed(d) = IF d.e >= c.w THEN d.e - c.w ELSE d.e + Turn - c.w
  BY <1>1, <1>2, SpanIs DEF Ready, Typed
<1>4. Ready(d) = Ready(c)
  BY DEF Ready
<1> QED
  BY <1>1, <1>2, <1>3, <1>4, TtySizes

\* ... and ends the line, ...
LEMMA LineEnds ==
  ASSUME NEW c \in Rings, NEW d \in Rings, Ready(c) + Typed(c) < INPUT_BUF_SIZE,
         d.r = c.r, d.w = Up(c.e), d.e = Up(c.e)
  PROVE  Ready(d) = Ready(c) + Typed(c) + 1 /\ Typed(d) = 0
<1>1. c.r \in 0..(Turn - 1) /\ c.w \in 0..(Turn - 1) /\ c.e \in 0..(Turn - 1)
  BY DEF Rings
<1>2. d.e \in 0..(Turn - 1) /\ d.e = d.w /\ d.e = IF c.e + 1 = Turn THEN 0 ELSE c.e + 1
  BY <1>1, UpIs
<1>3. /\ Ready(c) = IF c.w >= c.r THEN c.w - c.r ELSE c.w + Turn - c.r
      /\ Typed(c) = IF c.e >= c.w THEN c.e - c.w ELSE c.e + Turn - c.w
      /\ Ready(d) = IF d.w >= c.r THEN d.w - c.r ELSE d.w + Turn - c.r
      /\ Typed(d) = IF d.e >= d.w THEN d.e - d.w ELSE d.e + Turn - d.w
  BY <1>1, <1>2, SpanIs DEF Ready, Typed
<1>4. Turn \in Nat /\ INPUT_BUF_SIZE \in Nat /\ Turn > INPUT_BUF_SIZE
  BY TtySizes
<1>5. Typed(d) = 0
  <2> DEFINE x == d.e
  <2>1. x \in 0..(Turn - 1) /\ Typed(d) = Span(x, x)
    BY <1>2 DEF Typed
  <2> HIDE DEF x
  <2> QED
    BY <1>4, <2>1, SpanIs
<1>6. Ready(d) = Ready(c) + Typed(c) + 1
  <2> DEFINE r == c.r
             w == c.w
             e == c.e
             f == d.w
             a == Ready(c)
             b == Typed(c)
             z == Ready(d)
  <2>1. /\ r \in 0..(Turn - 1) /\ w \in 0..(Turn - 1) /\ e \in 0..(Turn - 1)
        /\ f = IF e + 1 = Turn THEN 0 ELSE e + 1
        /\ a = IF w >= r THEN w - r ELSE w + Turn - r
        /\ b = IF e >= w THEN e - w ELSE e + Turn - w
        /\ z = IF f >= r THEN f - r ELSE f + Turn - r
        /\ a + b < INPUT_BUF_SIZE
    BY <1>1, <1>2, <1>3
  <2> HIDE DEF r, w, e, f, a, b, z
  <2>2. z = a + b + 1
    BY <1>4, <2>1
  <2> QED
    BY <2>2 DEF a, b, z
<1> QED
  BY <1>5, <1>6

\* ... the last one is erased, ...
LEMMA OneErased ==
  ASSUME NEW c \in Rings, NEW d \in Rings, Ready(c) + Typed(c) <= INPUT_BUF_SIZE, c.e # c.w,
         d.r = c.r, d.w = c.w, d.e = Down(c.e)
  PROVE  Ready(d) = Ready(c) /\ Typed(d) = Typed(c) - 1
<1>1. c.r \in 0..(Turn - 1) /\ c.w \in 0..(Turn - 1) /\ c.e \in 0..(Turn - 1)
  BY DEF Rings
<1>2. d.e \in 0..(Turn - 1) /\ d.e = IF c.e = 0 THEN Turn - 1 ELSE c.e - 1
  BY <1>1, DownIs
<1>3. /\ Ready(c) = IF c.w >= c.r THEN c.w - c.r ELSE c.w + Turn - c.r
      /\ Typed(c) = IF c.e >= c.w THEN c.e - c.w ELSE c.e + Turn - c.w
      /\ Typed(d) = IF d.e >= c.w THEN d.e - c.w ELSE d.e + Turn - c.w
  BY <1>1, <1>2, SpanIs DEF Ready, Typed
<1>4. Ready(d) = Ready(c)
  BY DEF Ready
<1> QED
  BY <1>1, <1>2, <1>3, <1>4, TtySizes

\* ... and the first one is read.
LEMMA OneLess ==
  ASSUME NEW c \in Rings, NEW d \in Rings, Ready(c) + Typed(c) <= INPUT_BUF_SIZE, c.r # c.w,
         d.r = Up(c.r), d.w = c.w, d.e = c.e
  PROVE  Ready(d) = Ready(c) - 1 /\ Typed(d) = Typed(c)
<1>1. c.r \in 0..(Turn - 1) /\ c.w \in 0..(Turn - 1) /\ c.e \in 0..(Turn - 1)
  BY DEF Rings
<1>2. d.r \in 0..(Turn - 1) /\ d.r = IF c.r + 1 = Turn THEN 0 ELSE c.r + 1
  BY <1>1, UpIs
<1>3. /\ Ready(c) = IF c.w >= c.r THEN c.w - c.r ELSE c.w + Turn - c.r
      /\ Ready(d) = IF c.w >= d.r THEN c.w - d.r ELSE c.w + Turn - d.r
  BY <1>1, <1>2, SpanIs DEF Ready, Typed
<1>4. Typed(d) = Typed(c)
  BY DEF Typed
<1> QED
  BY <1>1, <1>2, <1>3, <1>4, TtySizes

-----------------------------------------------------------------------------
(* Output: the writers, the interrupt handler and the UART. *)

LEMMA Apart ==
  /\ Handler \notin Readers /\ Handler \notin Writers
  /\ Nobody \notin Readers /\ Nobody \notin Writers /\ Nobody # Handler
BY TtyProcs

\* A step that sends nothing.
LEMMA OutKept ==
  ASSUME OutPart, tx' = tx, txlock' = txlock, wr' = wr, fifo' = fifo,
         h' = "sending" <=> h = "sending",
         h' \in Echoes => h \in Echoes \/ fifo = 0,
         uirq' = uirq \/ uirq' \/ h' # "idle", h' = "idle" => h = "idle",
         uirq \in BOOLEAN
  PROVE  OutPart'
<1>1. OutTypes'
  BY DEF OutPart, OutTypes
<1>2. TxHeld'
  BY DEF OutPart, TxHeld
<1>3. Blocked'
  BY DEF OutPart, Blocked
<1>4. Sends' <=> Sends
  BY DEF Sends
<1>5. Room2'
  BY <1>4 DEF OutPart, OutTypes, Room2
<1>6. Noticed'
  BY DEF OutPart, Noticed
<1> QED
  BY <1>1, <1>2, <1>3, <1>5, <1>6 DEF OutPart

LEMMA TransmittedOut ==
  ASSUME OutPart, Transmitted, uirq \in BOOLEAN
  PROVE  OutPart'
<1>1. fifo > 0 /\ fifo' = fifo - 1 /\ uirq' = (uirq \/ fifo = 1) /\ tx' = tx /\ txlock' = txlock
      /\ wr' = wr /\ h' = h
  BY DEF Transmitted
<1>2. fifo \in Nat
  BY DEF OutPart, OutTypes
<1>3. OutTypes'
  BY <1>1, <1>2 DEF OutPart, OutTypes
<1>4. TxHeld'
  BY <1>1 DEF OutPart, TxHeld
<1>5. Blocked'
  BY <1>1 DEF OutPart, Blocked
<1>6. Sends' <=> Sends
  BY <1>1 DEF Sends
<1>7. Room2'
  BY <1>1, <1>2, <1>6 DEF OutPart, Room2
<1>8. fifo' = 0 => uirq'
  <2>1. fifo' = 0 => fifo = 1
    BY <1>1, <1>2
  <2> QED
    BY <1>1, <2>1, Zenon
<1>9. Noticed'
  BY <1>8 DEF Noticed
<1> QED
  BY <1>3, <1>4, <1>5, <1>7, <1>9 DEF OutPart

LEMMA EchoWriteOut ==
  ASSUME OutPart, EchoWrite
  PROVE  OutPart'
<1>1. /\ h \in Echoes /\ fifo' = fifo + 1 /\ h' \in {"done", "kill", "put"}
      /\ tx' = tx /\ txlock' = txlock /\ wr' = wr /\ uirq' = uirq
  BY DEF EchoWrite, Echoes
<1>2. fifo \in Nat
  BY DEF OutPart, OutTypes
<1>3. OutTypes'
  BY <1>1, <1>2 DEF OutPart, OutTypes
<1>4. TxHeld'
  BY <1>1 DEF OutPart, TxHeld, Echoes
<1>5. Blocked'
  BY <1>1 DEF OutPart, Blocked
<1>6. Sends' <=> Sends
  BY <1>1 DEF Sends
<1>7. h' \notin Echoes
  BY <1>1 DEF Echoes
<1>8. Room2'
  BY <1>1, <1>2, <1>6, <1>7 DEF OutPart, Room2
<1>9. Noticed'
  BY <1>1, <1>2 DEF Noticed
<1> QED
  BY <1>3, <1>4, <1>5, <1>8, <1>9 DEF OutPart

\* Somebody takes uart_tx_lock to start the UART, with a character more or not.
LEMMA Taking ==
  ASSUME OutPart, NEW p \in Writers \cup {Handler}, txlock = Nobody, txlock' = p,
         \A q \in Writers \cup {Handler} : wr'[q] = IF q = p THEN "start" ELSE wr[q],
         wr' \in [Writers \cup {Handler} -> {"user", "start", "thr", "asleep", "again"}],
         tx' \in 0..UART_TX_BUF_SIZE, tx # UART_TX_BUF_SIZE \/ tx' = tx, fifo' = fifo,
         p # Handler => h' = h, p = Handler => h = "tx" /\ h' = "sending"
  PROVE  OutPart'
<1>1. OutTypes'
  BY DEF OutPart, OutTypes
<1>2. TxHeld'
  <2>1. ASSUME NEW q \in Writers \cup {Handler} PROVE txlock' = q <=> wr'[q] \in {"start", "thr"}
    <3>1. q # Nobody /\ (txlock = q <=> wr[q] \in {"start", "thr"})
      BY Apart DEF OutPart, TxHeld
    <3> QED
      BY <3>1
  <2>2. h' = "sending" <=> txlock' = Handler
    BY Apart DEF OutPart, TxHeld
  <2>3. wr'[Handler] \in {"user", "start", "thr"}
    BY DEF OutPart, TxHeld
  <2> QED
    BY <2>1, <2>2, <2>3 DEF TxHeld
<1>3. Blocked'
  <2> SUFFICES ASSUME NEW q \in Writers, wr'[q] = "asleep" PROVE tx' = UART_TX_BUF_SIZE
    BY DEF Blocked
  <2>1. wr[q] = "asleep"
    OBVIOUS
  <2> QED
    BY <2>1 DEF OutPart, Blocked
<1>4. ~Sends /\ ~Sends'
  BY DEF Sends
<1>5. (h \in Echoes <=> h' \in Echoes) /\ fifo \in Nat
  BY DEF Echoes, OutPart, OutTypes
<1>6. Room2'
  BY <1>4, <1>5 DEF OutPart, Room2
<1>7. Noticed'
  BY Apart DEF Noticed
<1> QED
  BY <1>1, <1>2, <1>3, <1>6, <1>7 DEF OutPart

LEMMA UartputcOut ==
  ASSUME OutPart, NEW p \in Writers, Uartputc(p)
  PROVE  OutPart'
<1>1. /\ wr[p] \in {"user", "again"} /\ txlock = Nobody
      /\ fifo' = fifo /\ h' = h /\ uirq' = uirq /\ p # Handler
  BY Apart DEF Uartputc
<1>2. /\ wr \in [Writers \cup {Handler} -> {"user", "start", "thr", "asleep", "again"}]
      /\ tx \in 0..UART_TX_BUF_SIZE /\ UART_TX_BUF_SIZE \in Nat
  BY TtySizes DEF OutPart, OutTypes
<1>3. CASE tx = UART_TX_BUF_SIZE
  <2>1. /\ wr' = [wr EXCEPT ![p] = "asleep"] /\ tx' = tx /\ txlock' = txlock
    BY <1>3 DEF Uartputc
  <2>2. /\ \A q \in Writers \cup {Handler} : wr'[q] = IF q = p THEN "asleep" ELSE wr[q]
        /\ wr' \in [Writers \cup {Handler} -> {"user", "start", "thr", "asleep", "again"}]
    BY <1>2, <2>1
  <2>3. OutTypes'
    BY <1>1, <2>1, <2>2 DEF OutPart, OutTypes
  <2>4. TxHeld'
    <3>1. ASSUME NEW q \in Writers \cup {Handler} PROVE txlock' = q <=> wr'[q] \in {"start", "thr"}
      <4>1. q # Nobody /\ (txlock = q <=> wr[q] \in {"start", "thr"})
        BY Apart DEF OutPart, TxHeld
      <4> QED
        BY <1>1, <2>1, <2>2, <4>1
    <3>2. (h' = "sending" <=> txlock' = Handler) /\ wr'[Handler] \in {"user", "start", "thr"}
      BY <1>1, <2>1, <2>2 DEF OutPart, TxHeld
    <3> QED
      BY <3>1, <3>2 DEF TxHeld
  <2>5. Blocked'
    BY <1>3, <2>1 DEF Blocked
  <2>6. ~Sends /\ ~Sends'
    BY <1>1, <2>1 DEF Sends
  <2>7. Room2'
    BY <1>1, <2>6 DEF OutPart, Room2
  <2>8. Noticed'
    BY <1>1, <2>1 DEF OutPart, Noticed
  <2> QED
    BY <2>3, <2>4, <2>5, <2>7, <2>8 DEF OutPart
<1>4. CASE tx # UART_TX_BUF_SIZE
  <2>1. /\ wr' = [wr EXCEPT ![p] = "start"] /\ tx' = tx + 1 /\ txlock' = p
    BY <1>4 DEF Uartputc
  <2>2. /\ \A q \in Writers \cup {Handler} : wr'[q] = IF q = p THEN "start" ELSE wr[q]
        /\ wr' \in [Writers \cup {Handler} -> {"user", "start", "thr", "asleep", "again"}]
    BY <1>2, <2>1
  <2>3. tx' \in 0..UART_TX_BUF_SIZE
    BY <1>2, <1>4, <2>1
  <2>4. txlock' = p
    BY <2>1
  <2> QED
    BY <1>1, <1>4, <2>2, <2>3, <2>4, Taking
<1> QED
  BY <1>3, <1>4

LEMMA UartintrSendOut ==
  ASSUME OutPart, UartintrSend
  PROVE  OutPart'
<1>1. /\ h = "tx" /\ txlock = Nobody /\ h' = "sending" /\ txlock' = Handler
      /\ wr' = [wr EXCEPT ![Handler] = "start"] /\ tx' = tx /\ fifo' = fifo
  BY DEF UartintrSend
<1>2. /\ wr \in [Writers \cup {Handler} -> {"user", "start", "thr", "asleep", "again"}]
      /\ tx \in 0..UART_TX_BUF_SIZE
  BY DEF OutPart, OutTypes
<1>3. PICK p \in Writers \cup {Handler} : p = Handler
  OBVIOUS
<1>4. /\ \A q \in Writers \cup {Handler} : wr'[q] = IF q = p THEN "start" ELSE wr[q]
      /\ wr' \in [Writers \cup {Handler} -> {"user", "start", "thr", "asleep", "again"}]
  BY <1>1, <1>2, <1>3
<1> QED
  BY <1>1, <1>2, <1>3, <1>4, Taking

\* The one that holds uart_tx_lock is the only one in uartstart().
LEMMA TheOne ==
  ASSUME OutPart, NEW p \in Writers \cup {Handler}, wr[p] \in {"start", "thr"}
  PROVE  /\ txlock = p /\ p # Nobody
         /\ \A q \in Writers \cup {Handler} : q # p => wr[q] \in {"user", "asleep", "again"}
         /\ Sends <=> wr[p] = "thr"
<1>1. txlock = p /\ p # Nobody
  BY Apart DEF OutPart, TxHeld
<1>2. ASSUME NEW q \in Writers \cup {Handler}, q # p PROVE wr[q] \in {"user", "asleep", "again"}
  <2>1. wr[q] \notin {"start", "thr"}
    BY <1>1, <1>2 DEF OutPart, TxHeld
  <2> QED
    BY <2>1 DEF OutPart, OutTypes
<1> QED
  BY <1>1, <1>2 DEF Sends

LEMMA UartstartOut ==
  ASSUME OutPart, NEW p \in Writers \cup {Handler}, Uartstart(p)
  PROVE  OutPart'
<1>1. wr[p] = "start" /\ fifo' = fifo /\ uirq' = uirq
  BY DEF Uartstart
<1>2. /\ txlock = p /\ p # Nobody /\ ~Sends
      /\ \A q \in Writers \cup {Handler} : q # p => wr[q] \in {"user", "asleep", "again"}
  BY <1>1, TheOne
<1>3. /\ wr \in [Writers \cup {Handler} -> {"user", "start", "thr", "asleep", "again"}]
      /\ tx \in 0..UART_TX_BUF_SIZE /\ UART_TX_BUF_SIZE \in Nat /\ fifo \in Nat
      /\ wr[Handler] \in {"user", "start", "thr"} /\ (h = "sending" <=> p = Handler)
  BY <1>2, TtySizes DEF OutPart, OutTypes, TxHeld
<1>4. CASE tx = 0 \/ fifo > 0
  <2>1. /\ wr' = [wr EXCEPT ![p] = "user"] /\ txlock' = Nobody /\ tx' = tx
        /\ h' = IF p = Handler THEN "idle" ELSE h
    BY <1>4 DEF Uartstart
  <2>2. /\ \A q \in Writers \cup {Handler} : wr'[q] = IF q = p THEN "user" ELSE wr[q]
        /\ wr' \in [Writers \cup {Handler} -> {"user", "start", "thr", "asleep", "again"}]
    BY <1>3, <2>1
  <2>3. OutTypes'
    BY <1>1, <1>3, <2>1, <2>2 DEF OutTypes
  <2>4. TxHeld'
    <3>1. ASSUME NEW q \in Writers \cup {Handler} PROVE txlock' = q <=> wr'[q] \in {"start", "thr"}
      <4>1. q # Nobody
        BY Apart
      <4>2. wr'[q] \in {"user", "asleep", "again"}
        BY <1>2, <2>2
      <4> QED
        BY <2>1, <4>1, <4>2
    <3>2. h' = "sending" <=> txlock' = Handler
      BY <1>3, <2>1, Apart
    <3>3. wr'[Handler] \in {"user", "start", "thr"}
      BY <1>3, <2>2
    <3> QED
      BY <3>1, <3>2, <3>3 DEF TxHeld
  <2>5. Blocked'
    <3> SUFFICES ASSUME NEW q \in Writers, wr'[q] = "asleep" PROVE tx' = UART_TX_BUF_SIZE
      BY DEF Blocked
    <3>1. wr[q] = "asleep"
      BY <2>2
    <3> QED
      BY <2>1, <3>1 DEF OutPart, Blocked
  <2>6. ~Sends'
    BY <2>1 DEF Sends
  <2>7. h' \in Echoes => h \in Echoes
    BY <2>1 DEF Echoes
  <2>8. Room2'
    BY <1>1, <1>2, <1>3, <2>6, <2>7 DEF OutPart, Room2
  <2>9. Noticed'
    BY <1>1, <1>3, <1>4, <2>1 DEF Noticed
  <2> QED
    BY <2>3, <2>4, <2>5, <2>8, <2>9 DEF OutPart
<1>5. CASE ~(tx = 0 \/ fifo > 0)
  <2>1. /\ tx' = tx - 1 /\ txlock' = txlock /\ h' = h
        /\ wr' = [q \in DOMAIN wr |-> IF q = p THEN "thr"
                                      ELSE IF wr[q] = "asleep" THEN "again" ELSE wr[q]]
    BY <1>5 DEF Uartstart
  <2>2. DOMAIN wr = Writers \cup {Handler}
    BY <1>3
  <2>3. \A q \in Writers \cup {Handler} :
          wr'[q] = IF q = p THEN "thr" ELSE IF wr[q] = "asleep" THEN "again" ELSE wr[q]
    BY <2>1, <2>2
  <2>4. wr' \in [Writers \cup {Handler} -> {"user", "start", "thr", "asleep", "again"}]
    BY <1>3, <2>1, <2>2
  <2>5. tx' \in 0..UART_TX_BUF_SIZE /\ fifo = 0
    BY <1>3, <1>5, <2>1
  <2>6. OutTypes'
    BY <1>1, <1>2, <1>3, <2>1, <2>4, <2>5 DEF OutTypes
  <2>7. TxHeld'
    <3>1. ASSUME NEW q \in Writers \cup {Handler} PROVE txlock' = q <=> wr'[q] \in {"start", "thr"}
      BY <1>2, <2>1, <2>3
    <3>2. h' = "sending" <=> txlock' = Handler
      BY <1>2, <1>3, <2>1
    <3>3. wr'[Handler] \in {"user", "start", "thr"}
      BY <1>3, <2>3
    <3> QED
      BY <3>1, <3>2, <3>3 DEF TxHeld
  <2>8. Blocked'
    <3>1. ASSUME NEW q \in Writers PROVE wr'[q] # "asleep"
      BY <2>3
    <3> QED
      BY <3>1 DEF Blocked
  <2>9. Room2'
    BY <1>1, <2>5 DEF Room2
  <2>10. Noticed'
    BY <1>2, <2>1 DEF Noticed
  <2> QED
    BY <2>6, <2>7, <2>8, <2>9, <2>10 DEF OutPart
<1> QED
  BY <1>4, <1>5

LEMMA UartstartWriteOut ==
  ASSUME OutPart, NEW p \in Writers \cup {Handler}, UartstartWrite(p)
  PROVE  OutPart'
<1>1. /\ wr[p] = "thr" /\ fifo' = fifo + 1 /\ wr' = [wr EXCEPT ![p] = "start"]
      /\ tx' = tx /\ txlock' = txlock /\ uirq' = uirq /\ h' = h
  BY DEF UartstartWrite
<1>2. txlock = p /\ p # Nobody /\ Sends
  BY <1>1, TheOne
<1>3. wr \in [Writers \cup {Handler} -> {"user", "start", "thr", "asleep", "again"}] /\ fifo \in Nat
  BY DEF OutPart, OutTypes
<1>4. /\ \A q \in Writers \cup {Handler} : wr'[q] = IF q = p THEN "start" ELSE wr[q]
      /\ wr' \in [Writers \cup {Handler} -> {"user", "start", "thr", "asleep", "again"}]
  BY <1>1, <1>3
<1>5. OutTypes'
  BY <1>1, <1>3, <1>4 DEF OutPart, OutTypes
<1>6. TxHeld'
  <2>1. ASSUME NEW q \in Writers \cup {Handler} PROVE txlock' = q <=> wr'[q] \in {"start", "thr"}
    <3>1. txlock = q <=> wr[q] \in {"start", "thr"}
      BY DEF OutPart, TxHeld
    <3> QED
      BY <1>1, <1>2, <1>4, <3>1
  <2>2. (h' = "sending" <=> txlock' = Handler) /\ wr'[Handler] \in {"user", "start", "thr"}
    BY <1>1, <1>4 DEF OutPart, TxHeld
  <2> QED
    BY <2>1, <2>2 DEF TxHeld
<1>7. Blocked'
  <2> SUFFICES ASSUME NEW q \in Writers, wr'[q] = "asleep" PROVE tx' = UART_TX_BUF_SIZE
    BY DEF Blocked
  <2>1. wr[q] = "asleep"
    BY <1>4
  <2> QED
    BY <1>1, <2>1 DEF OutPart, Blocked
<1>8. ~Sends'
  BY <1>1, <1>2, <1>4 DEF Sends
<1>9. Room2'
  BY <1>1, <1>2, <1>3, <1>8 DEF OutPart, Room2
<1>10. Noticed'
  BY <1>1, <1>3 DEF Noticed
<1> QED
  BY <1>5, <1>6, <1>7, <1>9, <1>10 DEF OutPart

-----------------------------------------------------------------------------
(* Assignments to the fields of cons. *)

LEMMA LockSet ==
  ASSUME NEW c \in Rings, NEW l \in Readers \cup {Handler, Nobody}
  PROVE  LET d == [c EXCEPT !.lock = l] IN
         d \in Rings /\ d.lock = l /\ d.r = c.r /\ d.w = c.w /\ d.e = c.e /\ d.buf = c.buf
BY DEF Rings

LEMMA RSet ==
  ASSUME NEW c \in Rings, NEW x \in 0..(Turn - 1)
  PROVE  LET d == [c EXCEPT !.r = x] IN
         d \in Rings /\ d.lock = c.lock /\ d.r = x /\ d.w = c.w /\ d.e = c.e /\ d.buf = c.buf
BY DEF Rings

LEMMA ESet ==
  ASSUME NEW c \in Rings, NEW x \in 0..(Turn - 1)
  PROVE  LET d == [c EXCEPT !.e = x] IN
         d \in Rings /\ d.lock = c.lock /\ d.r = c.r /\ d.w = c.w /\ d.e = x /\ d.buf = c.buf
BY DEF Rings

LEMMA WSet ==
  ASSUME NEW c \in Rings, NEW x \in 0..(Turn - 1)
  PROVE  LET d == [c EXCEPT !.w = x] IN
         d \in Rings /\ d.lock = c.lock /\ d.r = c.r /\ d.w = x /\ d.e = c.e /\ d.buf = c.buf
BY DEF Rings

LEMMA BufSet ==
  ASSUME NEW c \in Rings, NEW b \in [0..(INPUT_BUF_SIZE - 1) -> Chars]
  PROVE  LET d == [c EXCEPT !.buf = b] IN
         d \in Rings /\ d.lock = c.lock /\ d.r = c.r /\ d.w = c.w /\ d.e = c.e /\ d.buf = b
BY DEF Rings

LEMMA RingFields ==
  ASSUME NEW c \in Rings
  PROVE  /\ c.r \in 0..(Turn - 1) /\ c.w \in 0..(Turn - 1) /\ c.e \in 0..(Turn - 1)
         /\ c.buf \in [0..(INPUT_BUF_SIZE - 1) -> Chars]
         /\ c.lock \in Readers \cup {Handler, Nobody}
         /\ c.r \in Int /\ c.w \in Int /\ c.e \in Int
         /\ Up(c.r) \in 0..(Turn - 1) /\ Up(c.e) \in 0..(Turn - 1) /\ Down(c.e) \in 0..(Turn - 1)
         /\ Slot(c.r) \in 0..(INPUT_BUF_SIZE - 1) /\ Slot(c.e) \in 0..(INPUT_BUF_SIZE - 1)
         /\ c.buf[Slot(c.r)] \in Chars
<1>1. /\ c.r \in 0..(Turn - 1) /\ c.w \in 0..(Turn - 1) /\ c.e \in 0..(Turn - 1)
      /\ c.buf \in [0..(INPUT_BUF_SIZE - 1) -> Chars]
      /\ c.lock \in Readers \cup {Handler, Nobody}
  BY DEF Rings
<1>2. c.r \in Int /\ c.w \in Int /\ c.e \in Int
  BY <1>1
<1>3. Up(c.r) \in 0..(Turn - 1) /\ Up(c.e) \in 0..(Turn - 1) /\ Down(c.e) \in 0..(Turn - 1)
  BY <1>1, UpIs, DownIs
<1>4. Slot(c.r) \in 0..(INPUT_BUF_SIZE - 1) /\ Slot(c.e) \in 0..(INPUT_BUF_SIZE - 1)
  BY <1>2, SamePlace
<1>5. c.buf[Slot(c.r)] \in Chars
  BY <1>1, <1>4
<1> QED
  BY <1>1, <1>2, <1>3, <1>4, <1>5

\* What consoleintr() does to the buffer when it stores a character ...
After(c, b, w) ==
  [[c EXCEPT !.buf[Slot(c.e)] = b, !.e = Up(c.e), !.w = w] EXCEPT !.lock = Nobody]

LEMMA StoredIs ==
  ASSUME NEW c \in Rings, NEW b \in Chars, NEW w \in 0..(Turn - 1)
  PROVE  LET d == After(c, b, w) IN
         /\ d \in Rings /\ d.lock = Nobody /\ d.r = c.r /\ d.e = Up(c.e) /\ d.w = w
         /\ d.buf = [c.buf EXCEPT ![Slot(c.e)] = b]
<1> DEFINE i == Slot(c.e)
           e == Up(c.e)
           f == [c.buf EXCEPT ![i] = b]
           x == [c EXCEPT !.buf = f]
           y == [x EXCEPT !.e = e]
           z == [y EXCEPT !.w = w]
           d == [z EXCEPT !.lock = Nobody]
<1>1. /\ e \in 0..(Turn - 1) /\ c.buf \in [0..(INPUT_BUF_SIZE - 1) -> Chars]
      /\ Nobody \in Readers \cup {Handler, Nobody}
  BY RingFields
<1>2. d = After(c, b, w)
  BY DEF After
<1>3. e = Up(c.e) /\ f = [c.buf EXCEPT ![Slot(c.e)] = b]
  OBVIOUS
<1> HIDE DEF i, e
<1>4. f \in [0..(INPUT_BUF_SIZE - 1) -> Chars]
  BY <1>1
<1> HIDE DEF f
<1>5. x \in Rings /\ x.r = c.r /\ x.buf = f
  BY <1>4, BufSet
<1> HIDE DEF x
<1>6. y \in Rings /\ y.r = c.r /\ y.e = e /\ y.buf = f
  BY <1>1, <1>5, ESet
<1> HIDE DEF y
<1>7. z \in Rings /\ z.r = c.r /\ z.e = e /\ z.w = w /\ z.buf = f
  BY <1>1, <1>6, WSet
<1> HIDE DEF z
<1>8. d \in Rings /\ d.lock = Nobody /\ d.r = c.r /\ d.e = e /\ d.w = w /\ d.buf = f
  BY <1>1, <1>7, LockSet
<1> HIDE DEF d
<1> QED
  BY <1>2, <1>3, <1>8

\* ... or erases one, ...
LEMMA ErasedIs ==
  ASSUME NEW c \in Rings
  PROVE  LET d == [[c EXCEPT !.e = Down(@)] EXCEPT !.lock = Handler] IN
         /\ d \in Rings /\ d.lock = Handler /\ d.r = c.r /\ d.w = c.w /\ d.e = Down(c.e)
         /\ d.buf = c.buf
<1> DEFINE e == Down(c.e)
           x == [c EXCEPT !.e = e]
           d == [x EXCEPT !.lock = Handler]
<1>1. e \in 0..(Turn - 1) /\ e = Down(c.e) /\ Handler \in Readers \cup {Handler, Nobody}
  BY RingFields
<1>2. d = [[c EXCEPT !.e = Down(@)] EXCEPT !.lock = Handler]
  OBVIOUS
<1> HIDE DEF e
<1>3. x \in Rings /\ x.r = c.r /\ x.w = c.w /\ x.e = e /\ x.buf = c.buf
  BY <1>1, ESet
<1> HIDE DEF x
<1>4. d \in Rings /\ d.lock = Handler /\ d.r = c.r /\ d.w = c.w /\ d.e = e /\ d.buf = c.buf
  BY <1>1, <1>3, LockSet
<1> HIDE DEF d
<1> QED
  BY <1>1, <1>2, <1>4

\* ... and what consoleread() does when it returns, or goes on.
LEMMA DoneIs ==
  ASSUME NEW c \in Rings, NEW r \in 0..(Turn - 1)
  PROVE  LET d == [c EXCEPT !.r = r, !.lock = Nobody] IN
         d \in Rings /\ d.lock = Nobody /\ d.r = r /\ d.w = c.w /\ d.e = c.e /\ d.buf = c.buf
<1> DEFINE x == [c EXCEPT !.r = r]
           d == [x EXCEPT !.lock = Nobody]
<1>1. d = [c EXCEPT !.r = r, !.lock = Nobody] /\ Nobody \in Readers \cup {Handler, Nobody}
  OBVIOUS
<1>2. x \in Rings /\ x.r = r /\ x.w = c.w /\ x.e = c.e /\ x.buf = c.buf
  BY RSet
<1> HIDE DEF x
<1>3. d \in Rings /\ d.lock = Nobody /\ d.r = r /\ d.w = c.w /\ d.e = c.e /\ d.buf = c.buf
  BY <1>1, <1>2, LockSet
<1> HIDE DEF d
<1> QED
  BY <1>1, <1>3

-----------------------------------------------------------------------------
(* Input: the readers and the interrupt handler. *)

\* A step that leaves the buffer and the readers alone.
LEMMA InKept ==
  ASSUME InPart, cons' = cons, rd' = rd, left' = left, doomed' = doomed, taken' = taken,
         rx' \in Chars \cup Controls \cup {"none"}, hc' \in Chars \cup Controls \cup {"none"},
         uirq' \in BOOLEAN, h' \in Places, h' \in Holds <=> h \in Holds,
         h' \in Stores => h \in Stores /\ hc' = hc
  PROVE  InPart'
<1>1. InTypes'
  BY DEF InPart, InTypes
<1>2. Fits'
  BY DEF InPart, Fits, Ready, Typed
<1>3. Echoed'
  BY DEF InPart, Echoed, Ready, Typed
<1>4. ConsHeld'
  BY DEF InPart, ConsHeld
<1>5. Starved'
  BY DEF InPart, Starved
<1> QED
  BY <1>1, <1>2, <1>3, <1>4, <1>5 DEF InPart

\* A step of the handler in consoleintr().
LEMMA HandlerIn ==
  ASSUME InPart, cons.lock \in {Handler, Nobody},
         cons' \in Rings, cons'.lock \in {Handler, Nobody}, cons'.lock = Handler <=> h' \in Holds,
         h' \in Places, cons'.r = cons.r, Fits', Echoed',
         rd' \in [Readers -> {"user", "loop", "empty", "asleep", "again"}],
         \A p \in Readers : rd'[p] = rd[p] \/ (rd[p] = "asleep" /\ rd'[p] = "again"),
         cons'.w = cons.w \/ \A p \in Readers : rd'[p] # "asleep",
         left' = left, doomed' = doomed, taken' = taken, rx' = rx, hc' = hc, uirq' = uirq
  PROVE  InPart'
<1>1. InTypes'
  BY DEF InPart, InTypes
<1>2. ASSUME NEW p \in Readers PROVE rd[p] \notin {"loop", "empty"} /\ rd'[p] \notin {"loop", "empty"}
  <2>1. cons.lock # p /\ (cons.lock = p <=> rd[p] \in {"loop", "empty"})
    BY Apart DEF InPart, ConsHeld
  <2> QED
    BY <2>1
<1>3. ConsHeld'
  <2>1. ASSUME NEW p \in Readers PROVE cons'.lock = p <=> rd'[p] \in {"loop", "empty"}
    BY <1>2, Apart
  <2> QED
    BY <2>1 DEF ConsHeld
<1>4. Starved'
  <2> SUFFICES ASSUME NEW p \in Readers, rd'[p] \in {"empty", "asleep"} PROVE cons'.r = cons'.w
    BY DEF Starved
  <2>1. rd'[p] = "asleep" /\ rd[p] = "asleep" /\ cons'.w = cons.w
    BY <1>2
  <2>2. cons.r = cons.w
    BY <2>1 DEF InPart, Starved
  <2> QED
    BY <2>1, <2>2
<1> QED
  BY <1>1, <1>3, <1>4 DEF InPart

\* A step of reader p, with cons.lock or taking it.
LEMMA ReaderIn ==
  ASSUME InPart, NEW p \in Readers, cons.lock \in {p, Nobody},
         cons' \in Rings, cons'.lock \in {p, Nobody},
         cons'.lock = p <=> rd'[p] \in {"loop", "empty"},
         cons'.w = cons.w, cons'.r = cons.r \/ cons.r # cons.w, Fits',
         rd' \in [Readers -> {"user", "loop", "empty", "asleep", "again"}],
         \A q \in Readers : q # p => rd'[q] = rd[q],
         rd'[p] \in {"empty", "asleep"} => cons'.r = cons'.w,
         left' \in [Readers -> [n : Nat, target : Nat]], doomed' \subseteq Readers,
         taken' \in Chars, rx' = rx, hc' = hc, uirq' = uirq, h' = h
  PROVE  InPart'
<1>1. InTypes'
  BY DEF InPart, InTypes
<1>2. cons.lock # Handler /\ cons'.lock # Handler /\ p # Nobody
  BY Apart
<1>3. h \notin Holds /\ h \notin Stores
  BY <1>2 DEF InPart, ConsHeld, Holds, Stores
<1>4. Echoed'
  BY <1>3 DEF Echoed
<1>5. ConsHeld'
  <2>1. ASSUME NEW q \in Readers PROVE cons'.lock = q <=> rd'[q] \in {"loop", "empty"}
    <3>1. q # Nobody /\ (cons.lock = q <=> rd[q] \in {"loop", "empty"})
      BY Apart DEF InPart, ConsHeld
    <3>2. CASE q # p
      BY <3>1, <3>2
    <3> QED
      BY <3>2
  <2> QED
    BY <1>2, <1>3, <2>1 DEF ConsHeld
<1>6. Starved'
  <2> SUFFICES ASSUME NEW q \in Readers, rd'[q] \in {"empty", "asleep"} PROVE cons'.r = cons'.w
    BY DEF Starved
  <2>1. CASE q # p
    <3>1. cons.r = cons.w
      BY <2>1 DEF InPart, Starved
    <3> QED
      BY <3>1
  <2> QED
    BY <2>1
<1> QED
  BY <1>1, <1>4, <1>5, <1>6 DEF InPart

LEMMA Labels ==
  /\ {"idle", "get", "char", "tx", "sending"} \cap Holds = {}
  /\ Echoes \subseteq Holds /\ Stores \subseteq Holds /\ Holds \subseteq Places
BY DEF Holds, Echoes, Stores, Places

\* A step that leaves cons as it is but for the lock.
LEMMA Held ==
  ASSUME InPart, cons' \in Rings, cons'.r = cons.r, cons'.w = cons.w, cons'.e = cons.e
  PROVE  /\ Ready(cons') = Ready(cons) /\ Typed(cons') = Typed(cons) /\ Fits'
         /\ Ready(cons) \in Nat /\ Typed(cons) \in Nat
<1>1. Ready(cons') = Ready(cons) /\ Typed(cons') = Typed(cons)
  BY DEF Ready, Typed
<1>2. Ready(cons) \in Nat /\ Typed(cons) \in Nat
  BY PartsAre DEF InPart, InTypes, Fits
<1> QED
  BY <1>1, <1>2 DEF InPart, Fits

\* The handler keeps or takes cons.lock, or leaves it, and does nothing else.
LEMMA JustLock ==
  ASSUME InPart, cons.lock \in {Handler, Nobody}, NEW l \in {Handler, Nobody},
         cons' = [cons EXCEPT !.lock = l], l = Handler <=> h' \in Holds, h' \in Places,
         h' \in Stores => hc \in Chars /\ Ready(cons) + Typed(cons) < INPUT_BUF_SIZE,
         rd' = rd, left' = left, doomed' = doomed, taken' = taken, rx' = rx, hc' = hc, uirq' = uirq
  PROVE  InPart'
<1>1. cons \in Rings /\ rd \in [Readers -> {"user", "loop", "empty", "asleep", "again"}]
  BY DEF InPart, InTypes
<1>2. /\ cons' \in Rings /\ cons'.lock = l /\ cons'.r = cons.r /\ cons'.w = cons.w
      /\ cons'.e = cons.e
  BY <1>1, LockSet
<1>3. Ready(cons') = Ready(cons) /\ Typed(cons') = Typed(cons) /\ Fits'
  BY <1>2, Held
<1>4. Echoed'
  BY <1>3 DEF Echoed
<1> QED
  BY <1>1, <1>2, <1>3, <1>4, HandlerIn

\* The handler erases one character, with the echo still to do.
LEMMA Erased ==
  ASSUME InPart, cons.lock \in {Handler, Nobody}, Erasable,
         cons' = [[cons EXCEPT !.e = Down(@)] EXCEPT !.lock = Handler],
         h' \in {"echo_erase", "echo_kill"},
         rd' = rd, left' = left, doomed' = doomed, taken' = taken, rx' = rx, hc' = hc, uirq' = uirq
  PROVE  InPart' /\ Ready(cons') = Ready(cons) /\ Typed(cons') = Typed(cons) - 1
<1>1. /\ cons \in Rings /\ Ready(cons) + Typed(cons) <= INPUT_BUF_SIZE
      /\ rd \in [Readers -> {"user", "loop", "empty", "asleep", "again"}]
  BY DEF InPart, InTypes, Fits
<1>2. /\ cons' \in Rings /\ cons'.lock = Handler /\ cons'.r = cons.r /\ cons'.w = cons.w
      /\ cons'.e = Down(cons.e)
  BY <1>1, ErasedIs
<1>3. Ready(cons') = Ready(cons) /\ Typed(cons') = Typed(cons) - 1
  BY <1>1, <1>2, OneErased DEF Erasable
<1>4. Ready(cons) \in Nat /\ Typed(cons) \in Nat
  BY <1>1, PartsAre
<1>5. Fits'
  BY <1>1, <1>3, <1>4, TtySizes DEF Fits
<1>6. h' \in Holds /\ h' \in Places /\ h' \notin Stores
  BY DEF Holds, Places, Stores
<1>7. Echoed'
  BY <1>6 DEF Echoed
<1>8. InPart'
  BY <1>1, <1>2, <1>5, <1>6, <1>7, HandlerIn
<1> QED
  BY <1>3, <1>8

LEMMA ConsoleintrIn ==
  ASSUME InPart, Consoleintr
  PROVE  InPart'
<1>1. /\ h = "char" /\ cons.lock = Nobody
      /\ rd' = rd /\ left' = left /\ doomed' = doomed /\ taken' = taken /\ rx' = rx /\ hc' = hc
      /\ uirq' = uirq
  BY DEF Consoleintr
<1>2. \/ /\ h' \in {"kill", "get"}
         /\ cons' = [cons EXCEPT !.lock = IF h' = "kill" THEN Handler ELSE Nobody]
      \/ /\ Erasable /\ h' = "echo_erase"
         /\ cons' = [[cons EXCEPT !.e = Down(@)] EXCEPT !.lock = Handler]
      \/ /\ hc \in Chars /\ Span(cons.e, cons.r) < INPUT_BUF_SIZE /\ h' = "echo_put"
         /\ cons' = [cons EXCEPT !.lock = Handler]
  BY DEF Consoleintr, HoldCons, LeaveCons
<1>3. CASE /\ h' \in {"kill", "get"}
           /\ cons' = [cons EXCEPT !.lock = IF h' = "kill" THEN Handler ELSE Nobody]
  <2>1. PICK l \in {Handler, Nobody} : l = IF h' = "kill" THEN Handler ELSE Nobody
    OBVIOUS
  <2>2. cons' = [cons EXCEPT !.lock = l]
    BY <1>3, <2>1
  <2>3. (l = Handler <=> h' \in Holds) /\ h' \in Places /\ h' \notin Stores
    BY <1>3, <2>1, Apart DEF Holds, Places, Stores
  <2> QED
    BY <1>1, <2>2, <2>3, JustLock
<1>4. CASE /\ Erasable /\ h' = "echo_erase"
           /\ cons' = [[cons EXCEPT !.e = Down(@)] EXCEPT !.lock = Handler]
  BY <1>1, <1>4, Erased
<1>5. CASE /\ hc \in Chars /\ Span(cons.e, cons.r) < INPUT_BUF_SIZE /\ h' = "echo_put"
           /\ cons' = [cons EXCEPT !.lock = Handler]
  <2>1. Ready(cons) + Typed(cons) < INPUT_BUF_SIZE
    BY <1>5, PartsAre DEF InPart, InTypes, Fits
  <2>2. PICK l \in {Handler, Nobody} : l = Handler
    OBVIOUS
  <2>3. (l = Handler <=> h' \in Holds) /\ h' \in Places /\ cons' = [cons EXCEPT !.lock = l]
    BY <1>5, <2>2 DEF Holds, Places
  <2> QED
    BY <1>1, <1>5, <2>1, <2>3, JustLock
<1> QED
  BY <1>2, <1>3, <1>4, <1>5

LEMMA KillLineIn ==
  ASSUME InPart, KillLine
  PROVE  InPart'
<1>1. /\ h = "kill"
      /\ rd' = rd /\ left' = left /\ doomed' = doomed /\ taken' = taken /\ rx' = rx /\ hc' = hc
      /\ uirq' = uirq
  BY DEF KillLine
<1>2. cons.lock = Handler
  BY <1>1 DEF InPart, ConsHeld, Holds
<1>3. \/ /\ Erasable /\ h' = "echo_kill"
         /\ cons' = [[cons EXCEPT !.e = Down(@)] EXCEPT !.lock = Handler]
      \/ h' = "get" /\ cons' = [cons EXCEPT !.lock = Nobody]
  BY DEF KillLine, HoldCons, LeaveCons
<1>4. CASE /\ Erasable /\ h' = "echo_kill"
           /\ cons' = [[cons EXCEPT !.e = Down(@)] EXCEPT !.lock = Handler]
  BY <1>1, <1>2, <1>4, Erased
<1>5. CASE h' = "get" /\ cons' = [cons EXCEPT !.lock = Nobody]
  <2>1. PICK l \in {Handler, Nobody} : l = Nobody
    OBVIOUS
  <2>2. (l = Handler <=> h' \in Holds) /\ h' \in Places /\ h' \notin Stores
    BY <1>5, <2>1, Apart DEF Holds, Places, Stores
  <2>3. cons' = [cons EXCEPT !.lock = l]
    BY <1>5, <2>1
  <2> QED
    BY <1>1, <1>2, <2>2, <2>3, JustLock
<1> QED
  BY <1>3, <1>4, <1>5

LEMMA ConsoleErasedIn ==
  ASSUME InPart, ConsoleErased
  PROVE  InPart'
<1>1. /\ h = "done" /\ h' = "get" /\ cons' = [cons EXCEPT !.lock = Nobody]
      /\ rd' = rd /\ left' = left /\ doomed' = doomed /\ taken' = taken /\ rx' = rx /\ hc' = hc
      /\ uirq' = uirq
  BY DEF ConsoleErased, LeaveCons
<1>2. cons.lock = Handler
  BY <1>1 DEF InPart, ConsHeld, Holds
<1>3. PICK l \in {Handler, Nobody} : l = Nobody
  OBVIOUS
<1>4. (l = Handler <=> h' \in Holds) /\ h' \in Places /\ h' \notin Stores
  BY <1>1, <1>3, Apart DEF Holds, Places, Stores
<1>5. cons' = [cons EXCEPT !.lock = l]
  BY <1>1, <1>3
<1> QED
  BY <1>1, <1>2, <1>4, <1>5, JustLock

\* The step at the end of consoleintr(): c is stored, and the line may end with it.
EndsLine == hc \in {"nl", "eof"} \/ Span(Up(cons.e), cons.r) = INPUT_BUF_SIZE

LEMMA Stored ==
  ASSUME InPart, ConsoleStore
  PROVE  /\ hc \in Chars /\ Ready(cons) + Typed(cons) < INPUT_BUF_SIZE
         /\ cons' \in Rings /\ cons'.lock = Nobody /\ cons'.r = cons.r /\ cons'.e = Up(cons.e)
         /\ cons'.w = IF EndsLine THEN Up(cons.e) ELSE cons.w
         /\ cons'.buf = [cons.buf EXCEPT ![Slot(cons.e)] = hc]
<1>1. hc \in Chars /\ Ready(cons) + Typed(cons) < INPUT_BUF_SIZE /\ cons \in Rings
  BY DEF ConsoleStore, InPart, InTypes, Echoed, Stores
<1>2. PICK c \in Rings, b \in Chars : c = cons /\ b = hc
  BY <1>1
<1>3. PICK w \in 0..(Turn - 1) : w = IF EndsLine THEN Up(cons.e) ELSE cons.w
  BY <1>1, RingFields
<1>4. cons' = [[cons EXCEPT !.buf[Slot(cons.e)] = hc, !.e = Up(cons.e),
                            !.w = IF EndsLine THEN Up(cons.e) ELSE cons.w] EXCEPT !.lock = Nobody]
  BY DEF ConsoleStore, LeaveCons, EndsLine
<1>5. cons' = [[c EXCEPT !.buf[Slot(c.e)] = b, !.e = Up(c.e), !.w = w] EXCEPT !.lock = Nobody]
  BY <1>2, <1>3, <1>4
<1>6. /\ cons' \in Rings /\ cons'.lock = Nobody /\ cons'.r = c.r /\ cons'.e = Up(c.e)
      /\ cons'.w = w
      /\ cons'.buf = [c.buf EXCEPT ![Slot(c.e)] = b]
  <2> DEFINE d == After(c, b, w)
  <2>1. /\ d \in Rings /\ d.lock = Nobody /\ d.r = c.r /\ d.e = Up(c.e) /\ d.w = w
        /\ d.buf = [c.buf EXCEPT ![Slot(c.e)] = b]
    BY StoredIs
  <2>2. cons' = d
    BY <1>5 DEF After
  <2> HIDE DEF d
  <2> QED
    BY <2>1, <2>2
<1> QED
  BY <1>1, <1>2, <1>3, <1>6

LEMMA StoredParts ==
  ASSUME InPart, ConsoleStore
  PROVE  /\ Ready(cons') = IF EndsLine THEN Ready(cons) + Typed(cons) + 1 ELSE Ready(cons)
         /\ Typed(cons') = IF EndsLine THEN 0 ELSE Typed(cons) + 1
         /\ Ready(cons) \in Nat /\ Typed(cons) \in Nat
<1>1. /\ cons \in Rings /\ cons' \in Rings /\ Ready(cons) + Typed(cons) < INPUT_BUF_SIZE
      /\ cons'.r = cons.r /\ cons'.e = Up(cons.e)
      /\ cons'.w = IF EndsLine THEN Up(cons.e) ELSE cons.w
  BY Stored DEF InPart, InTypes
<1>4. Ready(cons) \in Nat /\ Typed(cons) \in Nat
  BY PartsAre DEF InPart, InTypes, Fits
<1>9. PICK c \in Rings, d \in Rings : c = cons /\ d = cons'
  BY <1>1
<1>2. CASE EndsLine
  <2>1. d.r = c.r /\ d.w = Up(c.e) /\ d.e = Up(c.e) /\ Ready(c) + Typed(c) < INPUT_BUF_SIZE
    BY <1>1, <1>2, <1>9
  <2>2. Ready(d) = Ready(c) + Typed(c) + 1 /\ Typed(d) = 0
    BY <2>1, LineEnds
  <2> QED
    BY <1>2, <1>4, <1>9, <2>2
<1>3. CASE ~EndsLine
  <2>1. d.r = c.r /\ d.w = c.w /\ d.e = Up(c.e) /\ Ready(c) + Typed(c) < INPUT_BUF_SIZE
    BY <1>1, <1>3, <1>9
  <2>2. Ready(d) = Ready(c) /\ Typed(d) = Typed(c) + 1
    BY <2>1, OneMore
  <2> QED
    BY <1>3, <1>4, <1>9, <2>2
<1> QED
  BY <1>2, <1>3, <1>4

LEMMA ConsoleStoreIn ==
  ASSUME InPart, ConsoleStore
  PROVE  InPart'
<1>1. /\ h = "put" /\ h' = "get" /\ left' = left /\ doomed' = doomed /\ taken' = taken
      /\ rx' = rx /\ hc' = hc /\ uirq' = uirq
      /\ rd' = [p \in Readers |-> IF EndsLine /\ rd[p] = "asleep" THEN "again" ELSE rd[p]]
  BY DEF ConsoleStore, LeaveCons, EndsLine
<1>2. cons.lock = Handler
  BY <1>1 DEF InPart, ConsHeld, Holds
<1>3. rd \in [Readers -> {"user", "loop", "empty", "asleep", "again"}]
  BY DEF InPart, InTypes
<1>4. rd' \in [Readers -> {"user", "loop", "empty", "asleep", "again"}]
  BY <1>1, <1>3
<1>5. \A p \in Readers : rd'[p] = IF EndsLine /\ rd[p] = "asleep" THEN "again" ELSE rd[p]
  BY <1>1
<1>6. /\ cons' \in Rings /\ cons'.lock = Nobody /\ cons'.r = cons.r
      /\ cons'.w = (IF EndsLine THEN Up(cons.e) ELSE cons.w)
      /\ Ready(cons) + Typed(cons) < INPUT_BUF_SIZE
  BY Stored
<1>7. Fits'
  BY <1>6, StoredParts, TtySizes DEF Fits
<1>8. h' \in Places /\ h' \notin Holds /\ h' \notin Stores
  BY <1>1 DEF Places, Holds, Stores
<1>9. Echoed'
  BY <1>8 DEF Echoed
<1>10. cons'.w = cons.w \/ \A p \in Readers : rd'[p] # "asleep"
  BY <1>5, <1>6
<1>11. cons'.lock # Handler
  BY <1>6, Apart
<1> QED
  BY <1>1, <1>2, <1>4, <1>5, <1>6, <1>7, <1>8, <1>9, <1>10, <1>11, HandlerIn

\* The reader takes cons.lock, or leaves it to sleep; the buffer stays as it is.
LEMMA ReaderLock ==
  ASSUME InPart, NEW p \in Readers, cons.lock \in {p, Nobody}, NEW l \in {p, Nobody},
         NEW a \in {"loop", "empty", "asleep"}, l = p <=> a # "asleep",
         cons' = [cons EXCEPT !.lock = l], rd' = [rd EXCEPT ![p] = a],
         a # "loop" => cons.r = cons.w,
         left' \in [Readers -> [n : Nat, target : Nat]], doomed' = doomed, taken' = taken,
         rx' = rx, hc' = hc, uirq' = uirq, h' = h
  PROVE  InPart'
<1>1. /\ cons \in Rings /\ rd \in [Readers -> {"user", "loop", "empty", "asleep", "again"}]
      /\ doomed \subseteq Readers /\ taken \in Chars
  BY DEF InPart, InTypes
<1>2. /\ cons' \in Rings /\ cons'.lock = l /\ cons'.r = cons.r /\ cons'.w = cons.w
      /\ cons'.e = cons.e
  BY <1>1, LockSet
<1>3. Fits'
  BY <1>2, Held
<1>4. /\ rd' \in [Readers -> {"user", "loop", "empty", "asleep", "again"}] /\ rd'[p] = a
      /\ \A q \in Readers : q # p => rd'[q] = rd[q]
  BY <1>1
<1>5. cons'.lock = p <=> rd'[p] \in {"loop", "empty"}
  BY <1>2, <1>4
<1> QED
  BY <1>1, <1>2, <1>3, <1>4, <1>5, ReaderIn

LEMMA ReadBeginIn ==
  ASSUME InPart, NEW p \in Readers, ReadBegin(p)
  PROVE  InPart'
<1>1. PICK n \in Targets : left' = [left EXCEPT ![p] = [n |-> n, target |-> n]]
  BY DEF ReadBegin
<1>2. left' \in [Readers -> [n : Nat, target : Nat]]
  <2>1. n \in Nat /\ left \in [Readers -> [n : Nat, target : Nat]]
    BY TtySizes DEF InPart, InTypes
  <2> QED
    BY <1>1, <2>1
<1>3. /\ cons.lock = Nobody /\ cons' = [cons EXCEPT !.lock = p] /\ rd' = [rd EXCEPT ![p] = "loop"]
      /\ doomed' = doomed /\ taken' = taken /\ rx' = rx /\ hc' = hc /\ uirq' = uirq /\ h' = h
  BY DEF ReadBegin
<1>4. PICK l \in {p, Nobody}, a \in {"loop", "empty", "asleep"} : l = p /\ a = "loop"
  OBVIOUS
<1>5. cons' = [cons EXCEPT !.lock = l] /\ rd' = [rd EXCEPT ![p] = a]
  BY <1>3, <1>4
<1> QED
  BY <1>2, <1>3, <1>4, <1>5, ReaderLock

LEMMA ReadAgainIn ==
  ASSUME InPart, NEW p \in Readers, ReadAgain(p)
  PROVE  InPart'
<1>1. /\ cons.lock = Nobody /\ cons' = [cons EXCEPT !.lock = p] /\ rd' = [rd EXCEPT ![p] = "loop"]
      /\ left' = left /\ doomed' = doomed /\ taken' = taken /\ rx' = rx /\ hc' = hc
      /\ uirq' = uirq /\ h' = h
  BY DEF ReadAgain
<1>2. left \in [Readers -> [n : Nat, target : Nat]]
  BY DEF InPart, InTypes
<1>3. PICK l \in {p, Nobody}, a \in {"loop", "empty", "asleep"} : l = p /\ a = "loop"
  OBVIOUS
<1>4. cons' = [cons EXCEPT !.lock = l] /\ rd' = [rd EXCEPT ![p] = a]
  BY <1>1, <1>3
<1> QED
  BY <1>1, <1>2, <1>3, <1>4, ReaderLock

\* Where the reader has cons.lock.
LEMMA Reading ==
  ASSUME InPart, NEW p \in Readers, rd[p] \in {"loop", "empty"}
  PROVE  cons.lock = p
BY DEF InPart, ConsHeld

LEMMA ReadSleepsIn ==
  ASSUME InPart, NEW p \in Readers, ReadSleeps(p)
  PROVE  InPart'
<1>1. /\ rd[p] = "empty" /\ cons' = [cons EXCEPT !.lock = Nobody] /\ rd' = [rd EXCEPT ![p] = "asleep"]
      /\ left' = left /\ doomed' = doomed /\ taken' = taken /\ rx' = rx /\ hc' = hc
      /\ uirq' = uirq /\ h' = h
  BY DEF ReadSleeps
<1>2. cons.lock = p /\ cons.r = cons.w /\ left \in [Readers -> [n : Nat, target : Nat]] /\ p # Nobody
  BY <1>1, Reading, Apart DEF InPart, Starved, InTypes
<1>3. PICK l \in {p, Nobody}, a \in {"loop", "empty", "asleep"} : l = Nobody /\ a = "asleep"
  OBVIOUS
<1>4. cons' = [cons EXCEPT !.lock = l] /\ rd' = [rd EXCEPT ![p] = a]
  BY <1>1, <1>3
<1> QED
  BY <1>1, <1>2, <1>3, <1>4, ReaderLock

\* read() returns, with one character less in the buffer or not.
LEMMA DoneIn ==
  ASSUME InPart, NEW p \in Readers, rd[p] = "loop", NEW r, Done(p, r),
         r = cons.r \/ (r = Up(cons.r) /\ cons.r # cons.w), taken' \in Chars,
         rx' = rx, hc' = hc, uirq' = uirq, h' = h
  PROVE  InPart' /\ cons' \in Rings /\ cons'.buf = cons.buf
                 /\ cons'.r = r /\ cons'.w = cons.w /\ cons'.e = cons.e
<1>1. /\ cons \in Rings /\ rd \in [Readers -> {"user", "loop", "empty", "asleep", "again"}]
      /\ left \in [Readers -> [n : Nat, target : Nat]]
      /\ doomed \subseteq Readers /\ cons.lock = p /\ p # Nobody
  BY Reading, Apart DEF InPart, InTypes
<1>2. /\ cons' = [cons EXCEPT !.r = r, !.lock = Nobody] /\ rd' = [rd EXCEPT ![p] = "user"]
      /\ left' = [left EXCEPT ![p] = [n |-> 0, target |-> 0]] /\ doomed' = doomed \ {p}
  BY DEF Done
<1>3. r \in 0..(Turn - 1)
  BY <1>1, RingFields
<1>4. /\ cons' \in Rings /\ cons'.lock = Nobody /\ cons'.r = r /\ cons'.w = cons.w
      /\ cons'.e = cons.e /\ cons'.buf = cons.buf
  BY <1>1, <1>2, <1>3, DoneIs
<1>5. Fits'
  <2>1. CASE r = cons.r
    BY <1>4, <2>1, Held
  <2>2. CASE r = Up(cons.r) /\ cons.r # cons.w
    <3>1. PICK c \in Rings, d \in Rings : c = cons /\ d = cons'
      BY <1>1, <1>4
    <3>2. /\ Ready(c) + Typed(c) <= INPUT_BUF_SIZE /\ c.r # c.w /\ d.r = Up(c.r) /\ d.w = c.w
          /\ d.e = c.e
      BY <1>4, <2>2, <3>1 DEF InPart, Fits
    <3>3. /\ Ready(d) = Ready(c) - 1 /\ Typed(d) = Typed(c)
          /\ Ready(c) \in 0..INPUT_BUF_SIZE /\ Typed(c) \in 0..INPUT_BUF_SIZE
      BY <3>2, OneLess, PartsAre
    <3>4. Ready(d) + Typed(d) <= INPUT_BUF_SIZE
      BY <3>2, <3>3, TtySizes
    <3> QED
      BY <3>1, <3>4 DEF Fits
  <2> QED
    BY <2>1, <2>2
<1>6. /\ rd' \in [Readers -> {"user", "loop", "empty", "asleep", "again"}] /\ rd'[p] = "user"
      /\ \A q \in Readers : q # p => rd'[q] = rd[q]
      /\ left' \in [Readers -> [n : Nat, target : Nat]] /\ doomed' \subseteq Readers
  BY <1>1, <1>2
<1>7. cons'.lock \in {p, Nobody} /\ (cons'.lock = p <=> rd'[p] \in {"loop", "empty"})
  BY <1>1, <1>4, <1>6
<1>8. cons'.r = cons.r \/ cons.r # cons.w
  BY <1>4
<1>9. InPart'
  BY <1>1, <1>4, <1>5, <1>6, <1>7, <1>8, ReaderIn
<1> QED
  BY <1>4, <1>9

\* The turns of the loop of consoleread(), and what each means to the line buffer.
LEMMA ReadLoopCases ==
  ASSUME InPart, NEW p \in Readers, ReadLoop(p)
  PROVE  \/ Done(p, cons.r) /\ taken' = taken
         \/ /\ Done(p, Up(cons.r)) /\ cons.r # cons.w /\ taken' = cons.buf[Slot(cons.r)]
         \/ /\ cons.r = cons.w /\ rd' = [rd EXCEPT ![p] = "empty"]
            /\ cons' = cons /\ left' = left /\ doomed' = doomed /\ taken' = taken
         \/ /\ cons.r # cons.w /\ left[p].n > 0
            /\ cons' = [cons EXCEPT !.r = Up(@)] /\ taken' = cons.buf[Slot(cons.r)]
            /\ left' = [left EXCEPT ![p].n = left[p].n - 1] /\ rd' = rd /\ doomed' = doomed
BY DEF ReadLoop

LEMMA ReadLoopIn ==
  ASSUME InPart, NEW p \in Readers, ReadLoop(p)
  PROVE  InPart' /\ cons' \in Rings /\ cons'.buf = cons.buf /\ cons'.w = cons.w /\ cons'.e = cons.e
         /\ \/ cons'.r = cons.r /\ taken' = taken
            \/ cons'.r = Up(cons.r) /\ cons.r # cons.w /\ taken' = cons.buf[Slot(cons.r)]
<1>1. rd[p] = "loop" /\ rx' = rx /\ hc' = hc /\ uirq' = uirq /\ h' = h
  BY DEF ReadLoop
<1>2. /\ cons \in Rings /\ rd \in [Readers -> {"user", "loop", "empty", "asleep", "again"}]
      /\ left \in [Readers -> [n : Nat, target : Nat]] /\ taken \in Chars
      /\ doomed \subseteq Readers /\ cons.lock = p /\ cons.buf[Slot(cons.r)] \in Chars
  BY <1>1, Reading, RingFields DEF InPart, InTypes
<1>3. CASE Done(p, cons.r) /\ taken' = taken
  <2>1. PICK r : r = cons.r
    OBVIOUS
  <2>2. Done(p, r) /\ taken' \in Chars
    BY <1>2, <1>3, <2>1
  <2>3. InPart' /\ cons' \in Rings /\ cons'.buf = cons.buf
        /\ cons'.r = r /\ cons'.w = cons.w /\ cons'.e = cons.e
    BY <1>1, <2>1, <2>2, DoneIn
  <2> QED
    BY <1>3, <2>1, <2>3
<1>4. CASE /\ Done(p, Up(cons.r)) /\ cons.r # cons.w /\ taken' = cons.buf[Slot(cons.r)]
  <2>1. PICK r : r = Up(cons.r)
    OBVIOUS
  <2>2. Done(p, r) /\ taken' \in Chars
    BY <1>2, <1>4, <2>1
  <2>3. InPart' /\ cons' \in Rings /\ cons'.buf = cons.buf
        /\ cons'.r = r /\ cons'.w = cons.w /\ cons'.e = cons.e
    BY <1>1, <1>4, <2>1, <2>2, DoneIn
  <2> QED
    BY <1>4, <2>1, <2>3
<1>5. CASE /\ cons.r = cons.w /\ rd' = [rd EXCEPT ![p] = "empty"]
           /\ cons' = cons /\ left' = left /\ doomed' = doomed /\ taken' = taken
  <2>1. PICK a \in {"loop", "empty", "asleep"}, l \in {p, Nobody} : a = "empty" /\ l = p
    OBVIOUS
  <2>2. cons' \in Rings /\ cons' = [cons EXCEPT !.lock = l]
    BY <1>2, <1>5, <2>1 DEF Rings
  <2>3. rd' = [rd EXCEPT ![p] = a] /\ left' \in [Readers -> [n : Nat, target : Nat]]
    BY <1>2, <1>5, <2>1
  <2>4. InPart'
    BY <1>1, <1>2, <1>5, <2>1, <2>2, <2>3, ReaderLock
  <2> QED
    BY <1>5, <2>2, <2>4
<1>6. CASE /\ cons.r # cons.w /\ left[p].n > 0
           /\ cons' = [cons EXCEPT !.r = Up(@)] /\ taken' = cons.buf[Slot(cons.r)]
           /\ left' = [left EXCEPT ![p].n = left[p].n - 1] /\ rd' = rd /\ doomed' = doomed
  <2>1. PICK x \in 0..(Turn - 1) : x = Up(cons.r)
    BY <1>2, RingFields
  <2>2. cons' = [cons EXCEPT !.r = x]
    BY <1>6, <2>1
  <2>3. /\ cons' \in Rings /\ cons'.lock = p /\ cons'.r = x /\ cons'.w = cons.w
        /\ cons'.e = cons.e /\ cons'.buf = cons.buf
    BY <1>2, <2>2, RSet
  <2>4. PICK c \in Rings, d \in Rings : c = cons /\ d = cons'
    BY <1>2, <2>3
  <2>5. /\ Ready(c) + Typed(c) <= INPUT_BUF_SIZE /\ c.r # c.w /\ d.r = Up(c.r) /\ d.w = c.w
        /\ d.e = c.e
    BY <1>6, <2>1, <2>3, <2>4 DEF InPart, Fits
  <2>6. /\ Ready(d) = Ready(c) - 1 /\ Typed(d) = Typed(c)
        /\ Ready(c) \in 0..INPUT_BUF_SIZE /\ Typed(c) \in 0..INPUT_BUF_SIZE
    BY <2>5, OneLess, PartsAre
  <2>7. Ready(d) + Typed(d) <= INPUT_BUF_SIZE
    BY <2>5, <2>6, TtySizes
  <2>8. Fits'
    BY <2>4, <2>7 DEF Fits
  <2>9. PICK m \in Nat : m = left[p].n - 1
    BY <1>2, <1>6
  <2>10. left' = [left EXCEPT ![p].n = m]
    BY <1>6, <2>9
  <2>11. left' \in [Readers -> [n : Nat, target : Nat]]
    BY <1>2, <2>10
  <2>12. rd'[p] = "loop" /\ (cons'.lock = p <=> rd'[p] \in {"loop", "empty"})
    BY <1>1, <1>6, <2>3
  <2>13. rd'[p] \notin {"empty", "asleep"}
    BY <2>12
  <2>14. taken' \in Chars /\ doomed' \subseteq Readers
    BY <1>2, <1>6
  <2>15. rd' \in [Readers -> {"user", "loop", "empty", "asleep", "again"}]
         /\ \A q \in Readers : q # p => rd'[q] = rd[q]
    BY <1>2, <1>6
  <2>16. cons.lock \in {p, Nobody} /\ cons'.lock \in {p, Nobody} /\ (cons'.r = cons.r \/ cons.r # cons.w)
    BY <1>2, <1>6, <2>3
  <2>17. InPart'
    BY <1>1, <2>3, <2>8, <2>11, <2>12, <2>13, <2>14, <2>15, <2>16, ReaderIn
  <2> QED
    BY <1>6, <2>1, <2>3, <2>17
<1> QED
  BY <1>3, <1>4, <1>5, <1>6, ReadLoopCases

LEMMA KillReaderIn ==
  ASSUME InPart, NEW p \in Readers, KillReader(p)
  PROVE  InPart'
<1>1. /\ doomed' = doomed \cup {p} /\ rd' = [rd EXCEPT ![p] = IF @ = "asleep" THEN "again" ELSE @]
      /\ cons' = cons /\ left' = left /\ taken' = taken /\ rx' = rx /\ hc' = hc /\ uirq' = uirq
      /\ h' = h
  BY DEF KillReader
<1>2. /\ rd \in [Readers -> {"user", "loop", "empty", "asleep", "again"}] /\ doomed \subseteq Readers
  BY DEF InPart, InTypes
<1>3. /\ rd' \in [Readers -> {"user", "loop", "empty", "asleep", "again"}] /\ doomed' \subseteq Readers
      /\ \A q \in Readers : rd'[q] = IF q = p /\ rd[q] = "asleep" THEN "again" ELSE rd[q]
  BY <1>1, <1>2
<1>4. InTypes'
  BY <1>1, <1>3 DEF InPart, InTypes
<1>5. Fits' /\ Echoed'
  BY <1>1 DEF InPart, Fits, Echoed, Ready, Typed
<1>6. ConsHeld'
  <2>1. ASSUME NEW q \in Readers PROVE cons'.lock = q <=> rd'[q] \in {"loop", "empty"}
    <3>1. cons.lock = q <=> rd[q] \in {"loop", "empty"}
      BY DEF InPart, ConsHeld
    <3>2. rd'[q] \in {"loop", "empty"} <=> rd[q] \in {"loop", "empty"}
      BY <1>3
    <3> QED
      BY <1>1, <3>1, <3>2
  <2> QED
    BY <1>1, <2>1 DEF InPart, ConsHeld
<1>7. Starved'
  BY <1>1, <1>3 DEF InPart, Starved
<1> QED
  BY <1>4, <1>5, <1>6, <1>7 DEF InPart

-----------------------------------------------------------------------------
(* The invariant. *)

LEMMA InvInit == TtyInit => Inv
<1> SUFFICES ASSUME TtyInit PROVE Inv
  OBVIOUS
<1>1. cons \in Rings /\ cons.r = 0 /\ cons.w = 0 /\ cons.e = 0 /\ cons.lock = Nobody
  <2>1. 0 \in 0..(Turn - 1) /\ Turn \in Nat
    BY TtySizes
  <2>2. [i \in 0..(INPUT_BUF_SIZE - 1) |-> "a"] \in [0..(INPUT_BUF_SIZE - 1) -> Chars]
    BY DEF Chars
  <2> QED
    BY <2>1, <2>2 DEF TtyInit, Rings
<1>2. /\ rd = [p \in Readers |-> "user"] /\ left = [p \in Readers |-> [n |-> 0, target |-> 0]]
      /\ doomed = {} /\ taken = "a" /\ tx = 0 /\ txlock = Nobody /\ fifo = 0
      /\ wr = [p \in Writers \cup {Handler} |-> "user"]
      /\ rx = "none" /\ hc = "none" /\ uirq = FALSE /\ h = "idle"
  BY DEF TtyInit
<1>3. InTypes
  BY <1>1, <1>2 DEF InTypes, Chars, Places
<1>4. Fits
  <2>1. Ready(cons) = Span(0, 0) /\ Typed(cons) = Span(0, 0) /\ 0 \in 0..(Turn - 1)
    BY <1>1, TtySizes DEF Ready, Typed
  <2>2. Span(0, 0) = 0
    BY <2>1, SpanIs, TtySizes
  <2> QED
    BY <2>1, <2>2, TtySizes DEF Fits
<1>5. Echoed /\ ConsHeld /\ Starved
  BY <1>1, <1>2, Apart DEF Echoed, ConsHeld, Starved, Stores, Holds
<1>6. OutTypes
  BY <1>2, TtySizes DEF OutTypes
<1>7. TxHeld /\ Blocked
  BY <1>2, Apart DEF TxHeld, Blocked
<1>8. Room2
  BY <1>2 DEF Room2, Sends, Echoes
<1>9. Noticed
  BY <1>2 DEF Noticed
<1> QED
  BY <1>3, <1>4, <1>5, <1>6, <1>7, <1>8, <1>9 DEF Inv, InPart, OutPart

LEMMA InvNext == Inv /\ [TtyNext]_ttyvars => Inv'
<1> SUFFICES ASSUME InPart, OutPart, [TtyNext]_ttyvars PROVE InPart' /\ OutPart'
  BY DEF Inv
<1>1. /\ uirq \in BOOLEAN /\ h \in Places
      /\ rx \in Chars \cup Controls \cup {"none"} /\ hc \in Chars \cup Controls \cup {"none"}
  BY DEF InPart, InTypes
<1>2. CASE UNCHANGED ttyvars
  <2>1. UNCHANGED <<inputs, outputs, uirq, h>>
    BY <1>2 DEF ttyvars
  <2> QED
    BY <1>1, <2>1, InKept, OutKept DEF inputs, outputs
<1>3. CASE KeyPressed
  <2>1. /\ rx' \in Chars \cup Controls /\ uirq' = TRUE /\ cons' = cons /\ rd' = rd /\ left' = left
        /\ doomed' = doomed /\ taken' = taken /\ hc' = hc /\ h' = h
        /\ tx' = tx /\ txlock' = txlock /\ wr' = wr /\ fifo' = fifo
    BY <1>3 DEF KeyPressed, outputs
  <2> QED
    BY <1>1, <2>1, InKept, OutKept
<1>4. CASE Transmitted
  <2>1. /\ cons' = cons /\ rd' = rd /\ left' = left /\ doomed' = doomed /\ taken' = taken
        /\ rx' = rx /\ hc' = hc /\ h' = h /\ uirq' \in BOOLEAN
    BY <1>4 DEF Transmitted, inputs
  <2> QED
    BY <1>1, <1>4, <2>1, InKept, TransmittedOut
<1>5. CASE Uartintr
  <2>1. /\ h = "idle" /\ uirq' = FALSE /\ h' = "get"
        /\ cons' = cons /\ rd' = rd /\ left' = left /\ doomed' = doomed /\ taken' = taken
        /\ rx' = rx /\ hc' = hc
        /\ tx' = tx /\ txlock' = txlock /\ wr' = wr /\ fifo' = fifo
    BY <1>5 DEF Uartintr, inputs, outputs
  <2>2. h' \in Places /\ h \notin Holds /\ h' \notin Holds /\ h' \notin Stores /\ h' \notin Echoes
    BY <2>1 DEF Places, Holds, Stores, Echoes
  <2>3. InPart'
    BY <1>1, <2>1, <2>2, InKept
  <2>4. OutPart'
    BY <1>1, <2>1, <2>2, OutKept
  <2> QED
    BY <2>3, <2>4
<1>6. CASE Uartgetc
  <2>1. /\ h = "get" /\ h' \in {"tx", "char"} /\ hc' = rx /\ rx' = "none"
        /\ cons' = cons /\ rd' = rd /\ left' = left /\ doomed' = doomed /\ taken' = taken
        /\ tx' = tx /\ txlock' = txlock /\ wr' = wr /\ fifo' = fifo /\ uirq' = uirq
    BY <1>6 DEF Uartgetc, AfterInput, outputs
  <2>2. h' \in Places /\ h \notin Holds /\ h' \notin Holds /\ h' \notin Stores /\ h' \notin Echoes
    BY <2>1 DEF Places, Holds, Stores, Echoes
  <2>3. InPart'
    BY <1>1, <2>1, <2>2, InKept
  <2>4. OutPart'
    BY <1>1, <2>1, <2>2, OutKept
  <2> QED
    BY <2>3, <2>4
<1>7. CASE EchoTest
  <2>1. /\ h \in {"echo_erase", "echo_kill", "echo_put"} /\ fifo = 0
        /\ h' = (CASE h = "echo_erase" -> "thr_erase" [] h = "echo_kill" -> "thr_kill"
                   [] h = "echo_put" -> "thr_put")
        /\ cons' = cons /\ rd' = rd /\ left' = left /\ doomed' = doomed /\ taken' = taken
        /\ rx' = rx /\ hc' = hc
        /\ tx' = tx /\ txlock' = txlock /\ wr' = wr /\ fifo' = fifo /\ uirq' = uirq
    BY <1>7 DEF EchoTest, inputs, outputs
  <2>2. h' \in {"thr_erase", "thr_kill", "thr_put"} /\ (h' = "thr_put" => h = "echo_put")
    BY <2>1
  <2>3. h' \in Places /\ h \in Holds /\ h' \in Holds /\ (h' \in Stores => h \in Stores)
    BY <2>1, <2>2 DEF Places, Holds, Stores
  <2>4. InPart'
    BY <1>1, <2>1, <2>3, InKept
  <2>5. OutPart'
    BY <1>1, <2>1, <2>2, OutKept
  <2> QED
    BY <2>4, <2>5
<1>8. CASE EchoWrite
  <2>1. /\ h \in {"thr_erase", "thr_kill", "thr_put"}
        /\ h' = (CASE h = "thr_erase" -> "done" [] h = "thr_kill" -> "kill" [] h = "thr_put" -> "put")
        /\ cons' = cons /\ rd' = rd /\ left' = left /\ doomed' = doomed /\ taken' = taken
        /\ rx' = rx /\ hc' = hc /\ uirq' = uirq
    BY <1>8 DEF EchoWrite, inputs
  <2>2. h' \in {"done", "kill", "put"} /\ (h' = "put" => h = "thr_put")
    BY <2>1
  <2>3. h' \in Places /\ h \in Holds /\ h' \in Holds /\ (h' \in Stores => h \in Stores)
    BY <2>1, <2>2 DEF Places, Holds, Stores
  <2>4. InPart'
    BY <1>1, <2>1, <2>3, InKept
  <2> QED
    BY <1>8, <2>4, EchoWriteOut
<1>9. CASE UartintrSend
  <2>1. /\ h = "tx" /\ h' = "sending"
        /\ cons' = cons /\ rd' = rd /\ left' = left /\ doomed' = doomed /\ taken' = taken
        /\ rx' = rx /\ hc' = hc /\ uirq' = uirq
    BY <1>9 DEF UartintrSend, inputs
  <2>2. h' \in Places /\ h \notin Holds /\ h' \notin Holds /\ h' \notin Stores
    BY <2>1 DEF Places, Holds, Stores
  <2>3. InPart'
    BY <1>1, <2>1, <2>2, InKept
  <2> QED
    BY <1>9, <2>3, UartintrSendOut
<1>10. CASE Consoleintr \/ KillLine \/ ConsoleErased \/ ConsoleStore
  <2>1. InPart'
    BY <1>10, ConsoleintrIn, KillLineIn, ConsoleErasedIn, ConsoleStoreIn
  <2>2. /\ h \in {"char", "kill", "done", "put"}
        /\ h' \in {"kill", "echo_erase", "get", "echo_put", "echo_kill"}
        /\ tx' = tx /\ txlock' = txlock /\ wr' = wr /\ fifo' = fifo /\ uirq' = uirq
    BY <1>10 DEF Consoleintr, KillLine, ConsoleErased, ConsoleStore, HoldCons, LeaveCons, outputs
  <2>3. h' \notin Echoes
    BY <2>2 DEF Echoes
  <2>4. OutPart'
    BY <1>1, <2>2, <2>3, OutKept
  <2> QED
    BY <2>1, <2>4
<1>11. ASSUME NEW p \in Writers, Uartputc(p) PROVE InPart' /\ OutPart'
  <2>1. UNCHANGED inputs /\ uirq' = uirq /\ h' = h
    BY <1>11 DEF Uartputc
  <2>2. InPart'
    BY <1>1, <2>1, InKept DEF inputs
  <2> QED
    BY <1>11, <2>2, UartputcOut
<1>12. ASSUME NEW p \in Writers \cup {Handler}, Uartstart(p) PROVE InPart' /\ OutPart'
  <2>1. UNCHANGED inputs /\ uirq' = uirq /\ h' \in {h, IF p = Handler THEN "idle" ELSE h}
    BY <1>12 DEF Uartstart
  <2>2. wr[p] = "start"
    BY <1>12 DEF Uartstart
  <2>3. p = Handler => h = "sending"
    BY <2>2, TheOne DEF OutPart, TxHeld
  <2>4. h' = h \/ (h = "sending" /\ h' = "idle")
    BY <2>1, <2>3
  <2>5. /\ h' \in Places /\ (h \in Holds <=> h' \in Holds) /\ (h' \in Stores => h \in Stores)
    BY <1>1, <2>4 DEF Places, Holds, Stores
  <2>6. InPart'
    BY <1>1, <2>1, <2>5, InKept DEF inputs
  <2> QED
    BY <1>12, <2>6, UartstartOut
<1>13. ASSUME NEW p \in Writers \cup {Handler}, UartstartWrite(p) PROVE InPart' /\ OutPart'
  <2>1. UNCHANGED inputs /\ uirq' = uirq /\ h' = h
    BY <1>13 DEF UartstartWrite
  <2>2. InPart'
    BY <1>1, <2>1, InKept DEF inputs
  <2> QED
    BY <1>13, <2>2, UartstartWriteOut
<1>14. ASSUME NEW p \in Readers,
              ReadBegin(p) \/ ReadAgain(p) \/ ReadLoop(p) \/ ReadSleeps(p) \/ KillReader(p)
       PROVE  InPart' /\ OutPart'
  <2>1. InPart'
    BY <1>14, ReadBeginIn, ReadAgainIn, ReadLoopIn, ReadSleepsIn, KillReaderIn
  <2>2. UNCHANGED outputs /\ uirq' = uirq /\ h' = h
    BY <1>14 DEF ReadBegin, ReadAgain, ReadLoop, ReadSleeps, KillReader
  <2>3. OutPart'
    BY <1>1, <2>2, OutKept DEF outputs
  <2> QED
    BY <2>1, <2>3
<1> QED
  BY <1>2, <1>3, <1>4, <1>5, <1>6, <1>7, <1>8, <1>9, <1>10, <1>11, <1>12, <1>13, <1>14 DEF TtyNext

LEMMA InvTypes == Inv => TtyTypeOK
<1> SUFFICES ASSUME Inv PROVE TtyTypeOK
  OBVIOUS
<1>1. DOMAIN wr = Writers \cup {Handler}
  BY DEF Inv, OutPart, OutTypes
<1> QED
  BY <1>1 DEF Inv, InPart, OutPart, InTypes, OutTypes, Fits, Ready, Typed, Rings, Places, Holds, TtyTypeOK

LEMMA InvMoves == Inv => TtyMoves
<1> SUFFICES ASSUME Inv PROVE TtyMoves
  OBVIOUS
<1>1. fifo <= 2
  BY DEF Inv, OutPart, OutTypes, Room2
<1> QED
  BY <1>1 DEF Inv, InPart, OutPart, Noticed, Blocked, Starved, TtyMoves

\* cons.lock and uart_tx_lock: the interrupt handler or one of the threads has the lock
\* exactly while it is in a section that the code puts under it, so that two are never in.
LocksOwned == ConsHeld /\ TxHeld

\* consoleintr() stores at e only with room, and consoleread() never passes w: for any
\* sizes of the buffers, the three indices stay where the text between them fits, the
\* output ring holds what uartputc() puts there, and each lock is its owner's.
THEOREM BufferFits == TtySpec => [](TtyTypeOK /\ LocksOwned)
<1>1. Inv => LocksOwned
  BY DEF Inv, InPart, OutPart, LocksOwned
<1> QED
  BY <1>1, InvInit, InvNext, InvTypes, PTL DEF TtySpec

\* No character is left in the output buffer with the UART idle and nobody to look at
\* it; no writer sleeps in uartputc() with room and no reader in consoleread() with a
\* line; and uartputc_sync(), which takes no lock, and uartstart() put at most two
\* characters into the UART at a time, whatever the number of writers.
THEOREM ConsoleMoves == TtySpec => []TtyMoves
<1> QED
  BY InvInit, InvNext, InvMoves, PTL DEF TtySpec

-----------------------------------------------------------------------------
(* The three indices as a buffer of ended lines and a line that is typed. *)

Part(c, from, n) == [j \in 1..n |-> c.buf[Slot(from + j - 1)]]
ReadyPart(c) == Part(c, c.r, Ready(c))
TypedPart(c) == Part(c, c.w, Typed(c))

LEMMA PartIs ==
  ASSUME NEW c \in Rings, NEW from \in Int, NEW n \in Nat
  PROVE  /\ Part(c, from, n) \in Seq(Chars) /\ Len(Part(c, from, n)) = n
         /\ \A j \in 1..n : Part(c, from, n)[j] = c.buf[Slot(from + j - 1)]
<1>1. ASSUME NEW j \in 1..n PROVE c.buf[Slot(from + j - 1)] \in Chars
  <2> DEFINE a == from + j - 1
             i == Slot(a)
  <2>1. a \in Int
    OBVIOUS
  <2> HIDE DEF a
  <2>2. i \in 0..(INPUT_BUF_SIZE - 1)
    BY <2>1, SamePlace
  <2> HIDE DEF i
  <2>3. c.buf[i] \in Chars
    BY <2>2, RingFields
  <2> QED
    BY <2>3 DEF i, a
<1>2. Part(c, from, n) \in [1..n -> Chars]
  BY <1>1 DEF Part
<1>3. \A j \in 1..n : Part(c, from, n)[j] = c.buf[Slot(from + j - 1)]
  BY DEF Part
<1> QED
  BY <1>2, <1>3

LEMMA PartsOf ==
  ASSUME NEW c \in Rings, Ready(c) + Typed(c) <= INPUT_BUF_SIZE
  PROVE  /\ ReadyPart(c) \in Seq(Chars) /\ Len(ReadyPart(c)) = Ready(c) /\ Ready(c) \in Nat
         /\ \A j \in 1..Ready(c) : ReadyPart(c)[j] = c.buf[Slot(c.r + j - 1)]
         /\ TypedPart(c) \in Seq(Chars) /\ Len(TypedPart(c)) = Typed(c) /\ Typed(c) \in Nat
         /\ \A j \in 1..Typed(c) : TypedPart(c)[j] = c.buf[Slot(c.w + j - 1)]
<1>1. c.r \in Int /\ c.w \in Int /\ Ready(c) \in Nat /\ Typed(c) \in Nat
  BY RingFields, PartsAre
<1> QED
  BY <1>1, PartIs DEF ReadyPart, TypedPart

LEMMA SameSeq ==
  ASSUME NEW S, NEW s \in Seq(S), NEW t \in Seq(S), Len(s) = Len(t),
         \A j \in 1..Len(s) : s[j] = t[j]
  PROVE  s = t
BY SeqEqual

LEMMA Appended ==
  ASSUME NEW S, NEW s \in Seq(S), NEW t \in Seq(S), NEW b \in S, Len(t) = Len(s) + 1,
         \A j \in 1..Len(s) : t[j] = s[j], t[Len(s) + 1] = b
  PROVE  t = Append(s, b)
<1>1. /\ Append(s, b) \in Seq(S) /\ Len(Append(s, b)) = Len(s) + 1
      /\ \A j \in 1..Len(s) : Append(s, b)[j] = s[j]
      /\ Append(s, b)[Len(s) + 1] = b
  BY AppendProperties
<1>2. Len(s) \in Nat
  BY LenProperties
<1>3. \A j \in 1..Len(t) : t[j] = Append(s, b)[j]
  BY <1>1, <1>2
<1> QED
  BY <1>1, <1>3, SeqEqual

LEMMA Tailed ==
  ASSUME NEW S, NEW s \in Seq(S), NEW t \in Seq(S), s # <<>>, Len(t) = Len(s) - 1,
         \A j \in 1..Len(t) : t[j] = s[j + 1]
  PROVE  t = Tail(s) /\ Head(s) = s[1]
<1>1. Tail(s) \in Seq(S) /\ Len(Tail(s)) = Len(s) - 1 /\ \A j \in 1..Len(Tail(s)) : Tail(s)[j] = s[j + 1]
  BY HeadTailProperties
<1>2. \A j \in 1..Len(t) : t[j] = Tail(s)[j]
  BY <1>1
<1>3. t = Tail(s)
  BY <1>1, <1>2, SeqEqual
<1> QED
  BY <1>3

LEMMA Fronted ==
  ASSUME NEW S, NEW s \in Seq(S), NEW t \in Seq(S), s # <<>>, Len(t) = Len(s) - 1,
         \A j \in 1..Len(t) : t[j] = s[j]
  PROVE  t = SubSeq(s, 1, Len(s) - 1)
<1>1. Len(s) \in Nat /\ Len(s) # 0 /\ Len(t) \in Nat
  BY LenProperties, EmptySeq
<1> DEFINE u == SubSeq(s, 1, Len(s) - 1)
<1>2. u \in Seq(S) /\ Len(u) = Len(s) - 1 /\ \A j \in 1..(Len(s) - 1) : u[j] = s[j]
  BY <1>1
<1> HIDE DEF u
<1>3. u = t
  BY <1>2, SameSeq
<1> QED
  BY <1>3 DEF u

\* Where the place for the next character is, seen from both parts.
LEMMA Places2 ==
  ASSUME NEW c \in Rings, Ready(c) + Typed(c) < INPUT_BUF_SIZE
  PROVE  /\ \A j \in 1..Ready(c) : Slot(c.r + j - 1) # Slot(c.e)
         /\ \A j \in 1..Typed(c) : Slot(c.w + j - 1) # Slot(c.e)
         /\ Slot(c.w + Typed(c)) = Slot(c.e)
         /\ \A k \in Nat : Slot(c.r + Ready(c) + k) = Slot(c.w + k)
<1>1. c.r \in Int /\ c.w \in Int /\ c.e \in Int /\ Turn \in Nat /\ INPUT_BUF_SIZE \in Nat \ {0}
  BY RingFields, TtySizes
<1> DEFINE r == c.r
           w == c.w
           e == c.e
           m == Ready(c)
           n == Typed(c)
<1>2. /\ r \in Int /\ w \in Int /\ e \in Int /\ m \in Nat /\ n \in Nat /\ m + n < INPUT_BUF_SIZE
      /\ r + m = w \/ r + m = w + Turn
      /\ w + n = e \/ w + n = e + Turn
  BY <1>1, NotFull, PartsAre
<1> HIDE DEF r, w, e, m, n
<1>3. ASSUME NEW k \in Nat PROVE Slot(r + m + k) = Slot(w + k)
  <2> DEFINE a == w + k
  <2>1. a \in Int /\ (r + m + k = a \/ r + m + k = a + Turn)
    BY <1>1, <1>2
  <2> HIDE DEF a
  <2>2. Slot(a + Turn) = Slot(a)
    BY <2>1, SamePlace
  <2> QED
    BY <2>1, <2>2 DEF a
<1>4. Slot(w + n) = Slot(e)
  <2>1. Slot(e + Turn) = Slot(e)
    BY <1>2, SamePlace
  <2> QED
    BY <1>2, <2>1
<1>5. Slot(r + m + n) = Slot(e)
  BY <1>2, <1>3, <1>4
<1>6. ASSUME NEW j \in 1..m PROVE Slot(r + j - 1) # Slot(e)
  <2> DEFINE a == r + j - 1
             b == r + m + n
  <2>1. a \in Int /\ b \in Int /\ a < b /\ b < a + INPUT_BUF_SIZE /\ Slot(b) = Slot(e)
    BY <1>1, <1>2, <1>5
  <2> HIDE DEF a, b
  <2>2. a % INPUT_BUF_SIZE # b % INPUT_BUF_SIZE
    BY <1>1, <2>1, PlacesDiffer
  <2> QED
    BY <2>1, <2>2 DEF Slot, a
<1>7. ASSUME NEW j \in 1..n PROVE Slot(w + j - 1) # Slot(e)
  <2> DEFINE a == w + j - 1
             b == w + n
  <2>1. a \in Int /\ b \in Int /\ a < b /\ b < a + INPUT_BUF_SIZE /\ Slot(b) = Slot(e)
    BY <1>1, <1>2, <1>4
  <2> HIDE DEF a, b
  <2>2. a % INPUT_BUF_SIZE # b % INPUT_BUF_SIZE
    BY <1>1, <2>1, PlacesDiffer
  <2> QED
    BY <2>1, <2>2 DEF Slot, a
<1> QED
  BY <1>3, <1>4, <1>6, <1>7 DEF r, w, e, m, n

\* What a store leaves of the buffer.
LEMMA StoredAt ==
  ASSUME NEW c \in Rings, NEW d \in Rings, NEW b \in Chars, Ready(c) + Typed(c) < INPUT_BUF_SIZE,
         d.buf = [c.buf EXCEPT ![Slot(c.e)] = b]
  PROVE  /\ \A j \in 1..Ready(c) : d.buf[Slot(c.r + j - 1)] = c.buf[Slot(c.r + j - 1)]
         /\ \A j \in 1..Typed(c) : d.buf[Slot(c.w + j - 1)] = c.buf[Slot(c.w + j - 1)]
         /\ d.buf[Slot(c.w + Typed(c))] = b
<1>1. /\ c.buf \in [0..(INPUT_BUF_SIZE - 1) -> Chars] /\ Slot(c.e) \in 0..(INPUT_BUF_SIZE - 1)
      /\ c.r \in Int /\ c.w \in Int
  BY RingFields
<1> DEFINE i == Slot(c.e)
<1>2. /\ d.buf[i] = b
      /\ \A k \in 0..(INPUT_BUF_SIZE - 1) : k # i => d.buf[k] = c.buf[k]
  BY <1>1
<1>3. \A a \in Int : Slot(a) \in 0..(INPUT_BUF_SIZE - 1)
  BY SamePlace
<1>4. /\ \A j \in 1..Ready(c) : Slot(c.r + j - 1) # i
      /\ \A j \in 1..Typed(c) : Slot(c.w + j - 1) # i
      /\ Slot(c.w + Typed(c)) = i
  BY Places2
<1> HIDE DEF i
<1>5. Ready(c) \in Nat /\ Typed(c) \in Nat
  BY NotFull
<1>6. ASSUME NEW j \in 1..Ready(c) PROVE d.buf[Slot(c.r + j - 1)] = c.buf[Slot(c.r + j - 1)]
  <2>1. c.r + j - 1 \in Int
    BY <1>1, <1>5
  <2> QED
    BY <1>2, <1>3, <1>4, <2>1
<1>7. ASSUME NEW j \in 1..Typed(c) PROVE d.buf[Slot(c.w + j - 1)] = c.buf[Slot(c.w + j - 1)]
  <2>1. c.w + j - 1 \in Int
    BY <1>1, <1>5
  <2> QED
    BY <1>2, <1>3, <1>4, <2>1
<1> QED
  BY <1>2, <1>4, <1>6, <1>7

\* What a store makes of the two parts, place by place.
LEMMA StoredParts2 ==
  ASSUME NEW c \in Rings, NEW d \in Rings, NEW b \in Chars, Ready(c) + Typed(c) < INPUT_BUF_SIZE,
         d.buf = [c.buf EXCEPT ![Slot(c.e)] = b], d.r = c.r,
         Ready(d) + Typed(d) <= INPUT_BUF_SIZE
  PROVE  /\ ReadyPart(c) \in Seq(Chars) /\ Len(ReadyPart(c)) = Ready(c) /\ Ready(c) \in Nat
         /\ TypedPart(c) \in Seq(Chars) /\ Len(TypedPart(c)) = Typed(c) /\ Typed(c) \in Nat
         /\ ReadyPart(d) \in Seq(Chars) /\ Len(ReadyPart(d)) = Ready(d) /\ Ready(d) \in Nat
         /\ TypedPart(d) \in Seq(Chars) /\ Len(TypedPart(d)) = Typed(d) /\ Typed(d) \in Nat
         /\ Ready(d) >= Ready(c) => \A j \in 1..Ready(c) : ReadyPart(d)[j] = ReadyPart(c)[j]
<1>1. Ready(c) + Typed(c) <= INPUT_BUF_SIZE
  BY NotFull
<1>2. /\ ReadyPart(c) \in Seq(Chars) /\ Len(ReadyPart(c)) = Ready(c) /\ Ready(c) \in Nat
      /\ TypedPart(c) \in Seq(Chars) /\ Len(TypedPart(c)) = Typed(c) /\ Typed(c) \in Nat
  BY <1>1, PartsOf
<1>3. /\ ReadyPart(d) \in Seq(Chars) /\ Len(ReadyPart(d)) = Ready(d) /\ Ready(d) \in Nat
      /\ TypedPart(d) \in Seq(Chars) /\ Len(TypedPart(d)) = Typed(d) /\ Typed(d) \in Nat
  BY PartsOf
<1>4. ASSUME Ready(d) >= Ready(c), NEW j \in 1..Ready(c)
      PROVE  ReadyPart(d)[j] = ReadyPart(c)[j]
  <2>1. j \in 1..Ready(d)
    BY <1>2, <1>3, <1>4
  <2>2. ReadyPart(d)[j] = d.buf[Slot(c.r + j - 1)]
    BY <2>1, PartsOf
  <2>3. ReadyPart(c)[j] = c.buf[Slot(c.r + j - 1)]
    BY <1>1, PartsOf
  <2>4. d.buf[Slot(c.r + j - 1)] = c.buf[Slot(c.r + j - 1)]
    BY StoredAt
  <2> QED
    BY <2>2, <2>3, <2>4
<1> QED
  BY <1>2, <1>3, <1>4

LEMMA CharTyped ==
  ASSUME NEW c \in Rings, NEW d \in Rings, NEW b \in Chars, Ready(c) + Typed(c) < INPUT_BUF_SIZE,
         d.buf = [c.buf EXCEPT ![Slot(c.e)] = b], d.r = c.r, d.w = c.w, d.e = Up(c.e)
  PROVE  ReadyPart(d) = ReadyPart(c) /\ TypedPart(d) = Append(TypedPart(c), b)
<1>1. /\ Ready(d) = Ready(c) /\ Typed(d) = Typed(c) + 1 /\ Ready(c) \in Nat /\ Typed(c) \in Nat
      /\ c.w \in Int
  BY OneMore, NotFull, RingFields
<1>2. Ready(d) + Typed(d) <= INPUT_BUF_SIZE /\ Ready(c) + Typed(c) <= INPUT_BUF_SIZE
  BY <1>1, TtySizes
<1>3. /\ ReadyPart(c) \in Seq(Chars) /\ Len(ReadyPart(c)) = Ready(c)
      /\ TypedPart(c) \in Seq(Chars) /\ Len(TypedPart(c)) = Typed(c)
      /\ ReadyPart(d) \in Seq(Chars) /\ Len(ReadyPart(d)) = Ready(d)
      /\ TypedPart(d) \in Seq(Chars) /\ Len(TypedPart(d)) = Typed(d)
      /\ Ready(d) >= Ready(c) => \A j \in 1..Ready(c) : ReadyPart(d)[j] = ReadyPart(c)[j]
  BY <1>2, StoredParts2
<1>4. ReadyPart(d) = ReadyPart(c)
  <2>1. \A j \in 1..Len(ReadyPart(d)) : ReadyPart(d)[j] = ReadyPart(c)[j]
    BY <1>1, <1>3
  <2>2. Len(ReadyPart(d)) = Len(ReadyPart(c))
    BY <1>1, <1>3
  <2> QED
    BY <1>3, <2>1, <2>2, SameSeq
<1>5. ASSUME NEW j \in 1..Typed(c) PROVE TypedPart(d)[j] = TypedPart(c)[j]
  <2>1. j \in 1..Typed(d)
    BY <1>1
  <2>2. TypedPart(d)[j] = d.buf[Slot(c.w + j - 1)]
    BY <1>2, <2>1, PartsOf
  <2>3. TypedPart(c)[j] = c.buf[Slot(c.w + j - 1)]
    BY <1>2, PartsOf
  <2>4. d.buf[Slot(c.w + j - 1)] = c.buf[Slot(c.w + j - 1)]
    BY StoredAt
  <2> QED
    BY <2>2, <2>3, <2>4
<1>6. TypedPart(d)[Typed(c) + 1] = b
  <2>1. PICK j \in 1..Typed(d) : j = Typed(c) + 1
    BY <1>1
  <2>2. TypedPart(d)[j] = d.buf[Slot(c.w + j - 1)]
    BY <1>2, PartsOf
  <2>3. c.w + j - 1 = c.w + Typed(c)
    BY <1>1, <2>1
  <2>4. d.buf[Slot(c.w + Typed(c))] = b
    BY StoredAt
  <2> QED
    BY <2>1, <2>2, <2>3, <2>4
<1>7. TypedPart(d) = Append(TypedPart(c), b)
  <2>1. PICK s \in Seq(Chars), t \in Seq(Chars) : s = TypedPart(c) /\ t = TypedPart(d)
    BY <1>3
  <2>2. Len(s) = Typed(c) /\ Len(t) = Len(s) + 1
    BY <1>1, <1>3, <2>1
  <2>3. (\A j \in 1..Len(s) : t[j] = s[j]) /\ t[Len(s) + 1] = b
    BY <1>5, <1>6, <2>1, <2>2
  <2>4. t = Append(s, b)
    BY <2>2, <2>3, Appended
  <2> QED
    BY <2>1, <2>4
<1> QED
  BY <1>4, <1>7

Joins(s, t, b, u) ==
  /\ Len(u) = Len(s) + Len(t) + 1 /\ u[Len(s) + Len(t) + 1] = b
  /\ \A j \in 1..Len(s) : u[j] = s[j]
  /\ \A j \in 1..Len(t) : u[Len(s) + j] = t[j]

LEMMA Joined ==
  ASSUME NEW s \in Seq(Chars), NEW t \in Seq(Chars), NEW u \in Seq(Chars), NEW b \in Chars,
         Joins(s, t, b, u)
  PROVE  u = s \o Append(t, b)
<1>1. Len(s) \in Nat /\ Len(t) \in Nat
  BY LenProperties
<1>0. /\ Len(u) = Len(s) + Len(t) + 1 /\ u[Len(s) + Len(t) + 1] = b
      /\ \A j \in 1..Len(s) : u[j] = s[j]
      /\ \A j \in 1..Len(t) : u[Len(s) + j] = t[j]
  BY DEF Joins
<1> DEFINE v == Append(t, b)
           x == s \o v
<1>2. /\ v \in Seq(Chars) /\ Len(v) = Len(t) + 1 /\ v[Len(t) + 1] = b
      /\ \A j \in 1..Len(t) : v[j] = t[j]
  BY AppendProperties
<1> HIDE DEF v
<1>3. /\ x \in Seq(Chars) /\ Len(x) = Len(s) + Len(v)
      /\ \A j \in 1..(Len(s) + Len(v)) : x[j] = IF j <= Len(s) THEN s[j] ELSE v[j - Len(s)]
  BY <1>2, ConcatProperties
<1> HIDE DEF x
<1>4. ASSUME NEW j \in 1..Len(u) PROVE u[j] = x[j]
  <2>1. j \in 1..(Len(s) + Len(v)) /\ j \in Int /\ j >= 1 /\ j <= Len(s) + Len(t) + 1
    BY <1>0, <1>1, <1>2
  <2>2. CASE j <= Len(s)
    <3>1. j \in 1..Len(s)
      BY <1>0, <1>1, <2>2
    <3> QED
      BY <1>0, <1>3, <2>1, <2>2, <3>1
  <2>3. CASE j > Len(s)
    <3>0. PICK k : k = j - Len(s)
      OBVIOUS
    <3>1. k \in 1..(Len(t) + 1) /\ j = Len(s) + k
      BY <1>0, <1>1, <2>1, <2>3, <3>0
    <3>2. x[j] = v[k]
      BY <1>0, <1>1, <1>3, <2>1, <2>3, <3>0
    <3>3. CASE k = Len(t) + 1
      <4>1. j = Len(s) + Len(t) + 1
        BY <1>0, <1>1, <3>1, <3>3
      <4>2. u[j] = b
        BY <1>0, <4>1
      <4>3. v[k] = b
        BY <1>2, <3>3
      <4> QED
        BY <3>2, <4>2, <4>3
    <3>4. CASE k # Len(t) + 1
      <4>1. k \in 1..Len(t)
        BY <1>1, <3>1, <3>4
      <4> QED
        BY <1>0, <1>2, <3>1, <3>2, <4>1
    <3> QED
      BY <1>0, <3>3, <3>4
  <2> QED
    BY <1>0, <1>1, <2>1, <2>2, <2>3
<1>5. Len(u) = Len(x)
  BY <1>0, <1>1, <1>2, <1>3
<1>6. u = x
  BY <1>0, <1>3, <1>4, <1>5, SameSeq
<1> QED
  BY <1>0, <1>6 DEF x, v

LEMMA LineTyped ==
  ASSUME NEW c \in Rings, NEW d \in Rings, NEW b \in Chars, Ready(c) + Typed(c) < INPUT_BUF_SIZE,
         d.buf = [c.buf EXCEPT ![Slot(c.e)] = b], d.r = c.r, d.w = Up(c.e), d.e = Up(c.e)
  PROVE  ReadyPart(d) = ReadyPart(c) \o Append(TypedPart(c), b) /\ TypedPart(d) = <<>>
<1>1. /\ Ready(d) = Ready(c) + Typed(c) + 1 /\ Typed(d) = 0 /\ Ready(c) \in Nat /\ Typed(c) \in Nat
      /\ c.w \in Int /\ c.r \in Int
  BY LineEnds, NotFull, RingFields
<1>2. Ready(d) + Typed(d) <= INPUT_BUF_SIZE /\ Ready(c) + Typed(c) <= INPUT_BUF_SIZE
  BY <1>1, TtySizes
<1>3. /\ ReadyPart(c) \in Seq(Chars) /\ Len(ReadyPart(c)) = Ready(c)
      /\ TypedPart(c) \in Seq(Chars) /\ Len(TypedPart(c)) = Typed(c)
      /\ ReadyPart(d) \in Seq(Chars) /\ Len(ReadyPart(d)) = Ready(d)
      /\ TypedPart(d) \in Seq(Chars) /\ Len(TypedPart(d)) = Typed(d)
      /\ Ready(d) >= Ready(c) => \A j \in 1..Ready(c) : ReadyPart(d)[j] = ReadyPart(c)[j]
  BY <1>2, StoredParts2
<1>4. \A k \in Nat : Slot(c.r + Ready(c) + k) = Slot(c.w + k)
  BY Places2
<1>5. ASSUME NEW k \in 0..Typed(c)
      PROVE  ReadyPart(d)[Ready(c) + k + 1] = d.buf[Slot(c.w + k)]
  <2>1. PICK j \in 1..Ready(d) : j = Ready(c) + k + 1
    BY <1>1
  <2>2. ReadyPart(d)[j] = d.buf[Slot(c.r + j - 1)]
    BY <1>2, PartsOf
  <2>3. c.r + j - 1 = c.r + Ready(c) + k /\ k \in Nat
    BY <1>1, <2>1
  <2>4. Slot(c.r + Ready(c) + k) = Slot(c.w + k)
    BY <1>4, <2>3
  <2> QED
    BY <2>1, <2>2, <2>3, <2>4
<1>6. ASSUME NEW j \in 1..Typed(c) PROVE ReadyPart(d)[Ready(c) + j] = TypedPart(c)[j]
  <2>1. PICK k \in 0..Typed(c) : k = j - 1
    BY <1>1
  <2>2. ReadyPart(d)[Ready(c) + k + 1] = d.buf[Slot(c.w + k)]
    BY <1>5
  <2>3. Ready(c) + k + 1 = Ready(c) + j /\ c.w + k = c.w + j - 1
    BY <1>1, <2>1
  <2>4. TypedPart(c)[j] = c.buf[Slot(c.w + j - 1)]
    BY <1>2, PartsOf
  <2>5. d.buf[Slot(c.w + j - 1)] = c.buf[Slot(c.w + j - 1)]
    BY StoredAt
  <2> QED
    BY <2>2, <2>3, <2>4, <2>5
<1>7. ReadyPart(d)[Ready(c) + Typed(c) + 1] = b
  <2>1. ReadyPart(d)[Ready(c) + Typed(c) + 1] = d.buf[Slot(c.w + Typed(c))]
    BY <1>1, <1>5
  <2>2. d.buf[Slot(c.w + Typed(c))] = b
    BY StoredAt
  <2> QED
    BY <2>1, <2>2
<1>8. ReadyPart(d) = ReadyPart(c) \o Append(TypedPart(c), b)
  <2>1. PICK s \in Seq(Chars), t \in Seq(Chars), u \in Seq(Chars) :
          s = ReadyPart(c) /\ t = TypedPart(c) /\ u = ReadyPart(d)
    BY <1>3
  <2>2. Len(s) = Ready(c) /\ Len(t) = Typed(c) /\ Len(u) = Len(s) + Len(t) + 1
    BY <1>1, <1>3, <2>1
  <2>3. \A j \in 1..Len(s) : u[j] = s[j]
    BY <1>1, <1>3, <2>1, <2>2
  <2>4. \A j \in 1..Len(t) : u[Len(s) + j] = t[j]
    BY <1>6, <2>1, <2>2
  <2>5. u[Len(s) + Len(t) + 1] = b
    BY <1>7, <2>1, <2>2
  <2>6. Joins(s, t, b, u)
    BY <2>2, <2>3, <2>4, <2>5 DEF Joins
  <2>7. u = s \o Append(t, b)
    BY <2>6, Joined
  <2> QED
    BY <2>1, <2>7
<1>9. TypedPart(d) = <<>>
  BY <1>1, <1>3, EmptySeq
<1> QED
  BY <1>8, <1>9

LEMMA CharErased ==
  ASSUME NEW c \in Rings, NEW d \in Rings, Ready(c) + Typed(c) <= INPUT_BUF_SIZE, c.e # c.w,
         d.buf = c.buf, d.r = c.r, d.w = c.w, d.e = Down(c.e)
  PROVE  /\ ReadyPart(d) = ReadyPart(c) /\ TypedPart(c) # <<>>
         /\ TypedPart(d) = SubSeq(TypedPart(c), 1, Len(TypedPart(c)) - 1)
<1>1. /\ Ready(d) = Ready(c) /\ Typed(d) = Typed(c) - 1 /\ Typed(c) # 0
      /\ Ready(c) \in Nat /\ Typed(c) \in Nat
  BY OneErased, PartsAre
<1>2. Ready(d) + Typed(d) <= INPUT_BUF_SIZE
  BY <1>1, TtySizes
<1>3. ReadyPart(d) = ReadyPart(c)
  BY <1>1 DEF ReadyPart, Part
<1>4. /\ TypedPart(c) \in Seq(Chars) /\ Len(TypedPart(c)) = Typed(c)
      /\ TypedPart(d) \in Seq(Chars) /\ Len(TypedPart(d)) = Typed(d)
  BY <1>2, PartsOf
<1>5. ASSUME NEW j \in 1..Typed(d) PROVE TypedPart(d)[j] = TypedPart(c)[j]
  <2>1. j \in 1..Typed(c)
    BY <1>1
  <2>2. TypedPart(d)[j] = d.buf[Slot(c.w + j - 1)]
    BY <1>2, PartsOf
  <2>3. TypedPart(c)[j] = c.buf[Slot(c.w + j - 1)]
    BY <2>1, PartsOf
  <2> QED
    BY <2>2, <2>3
<1>6. PICK s \in Seq(Chars), t \in Seq(Chars) : s = TypedPart(c) /\ t = TypedPart(d)
  BY <1>4
<1>7. Len(t) = Len(s) - 1 /\ s # <<>> /\ \A j \in 1..Len(t) : t[j] = s[j]
  <2>1. Len(t) = Len(s) - 1 /\ Len(s) # 0
    BY <1>1, <1>4, <1>6
  <2>2. s # <<>>
    BY <2>1, EmptySeq
  <2> QED
    BY <1>4, <1>5, <1>6, <2>1, <2>2
<1>8. t = SubSeq(s, 1, Len(s) - 1)
  BY <1>7, Fronted
<1> QED
  BY <1>3, <1>6, <1>7, <1>8

LEMMA CharRead ==
  ASSUME NEW c \in Rings, NEW d \in Rings, Ready(c) + Typed(c) <= INPUT_BUF_SIZE, c.r # c.w,
         d.buf = c.buf, d.r = Up(c.r), d.w = c.w, d.e = c.e
  PROVE  /\ ReadyPart(d) = Tail(ReadyPart(c)) /\ TypedPart(d) = TypedPart(c)
         /\ ReadyPart(c) # <<>> /\ Head(ReadyPart(c)) = c.buf[Slot(c.r)]
<1>1. /\ Ready(d) = Ready(c) - 1 /\ Typed(d) = Typed(c) /\ Ready(c) # 0
      /\ Ready(c) \in Nat /\ Typed(c) \in Nat
  BY OneLess, PartsAre
<1>2. Ready(d) + Typed(d) <= INPUT_BUF_SIZE
  BY <1>1, TtySizes
<1>3. TypedPart(d) = TypedPart(c)
  BY <1>1 DEF TypedPart, Part
<1>4. /\ ReadyPart(c) \in Seq(Chars) /\ Len(ReadyPart(c)) = Ready(c)
      /\ ReadyPart(d) \in Seq(Chars) /\ Len(ReadyPart(d)) = Ready(d)
  BY <1>2, PartsOf
<1>5. c.r \in 0..(Turn - 1) /\ c.r \in Int /\ Turn \in Nat
  BY RingFields, TtySizes
<1>6. ASSUME NEW j \in Nat PROVE Slot(d.r + j) = Slot(c.r + 1 + j)
  <2> DEFINE a == c.r + 1 + j
             b == d.r + j
  <2>1. d.r = IF c.r + 1 = Turn THEN 0 ELSE c.r + 1
    BY <1>5, UpIs
  <2>2. a \in Int /\ b \in Int /\ (b = a \/ a = b + Turn)
    BY <1>5, <2>1
  <2> HIDE DEF a, b
  <2>3. Slot(b + Turn) = Slot(b)
    BY <2>2, SamePlace
  <2>4. Slot(b) = Slot(a)
    BY <2>2, <2>3
  <2> QED
    BY <2>4 DEF a, b
<1>7. ASSUME NEW j \in 1..Ready(d) PROVE ReadyPart(d)[j] = ReadyPart(c)[j + 1]
  <2>1. PICK i \in 1..Ready(c) : i = j + 1
    BY <1>1
  <2>2. ReadyPart(d)[j] = d.buf[Slot(d.r + j - 1)]
    BY <1>2, PartsOf
  <2>3. ReadyPart(c)[i] = c.buf[Slot(c.r + i - 1)]
    BY PartsOf
  <2>4. PICK k \in Nat : k = j - 1
    BY <1>1
  <2>5. d.r \in Int
    BY RingFields
  <2>6. d.r + j - 1 = d.r + k /\ c.r + i - 1 = c.r + 1 + k
    BY <1>1, <1>5, <2>1, <2>4, <2>5
  <2>7. Slot(d.r + k) = Slot(c.r + 1 + k)
    BY <1>6
  <2> QED
    BY <2>1, <2>2, <2>3, <2>6, <2>7
<1>8. PICK s \in Seq(Chars), t \in Seq(Chars) : s = ReadyPart(c) /\ t = ReadyPart(d)
  BY <1>4
<1>9. Len(t) = Len(s) - 1 /\ s # <<>> /\ \A j \in 1..Len(t) : t[j] = s[j + 1]
  <2>1. Len(t) = Len(s) - 1 /\ Len(s) # 0
    BY <1>1, <1>4, <1>8
  <2>2. s # <<>>
    BY <2>1, EmptySeq
  <2> QED
    BY <1>4, <1>7, <1>8, <2>1, <2>2
<1>10. t = Tail(s) /\ Head(s) = s[1]
  BY <1>9, Tailed
<1>11. ReadyPart(c)[1] = c.buf[Slot(c.r)]
  <2>1. PICK j \in 1..Ready(c) : j = 1
    BY <1>1
  <2>2. ReadyPart(c)[j] = c.buf[Slot(c.r + j - 1)]
    BY PartsOf
  <2>3. c.r + j - 1 = c.r
    BY <1>5, <2>1
  <2> QED
    BY <2>1, <2>2, <2>3
<1> QED
  BY <1>3, <1>8, <1>9, <1>10, <1>11

-----------------------------------------------------------------------------
(* Each step of the console as a step of the line buffer. *)

LEMMA LinesAre == EndedLines = ReadyPart(cons) /\ TypedLine = TypedPart(cons)
BY DEF EndedLines, TypedLine, Chunk, ReadyPart, TypedPart, Part, Ready, Typed

\* A step that moves none of the indices.
LEMMA LinesKept ==
  ASSUME cons'.buf = cons.buf, cons'.r = cons.r, cons'.w = cons.w, cons'.e = cons.e
  PROVE  EndedLines' = EndedLines /\ TypedLine' = TypedLine
BY DEF EndedLines, TypedLine, Chunk

Same == EndedLines' = EndedLines /\ TypedLine' = TypedLine /\ taken' = taken

LEMMA StoreSeen ==
  ASSUME Inv, ConsoleStore
  PROVE  \E c \in Chars : Lines!Put(c)
<1>1. InPart /\ taken' = taken
  BY DEF Inv, ConsoleStore
<1>2. /\ hc \in Chars /\ Ready(cons) + Typed(cons) < INPUT_BUF_SIZE
      /\ cons \in Rings /\ cons' \in Rings /\ cons'.r = cons.r /\ cons'.e = Up(cons.e)
      /\ cons'.w = IF EndsLine THEN Up(cons.e) ELSE cons.w
      /\ cons'.buf = [cons.buf EXCEPT ![Slot(cons.e)] = hc]
  BY <1>1, Stored DEF InPart, InTypes
<1>3. PICK c \in Rings, d \in Rings, b \in Chars : c = cons /\ d = cons' /\ b = hc
  BY <1>2
<1>4. /\ EndedLines = ReadyPart(c) /\ TypedLine = TypedPart(c)
      /\ EndedLines' = ReadyPart(d) /\ TypedLine' = TypedPart(d)
  BY <1>3 DEF EndedLines, TypedLine, Chunk, ReadyPart, TypedPart, Part, Ready, Typed
<1>5. /\ Ready(c) + Typed(c) < INPUT_BUF_SIZE /\ d.r = c.r /\ d.e = Up(c.e)
      /\ d.w = (IF EndsLine THEN Up(c.e) ELSE c.w)
      /\ d.buf = [c.buf EXCEPT ![Slot(c.e)] = b]
  BY <1>2, <1>3
<1>6. /\ ReadyPart(c) \in Seq(Chars) /\ Len(ReadyPart(c)) = Ready(c)
      /\ TypedPart(c) \in Seq(Chars) /\ Len(TypedPart(c)) = Typed(c)
      /\ Ready(c) \in Nat /\ Typed(c) \in Nat
  BY <1>5, NotFull, PartsOf
<1> DEFINE x == EndedLines
           y == TypedLine
           t == Append(y, b)
<1>7. Len(x) + Len(y) < INPUT_BUF_SIZE
  BY <1>4, <1>5, <1>6
<1>8. Len(t) = Typed(c) + 1
  BY <1>4, <1>6, AppendProperties
<1>9. EndsLine <=> b \in {"nl", "eof"} \/ Len(x) + Len(t) = INPUT_BUF_SIZE
  <2>1. d.e \in 0..(Turn - 1) /\ c.r \in 0..(Turn - 1)
    BY RingFields
  <2>2. EndsLine <=> b \in {"nl", "eof"} \/ Span(d.e, c.r) = INPUT_BUF_SIZE
    BY <1>3, <1>5 DEF EndsLine
  <2>3. Span(d.e, c.r) = Ready(c) + Typed(c) + 1
    <3>1. PICK f \in Rings : f = [[c EXCEPT !.w = d.e] EXCEPT !.e = d.e]
      <4>1. PICK a \in Rings : a = [c EXCEPT !.w = d.e]
        BY <2>1, WSet
      <4>2. [a EXCEPT !.e = d.e] \in Rings
        BY <2>1, ESet
      <4> QED
        BY <4>1, <4>2
    <3>2. f.r = c.r /\ f.w = Up(c.e) /\ f.e = Up(c.e)
      BY <1>5, <3>1 DEF Rings
    <3>3. Ready(f) = Ready(c) + Typed(c) + 1
      BY <1>5, <3>2, LineEnds
    <3> QED
      BY <1>5, <3>2, <3>3 DEF Ready
  <2>4. Len(x) + Len(t) = Ready(c) + Typed(c) + 1
    BY <1>4, <1>6, <1>8
  <2> QED
    BY <2>2, <2>3, <2>4
<1>10. CASE EndsLine
  <2>1. ReadyPart(d) = ReadyPart(c) \o Append(TypedPart(c), b) /\ TypedPart(d) = <<>>
    BY <1>5, <1>10, LineTyped
  <2>2. EndedLines' = x \o t /\ TypedLine' = <<>>
    BY <1>4, <2>1
  <2> HIDE DEF x, y, t
  <2>3. Lines!Put(b)
    BY <1>1, <1>7, <1>9, <1>10, <2>2 DEF Lines!Put, x, y, t
  <2> QED
    BY <2>3
<1>11. CASE ~EndsLine
  <2>1. ReadyPart(d) = ReadyPart(c) /\ TypedPart(d) = Append(TypedPart(c), b)
    BY <1>5, <1>11, CharTyped
  <2>2. EndedLines' = x /\ TypedLine' = t
    BY <1>4, <2>1
  <2> HIDE DEF x, y, t
  <2>3. Lines!Put(b)
    BY <1>1, <1>7, <1>9, <1>11, <2>2 DEF Lines!Put, x, y, t
  <2> QED
    BY <2>3
<1> QED
  BY <1>10, <1>11

LEMMA EraseSeen ==
  ASSUME Inv, Erasable, cons' = [[cons EXCEPT !.e = Down(@)] EXCEPT !.lock = Handler],
         taken' = taken
  PROVE  Lines!Erase
<1>1. cons \in Rings /\ Ready(cons) + Typed(cons) <= INPUT_BUF_SIZE
  BY DEF Inv, InPart, InTypes, Fits
<1>2. /\ cons' \in Rings /\ cons'.r = cons.r /\ cons'.w = cons.w /\ cons'.e = Down(cons.e)
      /\ cons'.buf = cons.buf
  BY <1>1, ErasedIs
<1>3. PICK c \in Rings, d \in Rings : c = cons /\ d = cons'
  BY <1>1, <1>2
<1>4. /\ EndedLines = ReadyPart(c) /\ TypedLine = TypedPart(c)
      /\ EndedLines' = ReadyPart(d) /\ TypedLine' = TypedPart(d)
  BY <1>3 DEF EndedLines, TypedLine, Chunk, ReadyPart, TypedPart, Part, Ready, Typed
<1>5. /\ Ready(c) + Typed(c) <= INPUT_BUF_SIZE /\ c.e # c.w
      /\ d.buf = c.buf /\ d.r = c.r /\ d.w = c.w /\ d.e = Down(c.e)
  BY <1>1, <1>2, <1>3 DEF Erasable
<1>6. /\ ReadyPart(d) = ReadyPart(c) /\ TypedPart(c) # <<>>
      /\ TypedPart(d) = SubSeq(TypedPart(c), 1, Len(TypedPart(c)) - 1)
  BY <1>5, CharErased
<1> QED
  BY <1>4, <1>6 DEF Lines!Erase

LEMMA ReadSeen ==
  ASSUME Inv, NEW p \in Readers, ReadLoop(p)
  PROVE  Same \/ Lines!Take
<1>1. /\ cons \in Rings /\ Ready(cons) + Typed(cons) <= INPUT_BUF_SIZE /\ InPart
  BY DEF Inv, InPart, InTypes, Fits
<1>2. /\ cons' \in Rings /\ cons'.buf = cons.buf /\ cons'.w = cons.w /\ cons'.e = cons.e
      /\ \/ cons'.r = cons.r /\ taken' = taken
         \/ cons'.r = Up(cons.r) /\ cons.r # cons.w /\ taken' = cons.buf[Slot(cons.r)]
  BY <1>1, ReadLoopIn
<1>3. CASE cons'.r = cons.r /\ taken' = taken
  BY <1>2, <1>3, LinesKept DEF Same
<1>4. CASE cons'.r = Up(cons.r) /\ cons.r # cons.w /\ taken' = cons.buf[Slot(cons.r)]
  <2>1. PICK c \in Rings, d \in Rings : c = cons /\ d = cons'
    BY <1>1, <1>2
  <2>2. /\ EndedLines = ReadyPart(c) /\ TypedLine = TypedPart(c)
        /\ EndedLines' = ReadyPart(d) /\ TypedLine' = TypedPart(d)
    BY <2>1 DEF EndedLines, TypedLine, Chunk, ReadyPart, TypedPart, Part, Ready, Typed
  <2>3. /\ Ready(c) + Typed(c) <= INPUT_BUF_SIZE /\ c.r # c.w
        /\ d.buf = c.buf /\ d.r = Up(c.r) /\ d.w = c.w /\ d.e = c.e
        /\ taken' = c.buf[Slot(c.r)]
    BY <1>1, <1>2, <1>4, <2>1
  <2>4. /\ ReadyPart(d) = Tail(ReadyPart(c)) /\ TypedPart(d) = TypedPart(c)
        /\ ReadyPart(c) # <<>> /\ Head(ReadyPart(c)) = c.buf[Slot(c.r)]
    BY <2>3, CharRead
  <2> QED
    BY <2>2, <2>3, <2>4 DEF Lines!Take
<1> QED
  BY <1>2, <1>3, <1>4

\* A step that sets cons.lock, and of the rest of cons nothing.
LEMMA LockSeen ==
  ASSUME Inv, NEW l \in Readers \cup {Handler, Nobody}, cons' = [cons EXCEPT !.lock = l], taken' = taken
  PROVE  Same
<1>1. cons \in Rings
  BY DEF Inv, InPart, InTypes
<1>2. cons'.r = cons.r /\ cons'.w = cons.w /\ cons'.e = cons.e /\ cons'.buf = cons.buf
  BY <1>1, LockSet
<1> QED
  BY <1>2, LinesKept DEF Same

LEMMA LineInitSeen == TtyInit => Lines!LineInit
<1> SUFFICES ASSUME TtyInit PROVE Lines!LineInit
  OBVIOUS
<1>1. Inv
  BY InvInit
<1>2. /\ cons \in Rings /\ Ready(cons) + Typed(cons) <= INPUT_BUF_SIZE /\ taken \in Chars
      /\ cons.r = cons.w /\ cons.e = cons.w
  BY <1>1 DEF Inv, InPart, InTypes, Fits, TtyInit
<1>3. Ready(cons) = 0 /\ Typed(cons) = 0
  BY <1>2, PartsAre
<1>4. /\ ReadyPart(cons) \in Seq(Chars) /\ Len(ReadyPart(cons)) = 0
      /\ TypedPart(cons) \in Seq(Chars) /\ Len(TypedPart(cons)) = 0
  BY <1>2, <1>3, PartsOf
<1>5. EndedLines = <<>> /\ TypedLine = <<>>
  BY <1>4, EmptySeq, LinesAre
<1> QED
  BY <1>2, <1>5 DEF Lines!LineInit

LEMMA LineStep ==
  ASSUME Inv, [TtyNext]_ttyvars
  PROVE  Same \/ Lines!LineNext
<1>1. ASSUME cons' = cons, taken' = taken PROVE Same
  BY <1>1, LinesKept DEF Same
<1>2. CASE UNCHANGED ttyvars
  BY <1>1, <1>2 DEF ttyvars, inputs
<1>3. CASE KeyPressed \/ Transmitted \/ Uartintr \/ Uartgetc \/ EchoTest \/ EchoWrite \/ UartintrSend
  BY <1>1, <1>3 DEF KeyPressed, Transmitted, Uartintr, Uartgetc, EchoTest, EchoWrite, UartintrSend, inputs
<1>4. CASE Consoleintr \/ KillLine \/ ConsoleErased
  <2>1. /\ taken' = taken
        /\ \/ Erasable /\ cons' = [[cons EXCEPT !.e = Down(@)] EXCEPT !.lock = Handler]
           \/ \E l \in {Handler, Nobody} : cons' = [cons EXCEPT !.lock = l]
    BY <1>4 DEF Consoleintr, KillLine, ConsoleErased, HoldCons, LeaveCons
  <2> QED
    BY <2>1, EraseSeen, LockSeen DEF Lines!LineNext
<1>5. CASE ConsoleStore
  BY <1>5, StoreSeen DEF Lines!LineNext
<1>6. ASSUME NEW p \in Writers \cup {Handler}, Uartputc(p) \/ Uartstart(p) \/ UartstartWrite(p) PROVE Same
  BY <1>1, <1>6 DEF Uartputc, Uartstart, UartstartWrite, inputs
<1>7. ASSUME NEW p \in Readers, ReadBegin(p) \/ ReadAgain(p) \/ ReadSleeps(p) \/ KillReader(p) PROVE Same
  <2>1. CASE ReadBegin(p) \/ ReadAgain(p)
    <3>1. cons' = [cons EXCEPT !.lock = p] /\ taken' = taken
      BY <2>1 DEF ReadBegin, ReadAgain
    <3> QED
      BY <3>1, LockSeen
  <2>2. CASE ReadSleeps(p)
    <3>1. cons' = [cons EXCEPT !.lock = Nobody] /\ taken' = taken
      BY <2>2 DEF ReadSleeps
    <3> QED
      BY <3>1, LockSeen
  <2>3. CASE KillReader(p)
    BY <1>1, <2>3 DEF KillReader
  <2> QED
    BY <1>7, <2>1, <2>2, <2>3
<1>8. ASSUME NEW p \in Readers, ReadLoop(p) PROVE Same \/ Lines!LineNext
  BY <1>8, ReadSeen DEF Lines!LineNext
<1> QED
  BY <1>2, <1>3, <1>4, <1>5, <1>6, <1>7, <1>8 DEF TtyNext

\* What the three indices of cons are for: for any number of readers and any size of
\* buffer, the console is a buffer of ended lines and one line that is edited; what was
\* typed is read once and in order, whatever is erased, and never before its line ends.
THEOREM ConsoleIsLineBuffer == TtySpec => LineBufferSpec
<1>1. Inv /\ [TtyNext]_ttyvars => [Lines!LineNext]_(Lines!linevars)
  BY LineStep DEF Same, Lines!linevars
<1> QED
  BY <1>1, InvInit, InvNext, LineInitSeen, PTL DEF TtySpec, LineBufferSpec, Lines!LineSpec
=============================================================================
