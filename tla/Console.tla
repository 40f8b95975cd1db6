------------------------------ MODULE Console -------------------------------
(***************************************************************************)
(* The console (LAB3 kernel/console.c) on the UART (uart.c): processes     *)
(* that read lines or write, the interrupt handler that edits what is      *)
(* typed, and the device.                                                  *)
(*                                                                         *)
(* Grain.  A process takes one step from the call, or a wakeup, to a       *)
(* sleep() or the return, under cons.lock or uart_tx_lock.  The handler    *)
(* takes a step per character; its echo, which waits for the UART with     *)
(* cons.lock held but without uart_tx_lock, takes two.                     *)
(***************************************************************************)
EXTENDS Naturals, Sequences, FiniteSets, SequencesExt

CONSTANTS Readers, Writers, \* processes
          Scenes,           \* what is typed, read, written, and the kills
          INBUF, INDEX,     \* INPUT_BUF_SIZE; indices are modulo INDEX
          TXBUF, RXFIFO     \* UART_TX_BUF_SIZE; characters the UART keeps

ASSUME ConsoleAssumption ==
  /\ INDEX % INBUF = 0 /\ INDEX > INBUF /\ INBUF \in Nat \ {0}
  /\ TXBUF \in Nat \ {0} /\ RXFIFO \in Nat \ {0}

VARIABLES
  keys,               \* still to be typed: letters, "nl", "^D", "^U", "^H"
  rx, thr, uirq,      \* the UART: received, to be sent; its interrupt
  hpc, echoes,        \* the handler; what it has still to echo under cons.lock
  cbuf, cr, cw, ce,   \* cons.buf, cons.r, cons.w, cons.e
  reads, want, rpc,   \* each reader: the reads left, how much of this one, where
  asked, ckilled,     \* how much it asked for; whether it was killed
  txbuf,              \* the characters between uart_tx_r and uart_tx_w
  writes, wpc,        \* each writer: characters left, where
  ckills,             \* kill() calls still to come
  screen,             \* what came out
  taken, lines, line  \* history: what readers took; complete lines; the last one

consVars == <<cbuf, cr, cw, ce>>
readVars == <<reads, want, rpc, asked, ckilled>>
uartVars == <<rx, thr, uirq>>
lineVars == <<taken, lines, line>>
conVars  == <<keys, uartVars, hpc, echoes, consVars, readVars, txbuf, writes, wpc, ckills,
              screen, lineVars>>

ConInit ==
  /\ \E s \in Scenes : /\ keys = s.keys /\ reads = s.reads /\ writes = s.writes
                       /\ ckills = s.kills
  /\ rx = <<>> /\ thr = <<>> /\ uirq = FALSE
  /\ hpc = "off" /\ echoes = 0
  /\ cbuf = [i \in 0..INBUF-1 |-> ""]
  /\ cr = 0 /\ cw = 0 /\ ce = 0
  /\ want  = [p \in Readers |-> 0] /\ asked = [p \in Readers |-> 0]
  /\ rpc   = [p \in Readers |-> "user"]
  /\ ckilled = {}
  /\ txbuf = <<>>
  /\ wpc   = [p \in Writers |-> "user"]
  /\ screen = <<>> /\ taken = <<>> /\ lines = <<>> /\ line = <<>>

Echo == [from |-> "echo", n |-> 0]

-----------------------------------------------------------------------------
(* The UART.                                                               *)

\* A key is pressed.
TypeKey ==
  /\ keys # <<>> /\ Len(rx) < RXFIFO
  /\ keys' = Tail(keys)
  /\ rx'   = Append(rx, Head(keys))
  /\ uirq' = TRUE
  /\ UNCHANGED <<thr, hpc, echoes, consVars, readVars, txbuf, writes, wpc, ckills, screen, lineVars>>

\* A character goes out; after the last one the UART is idle and interrupts.
Transmit ==
  /\ thr # <<>>
  /\ screen' = Append(screen, Head(thr))
  /\ thr'    = Tail(thr)
  /\ uirq'   = (uirq \/ Len(thr) = 1)
  /\ UNCHANGED <<keys, rx, hpc, echoes, consVars, readVars, txbuf, writes, wpc, ckills, lineVars>>

\* (Mutation: uartstart() does not wake the writers.)
WritersWoken_not(pcs) == pcs

\* wakeup(&uart_tx_r).
WritersWoken(pcs) == [p \in Writers |-> IF pcs[p] = "asleep" THEN "putc" ELSE pcs[p]]

\* uartstart() with buffer b: as long as the UART is idle, which it may be again
\* at once, it gets the next character.
uartstart(b, pcs) ==
  IF b = <<>> \/ thr # <<>>
    THEN txbuf' = b /\ wpc' = pcs /\ UNCHANGED <<thr, screen, uirq>>
    ELSE \E k \in 1..Len(b) :
           /\ txbuf'  = SubSeq(b, k + 1, Len(b))
           /\ thr'    = <<b[k]>>
           /\ screen' = screen \o SubSeq(b, 1, k - 1)
           /\ uirq'   = (uirq \/ k > 1)
           /\ wpc'    = WritersWoken(pcs)

-----------------------------------------------------------------------------
(* Writers.                                                                *)

\* uartputc() for the next character of consolewrite(), from the call or from
\* sleep().
uartputc(p) ==
  /\ wpc[p] \in {"user", "putc"} /\ writes[p] > 0
  /\ IF Len(txbuf) = TXBUF
       THEN /\ wpc' = [wpc EXCEPT ![p] = "asleep"]
            /\ UNCHANGED <<txbuf, thr, screen, uirq, writes>>
       ELSE /\ writes' = [writes EXCEPT ![p] = @ - 1]
            /\ uartstart(Append(txbuf, [from |-> p, n |-> writes[p]]),
                         [wpc EXCEPT ![p] = "user"])
  /\ UNCHANGED <<keys, rx, hpc, echoes, consVars, readVars, ckills, lineVars>>

-----------------------------------------------------------------------------
(* Readers.                                                                *)

Dist(i, j)  == (j + INDEX - i) % INDEX
Stored(i, j) == [k \in 1..Dist(i, j) |-> cbuf[(i + k - 1) % INBUF]]

\* consoleread() takes a whole line, what was asked for, or what there is; a ^D
\* that comes after something stays for the next one.
consoleread(p) ==
  /\ hpc \notin {"echo", "put"}
  /\ \/ rpc[p] = "user" /\ reads[p] # <<>>
     \/ rpc[p] = "read"
  /\ LET n     == IF rpc[p] = "user" THEN Head(reads[p]) ELSE want[p]
         all   == IF rpc[p] = "user" THEN n ELSE asked[p]
         there == Stored(cr, cw)
         front == SubSeq(there, 1, IF n < Len(there) THEN n ELSE Len(there))
         stop  == SelectInSeq(front, LAMBDA c : c \in {"nl", "^D"})
         eof   == stop # 0 /\ front[stop] = "^D"
         first == eof /\ n = all /\ stop = 1
         k     == IF stop = 0 THEN Len(front) ELSE IF eof /\ ~first THEN stop - 1 ELSE stop
         waits == stop = 0 /\ Len(front) < n
         dies  == waits /\ p \in ckilled IN
       /\ cr'    = (cr + k) % INDEX
       /\ taken' = taken \o SubSeq(there, 1, k)
       /\ reads' = [reads EXCEPT ![p] = IF dies \/ first THEN <<>>
                                        ELSE IF rpc[p] = "user" THEN Tail(@) ELSE @]
       /\ rpc'   = [rpc EXCEPT ![p] = IF waits /\ ~dies THEN "asleep" ELSE "user"]
       /\ want'  = [want EXCEPT ![p] = n - k]
       /\ asked' = [asked EXCEPT ![p] = all]
  /\ UNCHANGED <<keys, uartVars, hpc, echoes, cbuf, cw, ce, ckilled, txbuf, writes, wpc, ckills,
                 screen, lines, line>>

\* kill() of a process that sleeps; a writer goes on to wait.
KillUser(p) ==
  /\ ckills > 0 /\ ckills' = ckills - 1
  /\ \/ /\ p \in Readers /\ rpc[p] = "asleep"
        /\ rpc' = [rpc EXCEPT ![p] = "read"]
        /\ ckilled' = ckilled \union {p}
        /\ UNCHANGED wpc
     \/ /\ p \in Writers /\ wpc[p] = "asleep"
        /\ wpc' = [wpc EXCEPT ![p] = "putc"]
        /\ UNCHANGED <<rpc, ckilled>>
  /\ UNCHANGED <<keys, uartVars, hpc, echoes, consVars, reads, want, asked, txbuf, writes,
                 screen, lineVars>>

-----------------------------------------------------------------------------
(* The interrupt handler; the PLIC lets one CPU at a time run it.          *)

ReadersWoken == [p \in Readers |-> IF rpc[p] = "asleep" THEN "read" ELSE rpc[p]]

ClaimUart ==
  /\ hpc = "off" /\ uirq
  /\ uirq' = FALSE
  /\ hpc'  = "rx"
  /\ UNCHANGED <<keys, rx, thr, echoes, consVars, readVars, txbuf, writes, wpc, ckills, screen, lineVars>>

\* How many characters ^H and ^U erase: those of the line being edited.
Erased(c) ==
  LET open == Stored(cw, ce) IN
    CASE c = "^H" -> IF open = <<>> THEN 0 ELSE 1
      [] c = "^U" -> Len(open) - SelectLastInSeq(open, LAMBDA d : d = "nl")
      [] OTHER    -> 0

\* (Mutation: room for the line, over what is not read yet.)
Room_line == Dist(cw, ce) < INBUF

Room == Dist(cr, ce) < INBUF

\* uartgetc() and consoleintr(), which echoes under cons.lock.
consoleintr ==
  /\ hpc = "rx" /\ rx # <<>>
  /\ rx' = Tail(rx)
  /\ LET c    == Head(rx)
         edit == c \in {"^H", "^U"}
         e    == (ce + 1) % INDEX
         done == c \in {"nl", "^D"} \/ Dist(cr, e) = INBUF IN
       IF edit \/ ~Room
         THEN /\ ce'     = (ce + INDEX - Erased(c)) % INDEX
              /\ echoes' = Erased(c)
              /\ line'   = SubSeq(line, 1, Len(line) - Erased(c))
              /\ UNCHANGED <<cbuf, cw, rpc, lines>>
         ELSE /\ cbuf'   = [cbuf EXCEPT ![ce % INBUF] = c]
              /\ ce'     = e
              /\ echoes' = 1
              /\ cw'     = IF done THEN e ELSE cw
              /\ rpc'    = IF done THEN ReadersWoken ELSE rpc
              /\ line'   = IF done THEN <<>> ELSE Append(line, c)
              /\ lines'  = IF done THEN lines \o Append(line, c) ELSE lines
  /\ hpc' = IF echoes' > 0 THEN "echo" ELSE "rx"
  /\ UNCHANGED <<keys, thr, uirq, cr, reads, want, asked, ckilled, txbuf, writes, wpc, ckills,
                 screen, taken>>

\* uartputc_sync() waits until the UART is idle ...
EchoWait ==
  /\ hpc = "echo" /\ thr = <<>>
  /\ hpc' = "put"
  /\ UNCHANGED <<keys, uartVars, echoes, consVars, readVars, txbuf, writes, wpc, ckills, screen, lineVars>>

\* ... and writes, whatever uartstart() has written in between.
EchoPut ==
  /\ hpc = "put"
  /\ thr'    = Append(thr, Echo)
  /\ echoes' = echoes - 1
  /\ hpc'    = IF echoes > 1 THEN "echo" ELSE "rx"
  /\ UNCHANGED <<keys, rx, uirq, consVars, readVars, txbuf, writes, wpc, ckills, screen, lineVars>>

\* The end of uartintr().
SendMore ==
  /\ hpc = "rx" /\ rx = <<>>
  /\ hpc' = "off"
  /\ uartstart(txbuf, wpc)
  /\ UNCHANGED <<keys, rx, echoes, consVars, readVars, writes, ckills, lineVars>>

-----------------------------------------------------------------------------
Handler == ClaimUart \/ consoleintr \/ EchoWait \/ EchoPut \/ SendMore

ConNext ==
  \/ TypeKey \/ Transmit \/ Handler
  \/ \E p \in Readers : consoleread(p)
  \/ \E p \in Writers : uartputc(p)
  \/ \E p \in Readers \union Writers : KillUser(p)

\* Everybody types what he has to; the UART sends and interrupts; processes go on.
ConFairness ==
  /\ WF_conVars(TypeKey) /\ WF_conVars(Transmit) /\ WF_conVars(Handler)
  /\ \A p \in Readers : WF_conVars(consoleread(p))
  /\ \A p \in Writers : WF_conVars(uartputc(p))

ConSpec == ConInit /\ [][ConNext]_conVars /\ ConFairness
-----------------------------------------------------------------------------
(* Properties.                                                             *)

\* What readers have taken and what waits for them are the lines as they were typed
\* and edited, wherever the indices wrap; the rest of the buffer is being edited.
LinesInOrder ==
  /\ taken \o Stored(cr, cw) = lines
  /\ Stored(cw, ce) = line

\* Everything that writer p had to write has come out, once and in its order.
Out(p) ==
  LET mine == SelectSeq(screen, LAMBDA b : b.from = p)
  IN  mine = Reverse([k \in 1..Len(mine) |-> [from |-> p, n |-> k]])

\* The buffers, the handler and the UART are empty, nobody waits to write, and who
\* waits to read has nothing to read.
Served ==
  /\ keys = <<>> /\ rx = <<>> /\ hpc = "off" /\ thr = <<>> /\ txbuf = <<>>
  /\ \A p \in Writers : writes[p] = 0 /\ wpc[p] = "user" /\ Out(p)
  /\ \A p \in Readers : IF rpc[p] = "asleep" THEN cr = cw ELSE rpc[p] = "user" /\ reads[p] = <<>>

\* console.c:46-51, 74-79 and uart.c:80-84, 141: in the end all that writers wrote has
\* come out in order, though echoes bypass their buffer and its lock; no reader
\* sleeps on input, no writer on a free buffer; and readers got the lines as typed
\* and edited (while they slept, with a ^D kept for the next read, in a buffer that
\* was full).  taken and lines only grow: what once went wrong shows in the end.
ConsoleServes == <>[](Served /\ LinesInOrder)
=============================================================================
