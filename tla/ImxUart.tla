------------------------------ MODULE ImxUart ------------------------------
(***************************************************************************)
(* The debug UART (imx_uart.c) and the console on it (debug.c).  The        *)
(* processors of the secure world and the normal world write to one         *)
(* transmit FIFO without a lock; the device sends and receives on its own.  *)
(* A character written to a full FIFO is lost, and what a read of an empty  *)
(* receive FIFO returns is undefined.                                       *)
(***************************************************************************)
EXTENDS Integers, Sequences, SequencesExt

CONSTANTS Cpu,         \* processors that run the secure world
          Text,        \* characters to print, "LF" is '\n'
          RxText,      \* characters that arrive
          FIFO_DEPTH,
          MaxPut,      \* bound: characters printed by a processor
          MaxRx,       \* bound: characters received
          NormalWrites \* bound: characters the normal world prints

NoChar == "-1"
Garbage == "undefined"
NormalWorld == "normal world"

ASSUME UartAssumption ==
  /\ FIFO_DEPTH \in Nat \ {0}
  /\ MaxPut \in Nat /\ MaxRx \in Nat /\ NormalWrites \in Nat
  /\ NormalWorld \notin Cpu

VARIABLES
  pc,    \* [Cpu -> what the processor does next]
  todo,  \* [Cpu -> bytes of the uart_putc call not yet written]
  tx,    \* transmit FIFO: bytes with their writer
  line,  \* ghost: bytes sent
  put,   \* ghost: [Cpu -> characters given to uart_putc]
  rx,    \* receive FIFO
  rcvd,  \* number of characters received, for the bound
  ret,   \* result of the last read, NoChar is -1
  nw,    \* characters the normal world has printed, for the bound
  crowded \* ghost: processors that wrote to a FIFO the normal world had helped to fill

txVars == <<todo, tx, line, put, nw, crowded>>
rxVars == <<rx, rcvd, ret>>
vars == <<pc, txVars, rxVars>>

\* uart_init does nothing: the boot loader has set the UART up.
Init ==
  /\ pc = [u \in Cpu |-> "idle"]
  /\ todo = [u \in Cpu |-> << >>]
  /\ tx = << >> /\ line = << >>
  /\ put = [u \in Cpu |-> << >>]
  /\ rx = << >> /\ rcvd = 0 /\ ret = NoChar
  /\ nw = 0 /\ crowded = {}

Goto(u, label) == pc' = [pc EXCEPT ![u] = label]

----------------------------------------------------------------------------
(* Transmission.                                                           *)

Bytes(c) == IF c = "LF" THEN <<"CR", "LF">> ELSE <<c>>

\* uart_putc is called, by platform_dputc or directly.
uart_putc(u, c) ==
  /\ pc[u] = "idle" /\ Len(put[u]) < MaxPut
  /\ todo' = [todo EXCEPT ![u] = Bytes(c)]
  /\ put' = [put EXCEPT ![u] = Append(put[u], c)]
  /\ Goto(u, "write")
  /\ UNCHANGED <<tx, line, nw, crowded, rxVars>>

\* The FIFO after a write of b to UTXD.
Pushed(who, b) == IF Len(tx) < FIFO_DEPTH THEN Append(tx, <<who, b>>) ELSE tx

\* There is no room, and a byte of the normal world takes a place.
NoRoom == Len(tx) >= FIFO_DEPTH /\ \E i \in 1 .. Len(tx) : tx[i][1] = NormalWorld

write_utxd(u) ==
  /\ pc[u] = "write"
  /\ tx' = Pushed(u, Head(todo[u]))
  /\ todo' = [todo EXCEPT ![u] = Tail(todo[u])]
  /\ crowded' = crowded \cup (IF NoRoom THEN {u} ELSE {})
  /\ Goto(u, "poll")
  /\ UNCHANGED <<line, put, nw, rxVars>>

\* Mutant: waits for room instead.
TxEmpty_room == Len(tx) < FIFO_DEPTH

\* Mutant: the flag is taken the wrong way round.
TxEmpty_inverted == tx # << >>

\* UTS_TXEMPTY
TxEmpty == tx = << >>

\* Mutant: the line feed does not wait for the carriage return.
poll_sent_hasty(u) ==
  /\ pc[u] = "poll" /\ (todo[u] = << >> => TxEmpty)
  /\ Goto(u, IF todo[u] = << >> THEN "idle" ELSE "write")
  /\ UNCHANGED <<txVars, rxVars>>

\* "wait until sent"; after the carriage return comes the line feed.
poll_sent(u) ==
  /\ pc[u] = "poll" /\ TxEmpty
  /\ Goto(u, IF todo[u] = << >> THEN "idle" ELSE "write")
  /\ UNCHANGED <<txVars, rxVars>>

uart_flush_tx(u) ==
  /\ \/ pc[u] = "idle" /\ Goto(u, "flush")
     \/ pc[u] = "flush" /\ TxEmpty /\ Goto(u, "idle")
  /\ UNCHANGED <<txVars, rxVars>>

----------------------------------------------------------------------------
(* Reception.                                                              *)

uart_getc(u, wait) ==
  /\ pc[u] = "idle"
  /\ Goto(u, IF wait THEN "getc_wait" ELSE "getc")
  /\ UNCHANGED <<txVars, rxVars>>

\* With wait: poll until UTS_RXEMPTY is clear.
uart_getc_poll(u) ==
  /\ pc[u] = "getc_wait" /\ rx # << >>
  /\ Goto(u, "read")
  /\ UNCHANGED <<txVars, rxVars>>

\* Without: -1 unless UTS_RXEMPTY is set.
uart_getc_nowait(u) ==
  /\ pc[u] = "getc"
  /\ IF rx # << >> THEN ret' = NoChar /\ Goto(u, "idle")
                    ELSE UNCHANGED ret /\ Goto(u, "read")
  /\ UNCHANGED <<txVars, rx, rcvd>>

\* Another processor may have emptied the FIFO since the poll.
read_urxd(u) ==
  /\ pc[u] = "read"
  /\ IF rx = << >> THEN ret' = Garbage /\ UNCHANGED rx
                    ELSE ret' = Head(rx) /\ rx' = Tail(rx)
  /\ Goto(u, "idle")
  /\ UNCHANGED <<txVars, rcvd>>

\* The console never reads: -1, after a sleep if the caller waits.
platform_dgetc(u) == pc[u] = "idle" /\ ret' = NoChar /\ UNCHANGED <<pc, txVars, rx, rcvd>>

----------------------------------------------------------------------------
(* The device and the normal world, whose driver waits for room.           *)

Transmit ==
  /\ tx # << >>
  /\ line' = Append(line, Head(tx)) /\ tx' = Tail(tx)
  /\ UNCHANGED <<pc, todo, put, nw, crowded, rxVars>>

Receive(c) ==
  /\ rcvd < MaxRx /\ Len(rx) < FIFO_DEPTH
  /\ rx' = Append(rx, c) /\ rcvd' = rcvd + 1
  /\ UNCHANGED <<pc, txVars, ret>>

NormalWorldWrites ==
  /\ nw < NormalWrites /\ Len(tx) < FIFO_DEPTH
  /\ tx' = Append(tx, <<NormalWorld, "n">>)
  /\ nw' = nw + 1
  /\ UNCHANGED <<pc, todo, line, put, crowded, rxVars>>

Driver(u) == \/ write_utxd(u)
             \/ poll_sent(u)
             \/ uart_getc_poll(u)
             \/ uart_getc_nowait(u)
             \/ read_urxd(u)

Next == \/ \E u \in Cpu :
             \/ \E c \in Text : uart_putc(u, c)
             \/ uart_flush_tx(u)
             \/ \E wait \in BOOLEAN : uart_getc(u, wait)
             \/ platform_dgetc(u)
             \/ Driver(u)
        \/ Transmit
        \/ \E c \in RxText : Receive(c)
        \/ NormalWorldWrites

Spec == Init /\ [][Next]_vars

\* The processors run on and the device sends what it has.
FairSpec == Spec /\ (\A u \in Cpu : WF_vars(Driver(u))) /\ WF_vars(Transmit)

----------------------------------------------------------------------------
(* Properties.                                                             *)

\* The bytes that u has written, in the order of s.
From(u, s) == FlattenSeq([i \in 1 .. Len(s) |-> IF s[i][1] = u THEN <<s[i][2]>> ELSE << >>])

\* Text as it should appear on the line.
OnLine(s) == FlattenSeq([i \in 1 .. Len(s) |-> IF s[i] = "LF" THEN <<"CR", s[i]>> ELSE <<s[i]>>])

(* Everything a processor printed has been or will be sent, in its order    *)
(* and with a carriage return before each line feed, whatever the other     *)
(* processors print, although nobody looks at UTS_TXFULL: each has at most  *)
(* one byte in the FIFO.  Only a normal world that fills the FIFO at the    *)
(* wrong moment takes a byte away.                                          *)
NothingLost ==
  \A u \in Cpu \ crowded :
    From(u, line \o tx) \o todo[u] = OnLine(put[u])

(* When uart_putc has returned, nothing of its caller is left in the FIFO   *)
(* ("wait until sent"), whoever else prints.                                *)
SentOnReturn ==
  \A u \in Cpu : pc[u] = "idle" => \A i \in 1 .. Len(tx) : tx[i][1] # u

(* uart_getc without wait returns -1 only when the FIFO was empty, and      *)
(* reads it only when it was not ("RxFIFO empty", imx_uart.c:79).           *)
GetcFaithful ==
  [][\A u \in Cpu :
       /\ pc[u] = "getc" /\ pc'[u] = "idle" => rx = << >>
       /\ pc[u] = "getc" /\ pc'[u] = "read" => rx # << >>]_vars

(* uart_putc returns: its polling loops end.                                *)
PutcReturns == \A u \in Cpu : pc[u] \in {"write", "poll"} ~> pc[u] = "idle"
============================================================================
