--------------------------- MODULE ImxUartProofs ---------------------------
(***************************************************************************)
(* Proofs about ImxUart for every number of processors, every text and      *)
(* every depth of the FIFOs.                                                *)
(*                                                                          *)
(* The invariant behind both theorems is that a processor has a byte in the *)
(* transmit FIFO only while it polls UTS_TXEMPTY, and one only: hence a     *)
(* FIFO with a place for each processor has room for the one that writes,   *)
(* unless the normal world has taken a place.                               *)
(***************************************************************************)
EXTENDS ImxUart, SeqLemmas, FiniteSetTheorems

Byte == Text \cup {"CR", "LF"}
AnyByte == Byte \cup {"n"}  \* the normal world writes "n"
Writer == Cpu \cup {NormalWorld}
Steps == {"idle", "write", "poll", "flush", "getc", "getc_wait", "read"}

UartType ==
  /\ pc \in [Cpu -> Steps]
  /\ todo \in [Cpu -> Seq(Byte)]
  /\ tx \in Seq(Writer \X AnyByte) /\ line \in Seq(Writer \X AnyByte)
  /\ put \in [Cpu -> Seq(Text)]
  /\ rx \in Seq(RxText)

(* Bytes are left to write only inside uart_putc.                           *)
TodoInPutc ==
  \A u \in Cpu : /\ pc[u] = "write" => todo[u] # << >>
                 /\ pc[u] \notin {"write", "poll"} => todo[u] = << >>

(* A processor that does not poll has nothing in the FIFO.                  *)
PollsForIts == \A u \in Cpu : pc[u] # "poll" => \A i \in 1 .. Len(tx) : tx[i][1] # u

(* A processor has at most one byte in the FIFO.                            *)
OneEach ==
  \A i, j \in 1 .. Len(tx) : i # j /\ tx[i][1] = tx[j][1] => tx[i][1] = NormalWorld

IndInv == UartType /\ TodoInPutc /\ PollsForIts /\ OneEach

----------------------------------------------------------------------------
(* What is on the line.                                                    *)

Sent(u, x) == IF x[1] = u THEN <<x[2]>> ELSE << >>

(* One more entry adds its byte to what its writer has sent.                *)
LEMMA FromAppend ==
  ASSUME NEW u, NEW s \in Seq(Writer \X AnyByte), NEW x \in Writer \X AnyByte
  PROVE  From(u, Append(s, x)) = From(u, s) \o Sent(u, x) /\ From(u, s) \in Seq(AnyByte)
<1> DEFINE q(t) == [i \in 1 .. Len(t) |-> Sent(u, t[i])]
<1>1. \A y \in Writer \X AnyByte : Sent(u, y) \in Seq(AnyByte)
  BY DEF Sent
<1>2. q(s) \in Seq(Seq(AnyByte))
  BY <1>1
<1>3. q(Append(s, x)) = Append(q(s), Sent(u, x))
  OBVIOUS
<1>4. \A t : From(u, t) = FlattenSeq(q(t))
  BY DEF From, Sent
<1> HIDE DEF q
<1>5. Sent(u, x) \in Seq(AnyByte)
  BY <1>1
<1>6. FlattenSeq(q(s)) \in Seq(AnyByte) /\ FlattenSeq(Append(q(s), Sent(u, x))) = FlattenSeq(q(s)) \o Sent(u, x)
  BY ONLY <1>2, <1>5, FlattenAppend
<1> QED
  BY <1>3, <1>4, <1>6

\* Text on the line, one character.
Shown(c) == IF c = "LF" THEN <<"CR", c>> ELSE <<c>>

(* One more character adds itself, after a carriage return if it is a line  *)
(* feed.                                                                    *)
LEMMA OnLineAppend ==
  ASSUME NEW s \in Seq(Text), NEW c \in Text
  PROVE  OnLine(Append(s, c)) = OnLine(s) \o Shown(c) /\ OnLine(s) \in Seq(Byte)
<1> DEFINE q(t) == [i \in 1 .. Len(t) |-> Shown(t[i])]
<1>1. \A y \in Text : Shown(y) \in Seq(Byte)
  <2>1. \A y \in Byte : <<y>> \in Seq(Byte) /\ <<"CR", y>> \in Seq(Byte)
    <3>1. "CR" \in Byte
      BY DEF Byte
    <3> QED
      BY <3>1
  <2> QED
    BY <2>1 DEF Shown, Byte
<1>2. q(s) \in Seq(Seq(Byte))
  BY <1>1
<1>3. q(Append(s, c)) = Append(q(s), Shown(c))
  OBVIOUS
<1>4. \A t : OnLine(t) = FlattenSeq(q(t))
  BY DEF OnLine, Shown
<1> QED
  BY <1>1, <1>2, <1>3, <1>4, FlattenAppend

----------------------------------------------------------------------------
(* IndInv is inductive.                                                    *)

(* Nothing has been printed or received at boot.                            *)
LEMMA InitInd == Init => IndInv
<1> SUFFICES ASSUME Init PROVE IndInv
  OBVIOUS
<1> USE DEF Init
<1>1. UartType
  BY UartAssumption DEF UartType, Steps
<1>2. TodoInPutc /\ PollsForIts /\ OneEach
  BY DEF TodoInPutc, PollsForIts, OneEach
<1> QED
  BY <1>1, <1>2 DEF IndInv

\* Steps that touch neither FIFO, with their processor.
Turns(u) == \/ poll_sent(u) \/ uart_flush_tx(u) \/ platform_dgetc(u)
            \/ \E wait \in BOOLEAN : uart_getc(u, wait)
            \/ uart_getc_poll(u) \/ uart_getc_nowait(u)

(* A processor moves on without touching a FIFO.                            *)
LEMMA TurnStep ==
  ASSUME IndInv, NEW u \in Cpu, Turns(u)
  PROVE  IndInv'
<1>1. UNCHANGED <<todo, tx, line, put, crowded, rx>>
  BY DEF Turns, poll_sent, uart_flush_tx, platform_dgetc, uart_getc, uart_getc_poll, uart_getc_nowait,
       txVars, rxVars
<1>2. PICK s \in Steps : pc' = [pc EXCEPT ![u] = s] /\ (s = "write" => todo[u] # << >>)
                          /\ s # "poll"
                          /\ (pc[u] = "poll" => TxEmpty)
                          /\ (s \notin {"write", "poll"} => todo[u] = << >>)
  <2>1. CASE poll_sent(u)
    BY <2>1 DEF poll_sent, Goto, Steps
  <2>2. CASE uart_flush_tx(u) \/ (\E wait \in BOOLEAN : uart_getc(u, wait))
             \/ uart_getc_poll(u) \/ uart_getc_nowait(u)
    BY <2>2 DEF uart_flush_tx, uart_getc, uart_getc_poll, uart_getc_nowait, Goto, Steps, IndInv, TodoInPutc
  <2>3. CASE platform_dgetc(u)
    <3>1. pc' = [pc EXCEPT ![u] = "idle"] /\ pc[u] = "idle"
      BY <2>3 DEF platform_dgetc, IndInv, UartType
    <3> QED
      BY <3>1 DEF IndInv, TodoInPutc, Steps
  <2> QED
    BY <2>1, <2>2, <2>3 DEF Turns
<1>3. UartType'
  BY <1>1, <1>2 DEF IndInv, UartType
<1>4. TodoInPutc'
  BY <1>1, <1>2 DEF IndInv, UartType, TodoInPutc
<1>5. PollsForIts'
  BY <1>1, <1>2 DEF IndInv, UartType, PollsForIts, TxEmpty
<1>6. OneEach'
  BY <1>1 DEF IndInv, OneEach
<1> QED
  BY <1>3, <1>4, <1>5, <1>6 DEF IndInv

(* uart_putc takes a character.                                             *)
LEMMA PutcStep ==
  ASSUME IndInv, NEW u \in Cpu, NEW c \in Text, uart_putc(u, c)
  PROVE  IndInv'
<1> USE DEF uart_putc, Goto, rxVars
<1>0. Bytes(c) \in Seq(Byte) /\ Bytes(c) # << >>
  <2>1. c \in Byte /\ "CR" \in Byte /\ "LF" \in Byte
    BY DEF Byte
  <2> QED
    BY <2>1 DEF Bytes
<1>1. UartType'
  <2>1. todo' \in [Cpu -> Seq(Byte)] /\ put' \in [Cpu -> Seq(Text)] /\ pc' \in [Cpu -> Steps]
    BY <1>0 DEF IndInv, UartType, Steps
  <2> QED
    BY <2>1 DEF IndInv, UartType
<1>2. TodoInPutc' /\ PollsForIts' /\ OneEach'
  BY <1>0 DEF IndInv, UartType, TodoInPutc, PollsForIts, OneEach
<1> QED
  BY <1>1, <1>2 DEF IndInv

(* The FIFO after a write: it has the byte at its end, or it was full.      *)
LEMMA WriteFifo ==
  ASSUME IndInv, NEW u \in Cpu, write_utxd(u)
  PROVE  /\ todo[u] # << >> /\ Head(todo[u]) \in Byte /\ Tail(todo[u]) \in Seq(Byte)
         /\ <<u, Head(todo[u])>> \in Writer \X AnyByte
         /\ tx' = IF Len(tx) < FIFO_DEPTH THEN Append(tx, <<u, Head(todo[u])>>) ELSE tx
<1>1. todo[u] # << >> /\ todo[u] \in Seq(Byte)
  BY DEF IndInv, UartType, TodoInPutc, write_utxd
<1>2. Head(todo[u]) \in Byte /\ Tail(todo[u]) \in Seq(Byte)
  BY <1>1, HeadTailProperties
<1> QED
  BY <1>1, <1>2 DEF write_utxd, Pushed, Writer, AnyByte

(* A byte is written to UTXD.                                               *)
LEMMA WriteStep ==
  ASSUME IndInv, NEW u \in Cpu, write_utxd(u)
  PROVE  IndInv'
<1>0. /\ todo' = [todo EXCEPT ![u] = Tail(todo[u])] /\ pc' = [pc EXCEPT ![u] = "poll"]
      /\ UNCHANGED <<line, put, rx>>
  BY DEF write_utxd, Goto, rxVars
<1>1. tx' \in Seq(Writer \X AnyByte)
  <2>1. tx \in Seq(Writer \X AnyByte)
    BY DEF IndInv, UartType
  <2>2. PICK x \in Writer \X AnyByte : x = <<u, Head(todo[u])>>
    BY WriteFifo
  <2>3. tx' = tx \/ tx' = Append(tx, x)
    BY <2>2, WriteFifo
  <2> QED
    BY <2>1, <2>3
<1>2. UartType'
  BY <1>0, <1>1, WriteFifo DEF IndInv, UartType, Steps
<1>3. TodoInPutc'
  BY <1>0 DEF IndInv, UartType, TodoInPutc
<1>4. OneEach'
  <2>1. tx \in Seq(Writer \X AnyByte) /\ \A i \in 1 .. Len(tx) : tx[i][1] # u
    BY DEF IndInv, UartType, PollsForIts, write_utxd
  <2>2. CASE tx' = tx
    BY <2>2 DEF IndInv, OneEach
  <2>3. CASE tx' = Append(tx, <<u, Head(todo[u])>>)
    BY <2>1, <2>3 DEF IndInv, OneEach
  <2> QED
    BY <2>2, <2>3, WriteFifo
<1>5. PollsForIts'
  <2> SUFFICES ASSUME NEW d \in Cpu, pc'[d] # "poll", NEW i \in 1 .. Len(tx') PROVE tx'[i][1] # d
    BY DEF PollsForIts
  <2>1. d # u /\ pc[d] # "poll"
    BY <1>0 DEF IndInv, UartType
  <2>2. \A j \in 1 .. Len(tx) : tx[j][1] # d
    BY <2>1 DEF IndInv, PollsForIts
  <2>3. tx \in Seq(Writer \X AnyByte)
    BY DEF IndInv, UartType
  <2>4. CASE tx' = tx
    BY <2>2, <2>4
  <2>5. CASE tx' = Append(tx, <<u, Head(todo[u])>>)
    BY <2>1, <2>2, <2>3, <2>5
  <2> QED
    BY <2>4, <2>5, WriteFifo
<1> QED
  BY <1>2, <1>3, <1>4, <1>5 DEF IndInv

(* A character is read from the receive FIFO, if there is one.              *)
LEMMA ReadStep ==
  ASSUME IndInv, NEW u \in Cpu, read_urxd(u)
  PROVE  IndInv'
<1>0. pc' = [pc EXCEPT ![u] = "idle"] /\ UNCHANGED <<todo, tx, line, put, crowded>> /\ pc[u] = "read"
  BY DEF read_urxd, Goto, txVars
<1>1. rx' \in Seq(RxText)
  BY HeadTailProperties DEF read_urxd, IndInv, UartType
<1>2. UartType'
  BY <1>0, <1>1 DEF IndInv, UartType, Steps
<1>3. TodoInPutc' /\ PollsForIts' /\ OneEach'
  BY <1>0 DEF IndInv, UartType, TodoInPutc, PollsForIts, OneEach
<1> QED
  BY <1>2, <1>3 DEF IndInv

(* The device sends the byte at the head of the FIFO.                       *)
LEMMA TransmitStep ==
  ASSUME IndInv, Transmit
  PROVE  IndInv'
<1>0. UNCHANGED <<pc, todo, put, crowded, rx>>
  BY DEF Transmit, rxVars
<1>1. /\ tx \in Seq(Writer \X AnyByte) /\ tx # << >>
      /\ line \in Seq(Writer \X AnyByte)
      /\ tx' = Tail(tx) /\ line' = Append(line, Head(tx))
  BY DEF Transmit, IndInv, UartType
<1>2. /\ Head(tx) \in Writer \X AnyByte
      /\ Tail(tx) \in Seq(Writer \X AnyByte)
      /\ Len(Tail(tx)) = Len(tx) - 1 /\ \A i \in 1 .. Len(tx) - 1 : Tail(tx)[i] = tx[i + 1]
  BY <1>1, HeadTailProperties
<1>3. UartType'
  BY <1>0, <1>1, <1>2 DEF IndInv, UartType
<1>4. PollsForIts' /\ OneEach'
  BY <1>0, <1>1, <1>2 DEF IndInv, PollsForIts, OneEach
<1>5. TodoInPutc'
  BY <1>0 DEF IndInv, TodoInPutc
<1> QED
  BY <1>3, <1>4, <1>5 DEF IndInv

(* A character arrives.                                                     *)
LEMMA ReceiveStep ==
  ASSUME IndInv, NEW c \in RxText, Receive(c)
  PROVE  IndInv'
<1>0. UNCHANGED <<pc, todo, tx, line, put, crowded>> /\ rx' = Append(rx, c)
  BY DEF Receive, txVars
<1>1. UartType'
  BY <1>0 DEF IndInv, UartType
<1>2. TodoInPutc' /\ PollsForIts' /\ OneEach'
  BY <1>0 DEF IndInv, TodoInPutc, PollsForIts, OneEach
<1> QED
  BY <1>1, <1>2 DEF IndInv

(* The normal world prints a character.                                     *)
LEMMA NormalStep ==
  ASSUME IndInv, NormalWorldWrites
  PROVE  IndInv'
<1> USE DEF NormalWorldWrites, rxVars
<1>0. tx \in Seq(Writer \X AnyByte) /\ <<NormalWorld, "n">> \in Writer \X AnyByte
  BY DEF IndInv, UartType, Writer, AnyByte
<1>1. UartType'
  BY <1>0, UartAssumption DEF IndInv, UartType
<1>2. PollsForIts' /\ OneEach'
  BY <1>0, UartAssumption DEF IndInv, PollsForIts, OneEach
<1>3. TodoInPutc'
  BY DEF IndInv, TodoInPutc
<1> QED
  BY <1>1, <1>2, <1>3 DEF IndInv

(* What a step may be.                                                      *)
LEMMA StepCases ==
  ASSUME [Next]_vars
  PROVE  \/ UNCHANGED vars
         \/ \E u \in Cpu : \/ Turns(u)
                           \/ \E c \in Text : uart_putc(u, c)
                           \/ write_utxd(u)
                           \/ read_urxd(u)
         \/ Transmit
         \/ \E c \in RxText : Receive(c)
         \/ NormalWorldWrites
BY DEF Next, Driver, Turns

(* Every step of the processors, the device and the normal world keeps      *)
(* IndInv.                                                                  *)
LEMMA StepInd == IndInv /\ [Next]_vars => IndInv'
<1> SUFFICES ASSUME IndInv, [Next]_vars PROVE IndInv'
  OBVIOUS
<1>1. CASE UNCHANGED vars
  BY <1>1 DEF vars, txVars, rxVars, IndInv, UartType, TodoInPutc, PollsForIts, OneEach
<1> QED
  BY <1>1, StepCases, TurnStep, PutcStep, WriteStep, ReadStep, TransmitStep, ReceiveStep, NormalStep

(* IndInv holds in every reachable state.                                   *)
THEOREM Inductive == Spec => []IndInv
BY InitInd, StepInd, PTL DEF Spec

(* When uart_putc has returned, its bytes have left the FIFO, whoever else  *)
(* prints.                                                                  *)
THEOREM PutcSends == Spec => []SentOnReturn
<1>1. IndInv => SentOnReturn
  BY DEF IndInv, PollsForIts, SentOnReturn
<1> QED
  BY <1>1, Inductive, PTL

----------------------------------------------------------------------------
(* Nothing is lost that the normal world does not crowd out.                *)

\* The FIFO has a place for each processor.
RoomForEach == IsFiniteSet(Cpu) /\ Cardinality(Cpu) <= FIFO_DEPTH

(* A processor that is about to write finds room, or a byte of the normal   *)
(* world in a full FIFO: the bytes of the other processors are one each.    *)
LEMMA RoomToWrite ==
  ASSUME RoomForEach, IndInv, NEW u \in Cpu, pc[u] # "poll", ~NoRoom
  PROVE  Len(tx) < FIFO_DEPTH
<1> SUFFICES ASSUME Len(tx) >= FIFO_DEPTH PROVE FALSE
  BY UartAssumption DEF IndInv, UartType
<1>1. tx \in Seq(Writer \X AnyByte) /\ Len(tx) \in Nat /\ Len(tx) # 0
  BY UartAssumption DEF IndInv, UartType
<1>2. \A i \in 1 .. Len(tx) : tx[i][1] \in Cpu \ {u}
  <2> SUFFICES ASSUME NEW i \in 1 .. Len(tx) PROVE tx[i][1] \in Cpu \ {u}
    OBVIOUS
  <2>1. tx[i][1] # NormalWorld
    BY DEF NoRoom
  <2>2. tx[i][1] # u
    BY DEF IndInv, PollsForIts
  <2>3. tx[i] \in Writer \X AnyByte
    BY <1>1
  <2>4. tx[i][1] \in Writer
    BY <2>3
  <2> QED
    BY <2>1, <2>2, <2>4 DEF Writer
<1> DEFINE S == 1 .. Len(tx)
           T == Cpu \ {u}
           f == [i \in S |-> tx[i][1]]
<1>3. IsFiniteSet(T) /\ Cardinality(T) = Cardinality(Cpu) - 1 /\ Cardinality(Cpu) \in Nat
  BY FS_RemoveElement, FS_CardinalityType DEF RoomForEach
<1>4. IsFiniteSet(S) /\ Cardinality(S) = Len(tx)
  BY <1>1, FS_Interval
<1>5. Cardinality(T) < Cardinality(S)
  BY <1>1, <1>3, <1>4, UartAssumption DEF RoomForEach
<1>6. f \in [S -> T]
  BY <1>2
<1>7. \E i, j \in S : i # j /\ f[i] = f[j]
  <2> HIDE DEF S, T, f
  <2> QED
    BY <1>3, <1>4, <1>5, <1>6, FS_PigeonHole
<1>8. PICK i \in S, j \in S : i # j /\ tx[i][1] = tx[j][1]
  BY <1>7
<1> QED
  BY <1>2, <1>8, UartAssumption DEF IndInv, OneEach

Entries == line \o tx

(* What IndInv says of the bytes on their way.                              *)
LEMMA EntriesType ==
  ASSUME IndInv
  PROVE  /\ Entries \in Seq(Writer \X AnyByte)
         /\ \A u \in Cpu : From(u, Entries) \in Seq(AnyByte)
         /\ \A u \in Cpu : todo[u] \in Seq(Byte) /\ todo[u] \in Seq(AnyByte)
<1>1. Entries \in Seq(Writer \X AnyByte)
  BY ConcatProperties DEF IndInv, UartType, Entries, AnyByte
<1>2. <<NormalWorld, "n">> \in Writer \X AnyByte
  BY DEF Writer, AnyByte
<1>3. \A u \in Cpu : From(u, Entries) \in Seq(AnyByte)
  BY <1>1, <1>2, FromAppend
<1>4. \A u \in Cpu : todo[u] \in Seq(Byte)
  BY DEF IndInv, UartType
<1>5. \A u \in Cpu : todo[u] \in Seq(AnyByte)
  BY <1>4, SeqMonotonic DEF AnyByte
<1> QED
  BY <1>1, <1>3, <1>4, <1>5

(* Every step takes a byte from one place to the next, and none away but    *)
(* from a processor that finds no room.                                     *)
LEMMA LostStep ==
  ASSUME RoomForEach, IndInv, NothingLost, [Next]_vars
  PROVE  NothingLost'
<1>0. \A d \in Cpu \ crowded : From(d, Entries) \o todo[d] = OnLine(put[d])
  BY DEF NothingLost, Entries
<1>1. ASSUME Entries' = Entries, UNCHANGED <<todo, put, crowded>> PROVE NothingLost'
  BY <1>0, <1>1 DEF NothingLost, Entries
<1>2. CASE UNCHANGED vars \/ (\E c \in RxText : Receive(c))
  BY <1>1, <1>2 DEF vars, txVars, rxVars, Receive, Entries
<1>3. ASSUME NEW u \in Cpu, Turns(u) \/ read_urxd(u) PROVE NothingLost'
  <2>1. UNCHANGED <<line, tx, todo, put, crowded>>
    BY <1>3 DEF Turns, poll_sent, uart_flush_tx, platform_dgetc, uart_getc, uart_getc_poll, uart_getc_nowait,
         read_urxd, txVars, rxVars
  <2> QED
    BY <1>1, <2>1 DEF Entries
<1>4. CASE Transmit
  <2>1. /\ line \in Seq(Writer \X AnyByte) /\ tx \in Seq(Writer \X AnyByte) /\ tx # << >>
        /\ line' = Append(line, Head(tx)) /\ tx' = Tail(tx) /\ UNCHANGED <<todo, put, crowded>>
    BY <1>4 DEF Transmit, IndInv, UartType, AnyByte
  <2>2. Entries' = Entries
    BY <2>1, AppendConcat DEF Entries
  <2> QED
    BY <1>1, <2>1, <2>2
<1>5. ASSUME NEW u \in Cpu, NEW c \in Text, uart_putc(u, c) PROVE NothingLost'
  <2>1. /\ todo[u] = << >> /\ Entries' = Entries /\ crowded' = crowded
        /\ todo'[u] = Bytes(c) /\ put'[u] = Append(put[u], c) /\ put[u] \in Seq(Text)
        /\ \A d \in Cpu \ {u} : todo'[d] = todo[d] /\ put'[d] = put[d]
    BY <1>5 DEF uart_putc, IndInv, UartType, TodoInPutc, Entries
  <2>2. u \notin crowded => From(u, Entries) = OnLine(put[u])
    BY <1>0, <2>1, EntriesType, ConcatEmptySeq
  <2>3. Bytes(c) = Shown(c)
    BY DEF Bytes, Shown
  <2>4. OnLine(put'[u]) = OnLine(put[u]) \o Shown(c)
    BY <2>1, OnLineAppend
  <2>5. \A d \in Cpu \ crowded : From(d, Entries') \o todo'[d] = OnLine(put'[d])
    BY <1>0, <2>1, <2>2, <2>3, <2>4
  <2> QED
    BY <2>1, <2>5 DEF NothingLost, Entries
<1>6. ASSUME NEW u \in Cpu, write_utxd(u), NoRoom PROVE NothingLost'
  <2>1. tx' = tx /\ line' = line /\ put' = put /\ crowded' = crowded \cup {u}
    BY <1>6, UartAssumption DEF write_utxd, Pushed, NoRoom, IndInv, UartType
  <2>2. \A d \in Cpu \ {u} : todo'[d] = todo[d]
    BY <1>6 DEF write_utxd, IndInv, UartType
  <2> QED
    BY <1>0, <2>1, <2>2 DEF NothingLost, Entries
<1>7. ASSUME NEW u \in Cpu, write_utxd(u), ~NoRoom PROVE NothingLost'
  <2>1. Len(tx) < FIFO_DEPTH /\ crowded' = crowded
    BY <1>7, RoomToWrite DEF write_utxd
  <2>2. PICK x \in Writer \X AnyByte : x = <<u, Head(todo[u])>>
    BY <1>7, WriteFifo DEF AnyByte
  <2>3. tx' = Append(tx, x) /\ line' = line /\ put' = put /\ todo[u] # << >>
    BY <1>7, <2>1, <2>2, WriteFifo DEF write_utxd
  <2>4. Entries' = Append(Entries, x)
    <3>1. line \in Seq(Writer \X AnyByte) /\ tx \in Seq(Writer \X AnyByte)
      BY DEF IndInv, UartType, AnyByte
    <3> QED
      BY <2>3, <3>1, AppendConcat DEF Entries
  <2>5. \A d \in Cpu : From(d, Append(Entries, x)) = From(d, Entries) \o Sent(d, x)
    <3>1. Entries \in Seq(Writer \X AnyByte) /\ x \in Writer \X AnyByte
      BY EntriesType
    <3> QED
      BY ONLY <3>1, FromAppend
  <2>6. todo'[u] = Tail(todo[u]) /\ \A d \in Cpu \ {u} : todo'[d] = todo[d]
    BY <1>7 DEF write_utxd, IndInv, UartType
  <2>7. ASSUME NEW d \in Cpu PROVE From(d, Entries') \o todo'[d] = From(d, Entries) \o todo[d]
    <3>1. CASE d = u
      <4>1. Sent(d, x) = <<Head(todo[u])>>
        BY <2>2, <3>1 DEF Sent
      <4>2. /\ From(u, Entries) \in Seq(AnyByte) /\ todo[u] \in Seq(AnyByte)
            /\ Head(todo[u]) \in AnyByte /\ Tail(todo[u]) \in Seq(AnyByte)
        BY <2>3, EntriesType, HeadTailProperties
      <4>3. From(u, Entries) \o <<Head(todo[u])>> = Append(From(u, Entries), Head(todo[u]))
        BY <4>2, AppendIsConcat
      <4>4. Append(From(u, Entries), Head(todo[u])) \o Tail(todo[u]) = From(u, Entries) \o todo[u]
        BY <2>3, <4>2, AppendConcat
      <4> QED
        BY <2>4, <2>5, <2>6, <3>1, <4>1, <4>3, <4>4
    <3>2. CASE d # u
      <4>1. Sent(d, x) = << >>
        BY <2>2, <3>2 DEF Sent
      <4>2. From(d, Entries) \o << >> = From(d, Entries)
        BY EntriesType, ConcatEmptySeq
      <4> QED
        BY <2>4, <2>5, <2>6, <3>2, <4>1, <4>2
    <3> QED
      BY <3>1, <3>2
  <2> QED
    BY <1>0, <2>1, <2>3, <2>7 DEF NothingLost, Entries
<1>8. CASE NormalWorldWrites
  <2>1. PICK x \in Writer \X AnyByte : x = <<NormalWorld, "n">>
    BY DEF Writer, AnyByte
  <2>2. tx' = Append(tx, x) /\ UNCHANGED <<line, todo, put, crowded>>
    BY <1>8, <2>1 DEF NormalWorldWrites
  <2>3. Entries' = Append(Entries, x)
    <3>1. line \in Seq(Writer \X AnyByte) /\ tx \in Seq(Writer \X AnyByte)
      BY DEF IndInv, UartType, AnyByte
    <3> QED
      BY <2>2, <3>1, AppendConcat DEF Entries
  <2>4. ASSUME NEW d \in Cpu PROVE From(d, Entries') = From(d, Entries)
    <3>1. From(d, Entries') = From(d, Entries) \o Sent(d, x)
      <4>1. Entries \in Seq(Writer \X AnyByte) /\ x \in Writer \X AnyByte
        BY EntriesType
      <4>2. From(d, Append(Entries, x)) = From(d, Entries) \o Sent(d, x)
        BY ONLY <4>1, FromAppend
      <4> QED
        BY <2>3, <4>2
    <3>2. Sent(d, x) = << >>
      BY <2>1, UartAssumption DEF Sent
    <3>3. From(d, Entries) \o << >> = From(d, Entries)
      BY EntriesType, ConcatEmptySeq
    <3> QED
      BY <3>1, <3>2, <3>3
  <2> QED
    BY <1>0, <2>2, <2>4 DEF NothingLost, Entries
<1> QED
  BY <1>2, <1>3, <1>4, <1>5, <1>6, <1>7, <1>8, StepCases

(* Everything a processor prints is sent, in its order and with a carriage  *)
(* return before each line feed, although nobody looks at UTS_TXFULL: for   *)
(* any number of processors that the FIFO has a place for, whatever the     *)
(* normal world prints, unless the normal world had its bytes in a full     *)
(* FIFO when the processor wrote.                                           *)
THEOREM NothingIsLost ==
  ASSUME RoomForEach
  PROVE  Spec => []NothingLost
<1>1. Init => NothingLost
  <2>1. \A u : From(u, << >>) = << >> /\ OnLine(<< >>) = << >>
    BY DEF From, OnLine, FlattenSeq
  <2> QED
    BY <2>1 DEF Init, NothingLost
<1>2. IndInv /\ NothingLost /\ [Next]_vars => NothingLost'
  BY LostStep
<1> QED
  BY <1>1, <1>2, Inductive, PTL DEF Spec
============================================================================
