------------------------ MODULE SerialConsole_proofs ------------------------
(***************************************************************************)
(* Proofs about module SerialConsole, for every FIFO depth, every message, *)
(* every residue and every number of keys.                                 *)
(*                                                                         *)
(* The first properties are proved together: the strengthening Order says  *)
(* where in the driver the UART is on, has a free slot, or has nothing to  *)
(* send, and in which phases the receive FIFO may still hold spurious      *)
(* input.  On it rest the divisor (Rate), the order of what is received    *)
(* (Arrived), the echoes (Echoing) and the strings printed whole (Fits).   *)
(***************************************************************************)
EXTENDS SerialConsole, FiniteSetTheorems, SequenceTheorems, TLAPS

InitSteps == {"init_flush", "init_off", "init_baud", "init_lcr", "init_on"}
Writing   == {"write", "put_cr", "put", "flush"}

\* The UART is on whenever a character can be written; between the wait for
\* TXFF and the first write of a character there is a free slot.
SlotFree ==
    /\ earlyUart => enabled /\ pc \notin InitSteps \ {"init_flush"}
    /\ pc \notin InitSteps => enabled
    /\ pc \in {"put_cr", "put"} => str # <<>>
    /\ pc = "put_cr" => Head(str) = LF /\ Len(txFifo) < TxDepth
    /\ pc = "put" /\ Head(str) # LF => Len(txFifo) < TxDepth

\* From the flush of init to the first write, and from a flush of write_str to
\* the next write, the transmitter has nothing to send.
NothingPending ==
    /\ kpc = "init" <=> pc \in InitSteps
    /\ pc \in InitSteps \ {"init_flush"} => txFifo = <<>>
    /\ kpc = "print" /\ pc # "idle" => flushAtEnd /\ pc \in Writing
    /\ kpc = "print" /\ pc = "idle" => txFifo = <<>>
    /\ kpc = "clear" <=> pc = "clear"

\* Every character written is in the FIFO, on the wire, or lost.
Conserved == Len(wire) + Len(txFifo) + Len(lost) = Len(written)

\* Past clear_rx the receive FIFO holds nothing that came before it.
NoSpuriousLeft ==
    /\ pc = "read" => kpc = "echo_read"
    /\ kpc \in {"echo_read", "echo_write"} =>
           \A i \in 1..Len(rxFifo) : rxFifo[i].age # "spurious"

Order == SlotFree /\ NothingPending /\ Conserved /\ NoSpuriousLeft

IInv == TypeOK /\ OnlyLineFeedsLost /\ NoSpuriousEcho /\ Order

-----------------------------------------------------------------------------

\* set_baudrate writes numbers (267-278).
LEMMA DivisorType == Divisor(48000000, 115200) \in Nat \X Nat
BY DEF Divisor, DivX1000

\* The length of a sequence is a number.
LEMMA LenType == ASSUME NEW S, NEW s \in Seq(S) PROVE Len(s) \in Nat
OBVIOUS

\* What a removed head leaves of a sequence.
LEMMA TailElements ==
    ASSUME NEW S, NEW s \in Seq(S), s # <<>>
    PROVE  /\ Head(s) = s[1] /\ Head(s) \in S /\ Tail(s) \in Seq(S)
           /\ Len(Tail(s)) = Len(s) - 1 /\ Len(s) \in Nat \ {0}
           /\ \A i \in 1..Len(Tail(s)) : Tail(s)[i] = s[i + 1]
OBVIOUS

\* What an appended element leaves of a sequence.
LEMMA AppendElements ==
    ASSUME NEW S, NEW s \in Seq(S), NEW e \in S
    PROVE  /\ Append(s, e) \in Seq(S) /\ Len(Append(s, e)) = Len(s) + 1
           /\ Len(s) \in Nat
           /\ \A i \in 1..Len(Append(s, e)) :
                 Append(s, e)[i] = IF i <= Len(s) THEN s[i] ELSE e
OBVIOUS

\* What a write to DR does to the sequences it touches.
LEMMA WriteDRProperties ==
    ASSUME TypeOK, NEW c \in Char, WriteDR(c)
    PROVE  /\ txFifo' \in Seq(Char) /\ lost' \in Seq(Char) /\ written' \in Seq(Char)
           /\ Len(txFifo') + Len(lost') = Len(txFifo) + Len(lost) + 1
           /\ Len(written') = Len(written) + 1
           /\ lost' = lost \/ lost' = Append(lost, c)
           /\ enabled /\ Len(txFifo) < TxDepth => lost' = lost
           /\ UNCHANGED <<enabled, rxFifo, wire, overrun>>
<1> USE Pl011Assumption DEF TypeOK
<1>1. CASE enabled /\ ~TXFF
  <2>1. txFifo' = Append(txFifo, c) /\ lost' = lost /\ written' = Append(written, c)
    BY <1>1 DEF WriteDR
  <2> QED
    BY <2>1, AppendElements DEF WriteDR
<1>2. CASE ~(enabled /\ ~TXFF)
  <2>1. txFifo' = txFifo /\ lost' = Append(lost, c) /\ written' = Append(written, c)
    BY <1>2 DEF WriteDR
  <2>2. ~(enabled /\ Len(txFifo) < TxDepth)
    BY <1>2 DEF TXFF
  <2> QED
    BY <2>1, <2>2, AppendElements DEF WriteDR
<1> QED
  BY <1>1, <1>2

\* At power-up nothing was written yet and nothing is lost; what a predecessor
\* left fits the transmit FIFO.
THEOREM InitIInv == Init => IInv
<1> SUFFICES ASSUME Init PROVE IInv
  OBVIOUS
<1> USE ConsoleAssumption DEF Init
<1>1. txFifo \in Seq(Keys) /\ txFifo \in Seq(Char) /\ Len(txFifo) \in Nat
  BY DEF Char
<1>2. TypeOK
  <2>1. todo \in Seq(Seq(Char)) /\ key \in Char /\ written \in Seq(Char)
    BY <1>1 DEF Char
  <2>2. /\ rxFifo \in Seq(Received) /\ echoed \in Seq(Received) /\ wire \in Seq(Char)
        /\ lost \in Seq(Char) /\ str \in Seq(Char) /\ typed \in Seq(Keys)
    OBVIOUS
  <2>3. enabled \in BOOLEAN /\ overrun \in BOOLEAN /\ flushAtEnd \in BOOLEAN
    OBVIOUS
  <2>4. /\ divisor \in Nat \X Nat /\ latched \in Nat \X Nat
        /\ chars_written \in Nat /\ chars_read \in Nat /\ keys \in 0..MaxKeys
    OBVIOUS
  <2> QED
    BY <1>1, <2>1, <2>2, <2>3, <2>4 DEF TypeOK
<1>3. OnlyLineFeedsLost /\ NoSpuriousEcho
  BY DEF OnlyLineFeedsLost, NoSpuriousEcho
<1>4. Order
  BY <1>1 DEF Order, SlotFree, NothingPending, Conserved, NoSpuriousLeft, InitSteps
<1> QED
  BY <1>2, <1>3, <1>4 DEF IInv

\* Every step of the driver, of kernel_main, of the UART and of the other end
\* preserves the invariant.
THEOREM NextIInv == IInv /\ [Next]_vars => IInv'
<1> SUFFICES ASSUME IInv, [Next]_vars PROVE IInv'
  OBVIOUS
<1> USE ConsoleAssumption, Pl011Assumption
<1> USE DEF IInv, uart, main, call, baud, stats, env
<1>1. CASE InitFlush /\ UNCHANGED env
  <2> USE <1>1 DEF InitFlush
  <2>1. TypeOK'
    BY DEF TypeOK
  <2>2. OnlyLineFeedsLost' /\ NoSpuriousEcho'
    BY DEF OnlyLineFeedsLost, NoSpuriousEcho
  <2>3. Order'
    BY DEF Order, SlotFree, NothingPending, Conserved, NoSpuriousLeft, InitSteps,
           Writing, TypeOK, BUSY
  <2> QED
    BY <2>1, <2>2, <2>3
<1>2. CASE InitOff /\ UNCHANGED env
  <2> USE <1>2 DEF InitOff
  <2>1. /\ txFifo = <<>> /\ enabled' = FALSE
        /\ UNCHANGED <<txFifo, wire, lost, rxFifo, written, overrun>>
    BY DEF TurnOff, BUSY, Order, NothingPending, InitSteps
  <2>2. TypeOK'
    BY <2>1 DEF TypeOK
  <2>3. OnlyLineFeedsLost' /\ NoSpuriousEcho'
    BY <2>1 DEF OnlyLineFeedsLost, NoSpuriousEcho
  <2>4. Order'
    BY <2>1 DEF Order, SlotFree, NothingPending, Conserved, NoSpuriousLeft,
                InitSteps, Writing, TypeOK
  <2> QED
    BY <2>2, <2>3, <2>4
<1>3. CASE SetBaudrate /\ UNCHANGED env
  <2> USE <1>3 DEF SetBaudrate
  <2>1. TypeOK'
    BY DivisorType DEF TypeOK, Char
  <2>2. OnlyLineFeedsLost'
    BY DivisorType DEF OnlyLineFeedsLost, TypeOK
  <2>3. NoSpuriousEcho'
    BY DivisorType DEF NoSpuriousEcho, TypeOK, Order, NoSpuriousLeft
  <2>4. Order'
    BY DivisorType DEF Order, SlotFree, NothingPending, Conserved, NoSpuriousLeft, InitSteps, Writing, TypeOK
  <2> QED
    BY <2>1, <2>2, <2>3, <2>4
<1>4. CASE InitLcr /\ UNCHANGED env
  <2> USE <1>4 DEF InitLcr
  <2>1. TypeOK'
    BY DEF TypeOK, Char
  <2>2. OnlyLineFeedsLost'
    BY DEF OnlyLineFeedsLost, TypeOK
  <2>3. NoSpuriousEcho'
    BY DEF NoSpuriousEcho, TypeOK, Order, NoSpuriousLeft
  <2>4. Order'
    BY DEF Order, SlotFree, NothingPending, Conserved, NoSpuriousLeft, InitSteps, Writing, TypeOK
  <2> QED
    BY <2>1, <2>2, <2>3, <2>4
<1>5. CASE InitOn /\ UNCHANGED env
  <2> USE <1>5 DEF InitOn
  <2>1. TypeOK'
    BY DEF TypeOK, Char, TurnOn
  <2>2. OnlyLineFeedsLost'
    BY DEF OnlyLineFeedsLost, TypeOK, TurnOn
  <2>3. NoSpuriousEcho'
    BY DEF NoSpuriousEcho, TypeOK, Order, NoSpuriousLeft, TurnOn
  <2>4. Order'
    BY DEF Order, SlotFree, NothingPending, Conserved, NoSpuriousLeft, InitSteps, Writing, TypeOK, TurnOn
  <2> QED
    BY <2>1, <2>2, <2>3, <2>4
<1>6. CASE WaitForSlot /\ UNCHANGED env
  <2> USE <1>6 DEF WaitForSlot
  <2>1. TypeOK'
    BY DEF TypeOK, Char, TXFF
  <2>2. OnlyLineFeedsLost'
    BY DEF OnlyLineFeedsLost, TypeOK, TXFF
  <2>3. NoSpuriousEcho'
    BY DEF NoSpuriousEcho, TypeOK, Order, NoSpuriousLeft, TXFF
  <2>4. Order'
    BY DEF Order, SlotFree, NothingPending, Conserved, NoSpuriousLeft, InitSteps, Writing, TypeOK, TXFF
  <2> QED
    BY <2>1, <2>2, <2>3, <2>4
<1>7. CASE PutCr /\ UNCHANGED env
  <2> USE <1>7 DEF PutCr
  <2>1. CR \in Char /\ WriteDR(CR)
    BY DEF Char
  <2>2. lost' = lost
    BY <2>1, WriteDRProperties DEF Order, SlotFree, InitSteps
  <2>3. /\ txFifo' \in Seq(Char) /\ written' \in Seq(Char)
        /\ Len(txFifo') + Len(lost') = Len(txFifo) + Len(lost) + 1
        /\ Len(written') = Len(written) + 1
        /\ UNCHANGED <<enabled, rxFifo, wire, overrun>>
    BY <2>1, WriteDRProperties
  <2>4. TypeOK'
    BY <2>2, <2>3 DEF TypeOK
  <2>5. OnlyLineFeedsLost' /\ NoSpuriousEcho'
    BY <2>2, <2>3 DEF OnlyLineFeedsLost, NoSpuriousEcho
  <2>6. SlotFree' /\ NothingPending' /\ NoSpuriousLeft'
    BY <2>3 DEF Order, SlotFree, NothingPending, NoSpuriousLeft, InitSteps, Writing
  <2>7. Conserved'
    <3>1. /\ Len(wire) \in Nat /\ Len(txFifo) \in Nat /\ Len(lost) \in Nat
          /\ Len(written) \in Nat /\ Len(txFifo') \in Nat
      BY <2>3, LenType DEF TypeOK
    <3>2. Len(wire) + Len(txFifo) + Len(lost) = Len(written)
      BY DEF Order, Conserved
    <3>3. /\ Len(wire') = Len(wire) /\ Len(lost') = Len(lost)
          /\ Len(txFifo') = Len(txFifo) + 1 /\ Len(written') = Len(written) + 1
      BY <2>2, <2>3, <3>1
    <3> QED
      BY ONLY <3>1, <3>2, <3>3 DEF Conserved
  <2> QED
    BY <2>4, <2>5, <2>6, <2>7 DEF Order
<1>8. CASE Put /\ UNCHANGED env
  <2> USE <1>8 DEF Put
  <2>1. str # <<>> /\ str \in Seq(Char)
    BY DEF Order, SlotFree, TypeOK
  <2>2. Head(str) \in Char /\ Tail(str) \in Seq(Char) /\ WriteDR(Head(str))
    BY <2>1, TailElements
  <2>3. lost' = lost \/ (Head(str) = LF /\ lost' = Append(lost, LF))
    BY <2>2, WriteDRProperties DEF Order, SlotFree, InitSteps
  <2>4. /\ txFifo' \in Seq(Char) /\ lost' \in Seq(Char) /\ written' \in Seq(Char)
        /\ Len(txFifo') + Len(lost') = Len(txFifo) + Len(lost) + 1
        /\ Len(written') = Len(written) + 1
        /\ UNCHANGED <<enabled, rxFifo, wire, overrun>>
    BY <2>2, WriteDRProperties
  <2>5. TypeOK'
    BY <2>2, <2>4 DEF TypeOK
  <2>6. OnlyLineFeedsLost'
    <3>1. CASE lost' = lost
      BY <3>1 DEF OnlyLineFeedsLost
    <3>2. CASE lost' = Append(lost, LF)
      <4>1. LF \in Char /\ lost \in Seq(Char)
        BY DEF Char, TypeOK
      <4>2. SUFFICES ASSUME NEW i \in 1..Len(Append(lost, LF))
                     PROVE  Append(lost, LF)[i] = LF
        BY <3>2 DEF OnlyLineFeedsLost
      <4> QED
        BY <4>1, <4>2 DEF OnlyLineFeedsLost
    <3> QED
      BY <2>3, <3>1, <3>2
  <2>7. NoSpuriousEcho'
    BY DEF NoSpuriousEcho
  <2>8. SlotFree' /\ NothingPending' /\ NoSpuriousLeft'
    BY <2>4 DEF Order, SlotFree, NothingPending, NoSpuriousLeft, InitSteps, Writing
  <2>9. Conserved'
    <3>1. /\ Len(wire) \in Nat /\ Len(txFifo) \in Nat /\ Len(lost) \in Nat
          /\ Len(written) \in Nat /\ Len(txFifo') \in Nat /\ Len(lost') \in Nat
      BY <2>4, LenType DEF TypeOK
    <3>2. Len(wire) + Len(txFifo) + Len(lost) = Len(written) /\ wire' = wire
      BY <2>4 DEF Order, Conserved
    <3> QED
      BY <2>4, <3>1, <3>2 DEF Conserved
  <2> QED
    BY <2>5, <2>6, <2>7, <2>8, <2>9 DEF Order
<1>9. CASE WriteReturns /\ UNCHANGED env
  <2> USE <1>9 DEF WriteReturns
  <2>1. TypeOK'
    BY DEF TypeOK, Char
  <2>2. OnlyLineFeedsLost'
    BY DEF OnlyLineFeedsLost, TypeOK
  <2>3. NoSpuriousEcho'
    BY DEF NoSpuriousEcho, TypeOK, Order, NoSpuriousLeft
  <2>4. Order'
    BY DEF Order, SlotFree, NothingPending, Conserved, NoSpuriousLeft, InitSteps, Writing, TypeOK
  <2> QED
    BY <2>1, <2>2, <2>3, <2>4
<1>10. CASE Flush /\ UNCHANGED env
  <2> USE <1>10 DEF Flush
  <2>1. TypeOK'
    BY DEF TypeOK, Char, BUSY
  <2>2. OnlyLineFeedsLost'
    BY DEF OnlyLineFeedsLost, TypeOK, BUSY
  <2>3. NoSpuriousEcho'
    BY DEF NoSpuriousEcho, TypeOK, Order, NoSpuriousLeft, BUSY
  <2>4. Order'
    BY DEF Order, SlotFree, NothingPending, Conserved, NoSpuriousLeft, InitSteps, Writing, TypeOK, BUSY
  <2> QED
    BY <2>1, <2>2, <2>3, <2>4
<1>11. CASE ReadChar /\ UNCHANGED env
  <2> USE <1>11 DEF ReadChar, ReadDR
  <2>1. /\ Head(rxFifo) = rxFifo[1] /\ Head(rxFifo) \in Received
        /\ Tail(rxFifo) \in Seq(Received) /\ Len(rxFifo) \in Nat \ {0}
        /\ Len(Tail(rxFifo)) = Len(rxFifo) - 1
        /\ \A i \in 1..Len(Tail(rxFifo)) : Tail(rxFifo)[i] = rxFifo[i + 1]
    BY TailElements DEF TypeOK, RXFE
  <2>2. /\ echoed' \in Seq(Received) /\ Len(echoed') = Len(echoed) + 1
        /\ Len(echoed) \in Nat
        /\ \A i \in 1..Len(echoed') :
              echoed'[i] = IF i <= Len(echoed) THEN echoed[i] ELSE Head(rxFifo)
    <3>1. echoed \in Seq(Received) /\ echoed' = Append(echoed, Head(rxFifo))
      BY DEF TypeOK
    <3> QED
      BY ONLY <2>1, <3>1, AppendElements
  <2>3. key' \in Char
    BY <2>1 DEF Convert, Char, Received
  <2>4. TypeOK'
    BY <2>1, <2>2, <2>3 DEF TypeOK
  <2>5. OnlyLineFeedsLost'
    BY DEF OnlyLineFeedsLost
  <2>6. NoSpuriousEcho'
    <3>1. Head(rxFifo).age # "spurious"
      BY <2>1 DEF Order, NoSpuriousLeft
    <3>2. Len(echoed) \in Nat /\ \A i \in 1..Len(echoed) : echoed[i].age # "spurious"
      BY <2>2 DEF NoSpuriousEcho
    <3>3. ASSUME NEW i \in 1..Len(echoed') PROVE echoed'[i].age # "spurious"
      <4>1. i \in Nat /\ i >= 1
        BY <2>2, <3>2
      <4> QED
        BY <2>2, <3>1, <3>2, <3>3, <4>1
    <3> QED
      BY <3>3 DEF NoSpuriousEcho
  <2>7. Order'
    BY <2>1 DEF Order, SlotFree, NothingPending, Conserved, NoSpuriousLeft,
                InitSteps, Writing, TypeOK
  <2> QED
    BY <2>4, <2>5, <2>6, <2>7
<1>12. CASE ClearOne /\ UNCHANGED env
  <2> USE <1>12 DEF ClearOne
  <2>1. TypeOK'
    BY DEF TypeOK, Char, ReadDR, RXFE
  <2>2. OnlyLineFeedsLost'
    BY DEF OnlyLineFeedsLost, TypeOK, ReadDR, RXFE
  <2>3. NoSpuriousEcho'
    BY DEF NoSpuriousEcho, TypeOK, Order, NoSpuriousLeft, ReadDR, RXFE
  <2>4. Order'
    BY DEF Order, SlotFree, NothingPending, Conserved, NoSpuriousLeft, InitSteps, Writing, TypeOK, ReadDR, RXFE
  <2> QED
    BY <2>1, <2>2, <2>3, <2>4
<1>13. CASE ClearReturns /\ UNCHANGED env
  <2> USE <1>13 DEF ClearReturns
  <2>1. TypeOK'
    BY DEF TypeOK, Char, RXFE
  <2>2. OnlyLineFeedsLost'
    BY DEF OnlyLineFeedsLost, TypeOK, RXFE
  <2>3. NoSpuriousEcho'
    BY DEF NoSpuriousEcho, TypeOK, Order, NoSpuriousLeft, RXFE
  <2>4. Order'
    <3>1. SlotFree'
      BY DEF Order, SlotFree, NothingPending, InitSteps
    <3>2. NothingPending'
      BY DEF Order, NothingPending, InitSteps, Writing
    <3>3. Conserved'
      BY DEF Order, Conserved
    <3>4. NoSpuriousLeft'
      <4>1. rxFifo' = <<>> /\ 1..Len(rxFifo') = {}
        BY DEF RXFE
      <4> QED
        BY <4>1 DEF NoSpuriousLeft
    <3> QED
      BY <3>1, <3>2, <3>3, <3>4 DEF Order
  <2> QED
    BY <2>1, <2>2, <2>3, <2>4
<1>14. CASE PrintMessage /\ UNCHANGED env
  <2> USE <1>14 DEF PrintMessage
  <2>1. TypeOK'
    <3>1. Head(todo) \in Seq(Char) /\ Tail(todo) \in Seq(Seq(Char))
      BY TailElements DEF TypeOK
    <3> QED
      BY <3>1 DEF TypeOK
  <2>2. OnlyLineFeedsLost'
    BY DEF OnlyLineFeedsLost, TypeOK
  <2>3. NoSpuriousEcho'
    BY DEF NoSpuriousEcho, TypeOK, Order, NoSpuriousLeft
  <2>4. Order'
    BY DEF Order, SlotFree, NothingPending, Conserved, NoSpuriousLeft, InitSteps, Writing, TypeOK
  <2> QED
    BY <2>1, <2>2, <2>3, <2>4
<1>15. CASE CallClearRx /\ UNCHANGED env
  <2> USE <1>15 DEF CallClearRx
  <2>1. TypeOK'
    BY DEF TypeOK, Char
  <2>2. OnlyLineFeedsLost'
    BY DEF OnlyLineFeedsLost, TypeOK
  <2>3. NoSpuriousEcho'
    BY DEF NoSpuriousEcho, TypeOK, Order, NoSpuriousLeft
  <2>4. Order'
    BY DEF Order, SlotFree, NothingPending, Conserved, NoSpuriousLeft, InitSteps, Writing, TypeOK
  <2> QED
    BY <2>1, <2>2, <2>3, <2>4
<1>16. CASE CallReadChar /\ UNCHANGED env
  <2> USE <1>16 DEF CallReadChar
  <2>1. TypeOK'
    BY DEF TypeOK, Char
  <2>2. OnlyLineFeedsLost'
    BY DEF OnlyLineFeedsLost, TypeOK
  <2>3. NoSpuriousEcho'
    BY DEF NoSpuriousEcho, TypeOK, Order, NoSpuriousLeft
  <2>4. Order'
    BY DEF Order, SlotFree, NothingPending, Conserved, NoSpuriousLeft, InitSteps, Writing, TypeOK
  <2> QED
    BY <2>1, <2>2, <2>3, <2>4
<1>17. CASE CallWriteChar /\ UNCHANGED env
  <2> USE <1>17 DEF CallWriteChar
  <2>1. str' \in Seq(Char) /\ str' # <<>>
    BY DEF TypeOK
  <2>2. TypeOK'
    BY <2>1 DEF TypeOK
  <2>3. OnlyLineFeedsLost' /\ NoSpuriousEcho'
    BY DEF OnlyLineFeedsLost, NoSpuriousEcho
  <2>4. Order'
    BY <2>1 DEF Order, SlotFree, NothingPending, Conserved, NoSpuriousLeft,
                InitSteps, Writing, TypeOK
  <2> QED
    BY <2>2, <2>3, <2>4
<1>18. CASE TransmitChar
  <2> USE <1>18 DEF TransmitChar, Transmit
  <2>1. /\ txFifo # <<>> /\ Head(txFifo) \in Char /\ Tail(txFifo) \in Seq(Char)
        /\ Len(Tail(txFifo)) = Len(txFifo) - 1 /\ Len(txFifo) \in Nat \ {0}
    BY TailElements DEF TypeOK, BUSY
  <2>2. wire' \in Seq(Char) /\ Len(wire') = Len(wire) + 1
    BY <2>1, AppendElements DEF TypeOK
  <2>3. TypeOK'
    BY <2>1, <2>2 DEF TypeOK
  <2>4. OnlyLineFeedsLost' /\ NoSpuriousEcho'
    BY DEF OnlyLineFeedsLost, NoSpuriousEcho
  <2>5. Order'
    <3>1. SlotFree'
      BY <2>1 DEF Order, SlotFree, InitSteps
    <3>2. NothingPending'
      BY <2>1 DEF Order, NothingPending, InitSteps, Writing
    <3>3. Conserved'
      BY <2>1, <2>2 DEF Order, Conserved, TypeOK
    <3>4. NoSpuriousLeft'
      BY DEF Order, NoSpuriousLeft
    <3> QED
      BY <3>1, <3>2, <3>3, <3>4 DEF Order
  <2> QED
    BY <2>3, <2>4, <2>5
<1>19. CASE KeyArrives
  <2> USE <1>19 DEF KeyArrives
  <2>1. PICK c \in Keys :
          /\ Receive([char |-> c, age |-> Age])
          /\ typed' = IF Age = "fresh" /\ Accepts THEN Append(typed, c) ELSE typed
    OBVIOUS
  <2>2. [char |-> c, age |-> Age] \in Received
    BY DEF Received, Ages, Age
  <2>3. rxFifo' = rxFifo \/ rxFifo' = Append(rxFifo, [char |-> c, age |-> Age])
    BY <2>1 DEF Receive
  <2>4. rxFifo' \in Seq(Received) /\ typed' \in Seq(Keys)
    <3>1. rxFifo' \in Seq(Received)
      <4> DEFINE r == [char |-> c, age |-> Age]
      <4>1. r \in Received /\ (rxFifo' = rxFifo \/ rxFifo' = Append(rxFifo, r))
        BY <2>2, <2>3
      <4>2. rxFifo \in Seq(Received)
        BY DEF TypeOK
      <4> HIDE DEF r
      <4>3. Append(rxFifo, r) \in Seq(Received)
        BY <4>1, <4>2
      <4> QED
        BY <4>1, <4>2, <4>3
    <3>2. typed' \in Seq(Keys)
      BY <2>1, AppendElements DEF TypeOK
    <3> QED
      BY <3>1, <3>2
  <2>5. UNCHANGED <<enabled, txFifo, written, wire, lost>> /\ overrun' \in BOOLEAN
    BY <2>1 DEF Receive, Accepts, TypeOK
  <2>6. TypeOK'
    BY <2>4, <2>5 DEF TypeOK
  <2>7. OnlyLineFeedsLost' /\ NoSpuriousEcho'
    BY <2>5 DEF OnlyLineFeedsLost, NoSpuriousEcho
  <2>8. NoSpuriousLeft'
    <3>1. kpc \in {"echo_read", "echo_write"} => Age = "fresh"
      BY DEF Age
    <3>2. SUFFICES ASSUME kpc \in {"echo_read", "echo_write"}, NEW i \in 1..Len(rxFifo')
                   PROVE  rxFifo'[i].age # "spurious"
      BY DEF NoSpuriousLeft, Order
    <3> DEFINE r == [char |-> c, age |-> Age]
    <3>3. r \in Received /\ r.age # "spurious" /\ rxFifo \in Seq(Received)
      BY <2>2, <3>1, <3>2 DEF TypeOK
    <3>4. \A j \in 1..Len(rxFifo) : rxFifo[j].age # "spurious"
      BY <3>2 DEF Order, NoSpuriousLeft
    <3>5. CASE rxFifo' = rxFifo
      BY <3>2, <3>4, <3>5
    <3>6. CASE rxFifo' = Append(rxFifo, r)
      <4> HIDE DEF r
      <4>1. rxFifo'[i] = IF i <= Len(rxFifo) THEN rxFifo[i] ELSE r
        BY <3>2, <3>3, <3>6
      <4>2. i \in Nat /\ i >= 1 /\ Len(rxFifo) \in Nat
        BY <3>2, <3>3
      <4> QED
        BY <3>3, <3>4, <4>1, <4>2
    <3> QED
      BY <2>3, <3>5, <3>6
  <2>9. Order'
    BY <2>5, <2>8 DEF Order, SlotFree, NothingPending, Conserved
  <2> QED
    BY <2>6, <2>7, <2>9
<1>20. CASE UNCHANGED vars
  BY <1>20 DEF vars, TypeOK, OnlyLineFeedsLost, NoSpuriousEcho, Order, SlotFree,
               NothingPending, Conserved, NoSpuriousLeft
<1> QED
  BY <1>1, <1>2, <1>3, <1>4, <1>5, <1>6, <1>7, <1>8, <1>9, <1>10, <1>11, <1>12, <1>13, <1>14, <1>15, <1>16, <1>17, <1>18, <1>19, <1>20
  DEF Next, Kernel, Driver, KernelMain

\* The driver's promises hold in every reachable state: the types, and that
\* write_char loses line feeds only (bcm2xxx_pl011_uart.rs:281-295), that
\* write_str returns with all of its string on the wire (344-355), and that
\* clear_rx shields the echo loop from earlier input (418-425).
THEOREM Invariance == Spec => []IInv
BY InitIInv, NextIInv, PTL DEF Spec

\* Every variable keeps its type: read_char and write_char leave characters
\* only, whatever the UART does in between.
THEOREM TypeCorrect == Spec => []TypeOK
BY Invariance, PTL DEF IInv

\* write_char and init lose nothing but line feeds, with any depth of the FIFO
\* and any text (write_char 281-295, init 230-258).
THEOREM NothingButLineFeedsLost == Spec => []OnlyLineFeedsLost
BY Invariance, PTL DEF IInv

\* The echo loop never reads a character that came before clear_rx was called
\* (clear_rx 418-425, kernel_main 88-97).
THEOREM NoSpuriousInputEchoed == Spec => []NoSpuriousEcho
BY Invariance, PTL DEF IInv

\* With nothing in the FIFO, all that was written is on the wire or lost.
LEMMA OrderFlushes == IInv => StringsFlushed
BY DEF IInv, Order, NothingPending, Conserved, StringsFlushed, TypeOK

\* write_str returns to kernel_main with its text on the wire (344-355).
THEOREM WrittenStringsAreFlushed == Spec => []StringsFlushed
BY Invariance, OrderFlushes, PTL

-----------------------------------------------------------------------------

\* The divisor is that of the chainloader from set_baudrate on, and is taken
\* over before anything can be written.
Rate ==
    /\ pc = "init_lcr" => divisor = ChainloaderDivisor
    /\ pc = "init_on" => latched = ChainloaderDivisor
    /\ pc \notin InitSteps /\ ~earlyUart => latched = ChainloaderDivisor

\* set_baudrate computes for 48 MHz and 115200 baud what the chainloader has
\* as numbers (267-278).
LEMMA SameDivisor == Divisor(48000000, 115200) = ChainloaderDivisor
<1>1. DivX1000(48000000, 115200) = 26041
  <2>1. 48000000 \div 16 = 3000000 /\ 48000000 % 16 = 0
    OBVIOUS
  <2>2. 3000000 \div 115200 = 26 /\ 3000000 % 115200 = 4800
    OBVIOUS
  <2>3. (0 * 1000) \div 16 = 0 /\ (4800 * 1000 + 0) \div 115200 = 41
    OBVIOUS
  <2> QED BY <2>1, <2>2, <2>3 DEF DivX1000
<1>2. 26041 \div 1000 = 26 /\ ((26041 % 1000) * 64 + 500) \div 1000 = 3
  OBVIOUS
<1>3. 26 % 65536 = 26 /\ 3 % 64 = 3
  OBVIOUS
<1> QED BY <1>1, <1>2, <1>3 DEF Divisor, ChainloaderDivisor

\* The divisor registers change in the init steps only.
LEMMA NextRate == Rate /\ [Next]_vars => Rate'
<1> SUFFICES ASSUME Rate, [Next]_vars PROVE Rate'
  OBVIOUS
<1>1. CASE InitFlush /\ UNCHANGED env
  BY <1>1 DEF InitFlush, env, baud, Rate, InitSteps
<1>2. CASE InitOff /\ UNCHANGED env
  BY <1>2 DEF InitOff, env, baud, Rate, InitSteps
<1>3. CASE SetBaudrate /\ UNCHANGED env
  BY <1>3, SameDivisor DEF SetBaudrate, env, Rate, InitSteps
<1>4. CASE InitLcr /\ UNCHANGED env
  BY <1>4 DEF InitLcr, env, Rate, InitSteps
<1>5. CASE InitOn /\ UNCHANGED env
  BY <1>5 DEF InitOn, env, baud, Rate, InitSteps
<1>6. ASSUME UNCHANGED <<divisor, latched, earlyUart>>,
             pc' = pc \/ (pc \notin InitSteps /\ pc' \notin InitSteps)
      PROVE  Rate'
  BY <1>6 DEF Rate, InitSteps
<1>7. CASE (WaitForSlot \/ PutCr \/ Put \/ WriteReturns \/ Flush) /\ UNCHANGED env
  BY <1>6, <1>7 DEF WaitForSlot, PutCr, Put, WriteReturns, Flush, env, baud, InitSteps
<1>8. CASE (ReadChar \/ ClearOne \/ ClearReturns) /\ UNCHANGED env
  BY <1>6, <1>8 DEF ReadChar, ClearOne, ClearReturns, env, baud, InitSteps
<1>9. CASE KernelMain /\ UNCHANGED env
  BY <1>6, <1>9 DEF KernelMain, PrintMessage, CallClearRx, CallReadChar, CallWriteChar,
                    env, baud, InitSteps
<1>10. CASE TransmitChar \/ KeyArrives \/ UNCHANGED vars
  BY <1>6, <1>10 DEF TransmitChar, KeyArrives, vars, env, baud
<1> QED
  BY <1>1, <1>2, <1>3, <1>4, <1>5, <1>7, <1>8, <1>9, <1>10 DEF Next, Kernel, Driver

\* Every character of the kernel goes out at the rate of the chainloader, whose
\* host tool is the terminal by then (249, 267-278).
THEOREM RateOfChainloader == Spec => []SameRateAsChainloader
<1>1. Init => Rate
  BY DEF Init, Rate, InitSteps
<1>2. Rate => SameRateAsChainloader
  BY DEF Rate, SameRateAsChainloader, InitSteps
<1> QED BY <1>1, <1>2, NextRate, PTL DEF Spec

-----------------------------------------------------------------------------

\* What a predecessor's or a human's early input leaves: nothing in the receive
\* FIFO is fresh before the echo loop, and nothing was echoed.
Early   == {"init", "print", "clear"}
Arrived ==
    kpc \in Early =>
        /\ echoed = <<>> /\ typed = <<>>
        /\ \A i \in 1..Len(rxFifo) : rxFifo[i].age # "fresh"

\* EchoInOrder of any two sequences.
SplitAt(all, new) ==
    \E k \in 0..Len(all) :
        /\ \A i \in 1..k : all[i].age # "fresh"
        /\ Len(all) = k + Len(new)
        /\ \A i \in 1..Len(new) :
               all[k + i].age = "fresh" /\ all[k + i].char = new[i]

\* A character that moves from the head of the FIFO to the end of the echoed
\* ones leaves their concatenation alone.
LEMMA MoveHead ==
    ASSUME NEW S, NEW a \in Seq(S), NEW b \in Seq(S), b # <<>>
    PROVE  Append(a, Head(b)) \o Tail(b) = a \o b
<1>1. /\ Head(b) = b[1] /\ Head(b) \in S /\ Tail(b) \in Seq(S)
      /\ Len(Tail(b)) = Len(b) - 1 /\ Len(b) \in Nat \ {0}
      /\ \A i \in 1..Len(Tail(b)) : Tail(b)[i] = b[i + 1]
  BY TailElements
<1> DEFINE c == Append(a, Head(b))
<1>2. /\ c \in Seq(S) /\ Len(c) = Len(a) + 1 /\ Len(a) \in Nat
      /\ \A i \in 1..Len(c) : c[i] = IF i <= Len(a) THEN a[i] ELSE b[1]
  BY <1>1, AppendElements
<1> HIDE DEF c
<1>3. /\ c \o Tail(b) \in Seq(S) /\ Len(c \o Tail(b)) = Len(c) + Len(Tail(b))
      /\ \A i \in 1..Len(c) + Len(Tail(b)) :
            (c \o Tail(b))[i] = IF i <= Len(c) THEN c[i] ELSE Tail(b)[i - Len(c)]
  BY <1>1, <1>2, ConcatProperties
<1>4. /\ a \o b \in Seq(S) /\ Len(a \o b) = Len(a) + Len(b)
      /\ \A i \in 1..Len(a) + Len(b) :
            (a \o b)[i] = IF i <= Len(a) THEN a[i] ELSE b[i - Len(a)]
  BY ConcatProperties
<1>5. Len(c \o Tail(b)) = Len(a \o b)
  BY <1>1, <1>2, <1>3, <1>4
<1>6. ASSUME NEW i \in 1..Len(a) + Len(b) PROVE (c \o Tail(b))[i] = (a \o b)[i]
  <2>1. i \in 1..Len(c) + Len(Tail(b)) /\ i \in Nat \ {0}
    BY <1>1, <1>2
  <2>2. CASE i <= Len(c)
    BY <1>1, <1>2, <1>3, <1>4, <2>1, <2>2
  <2>3. CASE i > Len(c)
    <3>1. /\ (c \o Tail(b))[i] = Tail(b)[i - Len(c)]
          /\ (a \o b)[i] = b[i - Len(a)]
      BY <1>1, <1>2, <1>3, <1>4, <2>1, <2>3
    <3>2. i - Len(c) \in 1..Len(Tail(b)) /\ i - Len(c) + 1 = i - Len(a)
      BY <1>1, <1>2, <2>1, <2>3
    <3> QED
      BY <1>1, <3>1, <3>2
  <2> QED
    BY <1>2, <2>1, <2>2, <2>3
<1>7. c \o Tail(b) = a \o b
  BY <1>3, <1>4, <1>5, <1>6, SeqEqual
<1> QED
  BY <1>7 DEF c

\* One fresh character more at the end of what arrived, and of what was typed.
LEMMA SplitMore ==
    ASSUME NEW a \in Seq(Received), NEW b \in Seq(Received), NEW t \in Seq(Keys),
           NEW c \in Keys, SplitAt(a \o b, t)
    PROVE  SplitAt(a \o Append(b, [char |-> c, age |-> "fresh"]), Append(t, c))
<1> DEFINE r == [char |-> c, age |-> "fresh"]
           all == a \o b
           all2 == a \o Append(b, r)
           t2 == Append(t, c)
<1>1. r \in Received /\ r.age = "fresh" /\ r.char = c
  BY DEF Received, Ages
<1> HIDE DEF r
<1>2. /\ Append(b, r) \in Seq(Received) /\ Len(Append(b, r)) = Len(b) + 1
      /\ \A i \in 1..Len(Append(b, r)) : Append(b, r)[i] = IF i <= Len(b) THEN b[i] ELSE r
  BY <1>1, AppendElements
<1>3. Len(a) \in Nat /\ Len(b) \in Nat /\ Len(t) \in Nat
  BY LenType
<1>4. /\ Len(all) = Len(a) + Len(b) /\ Len(all2) = Len(a) + Len(b) + 1
      /\ \A i \in 1..Len(a) + Len(b) :
            all[i] = IF i <= Len(a) THEN a[i] ELSE b[i - Len(a)]
      /\ \A i \in 1..Len(a) + (Len(b) + 1) :
            all2[i] = IF i <= Len(a) THEN a[i] ELSE Append(b, r)[i - Len(a)]
  <2>1. /\ Len(a \o b) = Len(a) + Len(b)
        /\ \A i \in 1..Len(a) + Len(b) :
              (a \o b)[i] = IF i <= Len(a) THEN a[i] ELSE b[i - Len(a)]
    BY ConcatProperties
  <2> DEFINE d == Append(b, r)
  <2>2. d \in Seq(Received) /\ Len(d) = Len(b) + 1
    BY <1>2
  <2> HIDE DEF d
  <2>3. /\ Len(a \o d) = Len(a) + Len(d)
        /\ \A i \in 1..Len(a) + Len(d) :
              (a \o d)[i] = IF i <= Len(a) THEN a[i] ELSE d[i - Len(a)]
    BY <2>2, ConcatProperties
  <2>4. Len(a) + Len(d) = Len(a) + (Len(b) + 1) /\ Len(a) + (Len(b) + 1) = Len(a) + Len(b) + 1
    BY <1>3, <2>2
  <2> QED
    BY <2>1, <2>3, <2>4 DEF d
<1>5. ASSUME NEW i \in 1..Len(a) + Len(b) PROVE all2[i] = all[i]
  <2>1. i \in 1..Len(a) + (Len(b) + 1) /\ i \in Nat \ {0}
    BY <1>3
  <2>2. CASE i <= Len(a)
    BY <1>4, <2>1, <2>2
  <2>3. CASE i > Len(a)
    <3>1. i - Len(a) \in 1..Len(b) /\ i - Len(a) \in 1..Len(Append(b, r)) /\ i - Len(a) <= Len(b)
      BY <1>2, <1>3, <2>1, <2>3
    <3>2. Append(b, r)[i - Len(a)] = b[i - Len(a)]
      BY <1>2, <3>1
    <3> QED
      BY <1>3, <1>4, <2>1, <2>3, <3>2
  <2> QED
    BY <1>3, <2>1, <2>2, <2>3
<1>6. all2[Len(a) + Len(b) + 1] = r
  <2> DEFINE n == Len(a) + Len(b) + 1
  <2>1. n \in 1..Len(a) + (Len(b) + 1) /\ ~(n <= Len(a)) /\ n - Len(a) = Len(b) + 1
    BY <1>3
  <2>2. Append(b, r)[Len(b) + 1] = r
    BY <1>2, <1>3
  <2> HIDE DEF n
  <2>3. all2[n] = r
    BY <1>4, <2>1, <2>2
  <2> QED
    BY <2>3 DEF n
<1>7. /\ Len(t2) = Len(t) + 1
      /\ \A i \in 1..Len(t2) : t2[i] = IF i <= Len(t) THEN t[i] ELSE c
  BY AppendElements
<1> HIDE DEF all, all2, t2
<1>8. PICK k \in 0..Len(all) :
        /\ \A i \in 1..k : all[i].age # "fresh"
        /\ Len(all) = k + Len(t)
        /\ \A i \in 1..Len(t) : all[k + i].age = "fresh" /\ all[k + i].char = t[i]
  BY DEF SplitAt, all
<1>9. k \in 0..Len(all2) /\ Len(all2) = k + Len(t2) /\ k \in Nat
  <2>1. /\ k \in 0..Len(all) /\ Len(all) = k + Len(t) /\ Len(t2) = Len(t) + 1
        /\ Len(all) = Len(a) + Len(b) /\ Len(all2) = Len(a) + Len(b) + 1
    BY <1>4, <1>7, <1>8
  <2>2. k \in Nat
    BY <2>1
  <2>3. Len(all2) = k + Len(t2) /\ Len(t2) \in Nat
    <3>1. Len(all2) = (k + Len(t)) + 1
      BY <2>1
    <3>2. (k + Len(t)) + 1 = k + (Len(t) + 1) /\ Len(t) + 1 \in Nat
      BY <1>3, <2>2
    <3> QED
      BY <2>1, <3>1, <3>2
  <2>4. k <= Len(all2) /\ Len(all2) \in Nat
    BY <2>2, <2>3
  <2> QED
    BY <2>2, <2>3, <2>4
<1>10. \A i \in 1..k : all2[i].age # "fresh"
  <2> SUFFICES ASSUME NEW i \in 1..k PROVE all2[i].age # "fresh"
    OBVIOUS
  <2>1. i \in 1..Len(a) + Len(b)
    BY <1>3, <1>4, <1>8, <1>9
  <2> QED
    BY <1>5, <1>8, <2>1
<1>11. ASSUME NEW i \in 1..Len(t2)
       PROVE  all2[k + i].age = "fresh" /\ all2[k + i].char = t2[i]
  <2>1. CASE i <= Len(t)
    <3>1. i \in 1..Len(t) /\ k + i \in 1..Len(a) + Len(b)
      BY <1>3, <1>4, <1>7, <1>8, <1>9, <2>1
    <3> QED
      BY <1>5, <1>7, <1>8, <2>1, <3>1
  <2>2. CASE i > Len(t)
    <3>1. i = Len(t) + 1 /\ k + i = Len(a) + Len(b) + 1
      <4>1. Len(t2) = Len(t) + 1 /\ k + Len(t) = Len(a) + Len(b) /\ i \in 1..Len(t2)
        BY <1>4, <1>7, <1>8
      <4>2. i \in Int /\ i <= Len(t) + 1
        BY <1>3, <4>1
      <4>3. i = Len(t) + 1
        BY <1>3, <2>2, <4>2
      <4>4. PICK lt \in Nat, lo \in Nat : lt = Len(t) /\ lo = Len(a) + Len(b)
        BY <1>3
      <4>5. i = lt + 1 /\ k + lt = lo /\ k \in Nat
        BY <1>9, <4>1, <4>3, <4>4
      <4>6. k + i = lo + 1
        BY <4>5
      <4> QED
        BY <4>3, <4>4, <4>6
    <3>2. t2[i] = c
      BY <1>7, <2>2
    <3> QED
      BY <1>1, <1>6, <3>1, <3>2
  <2> QED
    BY <1>3, <1>7, <2>1, <2>2
<1>12. SplitAt(all2, t2)
  BY <1>9, <1>10, <1>11 DEF SplitAt
<1> QED
  BY <1>12 DEF all2, t2, r

\* Before the echo loop the whole of the receive FIFO is the part that is not
\* fresh.
LEMMA ArrivedInOrder == IInv /\ Arrived /\ kpc \in Early => EchoInOrder
<1> SUFFICES ASSUME IInv, Arrived, kpc \in Early PROVE EchoInOrder
  OBVIOUS
<1>1. rxFifo \in Seq(Received) /\ echoed = <<>> /\ typed = <<>>
  BY DEF IInv, TypeOK, Arrived
<1>2. echoed \o rxFifo = rxFifo /\ Len(rxFifo) \in Nat
  BY <1>1
<1>3. \A i \in 1..Len(rxFifo) : rxFifo[i].age # "fresh"
  BY DEF Arrived
<1>4. Len(rxFifo) \in 0..Len(rxFifo) /\ Len(rxFifo) = Len(rxFifo) + Len(typed)
  BY <1>1, <1>2
<1>5. SplitAt(rxFifo, typed)
  <2> DEFINE k == Len(rxFifo)
  <2>1. k \in 0..Len(rxFifo) /\ Len(rxFifo) = k + Len(typed) /\ 1..Len(typed) = {}
    BY <1>1, <1>2
  <2>2. \A i \in 1..k : rxFifo[i].age # "fresh"
    BY <1>3
  <2> HIDE DEF k
  <2> QED
    BY <2>1, <2>2 DEF SplitAt
<1> QED
  BY <1>2, <1>5 DEF SplitAt, EchoInOrder

\* Only KeyArrives, ReadChar and ClearOne touch what arrived.
LEMMA NextInOrder ==
    IInv /\ IInv' /\ Arrived /\ EchoInOrder /\ [Next]_vars => Arrived' /\ EchoInOrder'
<1> SUFFICES ASSUME IInv, IInv', Arrived, EchoInOrder, [Next]_vars
             PROVE  Arrived' /\ EchoInOrder'
  OBVIOUS
<1> USE DEF Early
<1>1. ASSUME UNCHANGED <<rxFifo, echoed, typed>>, kpc' \in Early => kpc \in Early
      PROVE  Arrived' /\ EchoInOrder'
  BY <1>1 DEF Arrived, EchoInOrder
<1>2. CASE ReadChar /\ UNCHANGED env
  <2>1. kpc' = "echo_write" /\ typed' = typed /\ rxFifo # <<>>
        /\ rxFifo' = Tail(rxFifo) /\ echoed' = Append(echoed, Head(rxFifo))
    BY <1>2 DEF ReadChar, ReadDR, RXFE, env
  <2>2. echoed \in Seq(Received) /\ rxFifo \in Seq(Received)
    BY DEF IInv, TypeOK
  <2>3. echoed' \o rxFifo' = echoed \o rxFifo
    BY <2>1, <2>2, MoveHead
  <2>4. SplitAt(echoed \o rxFifo, typed)
    BY DEF EchoInOrder, SplitAt
  <2>5. SplitAt(echoed' \o rxFifo', typed')
    BY ONLY <2>1, <2>3, <2>4
  <2>6. EchoInOrder'
    BY <2>5 DEF EchoInOrder, SplitAt
  <2> QED
    BY <2>1, <2>6 DEF Arrived
<1>3. CASE ClearOne /\ UNCHANGED env
  <2>1. kpc = "clear" /\ kpc' = kpc /\ UNCHANGED <<echoed, typed>>
        /\ rxFifo # <<>> /\ rxFifo' = Tail(rxFifo) /\ rxFifo \in Seq(Received)
    BY <1>3 DEF ClearOne, ReadDR, RXFE, env, main, IInv, TypeOK, Order, NothingPending
  <2>2. /\ Len(Tail(rxFifo)) = Len(rxFifo) - 1 /\ Len(rxFifo) \in Nat \ {0}
        /\ \A i \in 1..Len(Tail(rxFifo)) : Tail(rxFifo)[i] = rxFifo[i + 1]
    BY <2>1, TailElements
  <2>3. echoed = <<>> /\ typed = <<>> /\ \A i \in 1..Len(rxFifo) : rxFifo[i].age # "fresh"
    BY <2>1 DEF Arrived
  <2>4. ASSUME NEW i \in 1..Len(rxFifo') PROVE rxFifo'[i].age # "fresh"
    BY <2>1, <2>2, <2>3
  <2>5. Arrived'
    BY <2>1, <2>3, <2>4 DEF Arrived
  <2>6. (EchoInOrder)'
    <3>1. (IInv /\ Arrived /\ kpc \in Early => EchoInOrder)'
      BY ArrivedInOrder, PTL
    <3> QED
      BY <2>1, <2>5, <3>1
  <2> QED
    BY <2>5, <2>6
<1>4. CASE KeyArrives
  <2>1. UNCHANGED <<kpc, echoed>>
    BY <1>4 DEF KeyArrives, main
  <2>2. PICK c \in Keys :
          /\ Receive([char |-> c, age |-> Age])
          /\ typed' = IF Age = "fresh" /\ Accepts THEN Append(typed, c) ELSE typed
    BY <1>4 DEF KeyArrives
  <2>3. /\ echoed \in Seq(Received) /\ rxFifo \in Seq(Received) /\ typed \in Seq(Keys)
    BY DEF IInv, TypeOK
  <2>4. CASE ~Accepts
    BY <1>1, <2>1, <2>2, <2>4 DEF Receive
  <2>5. CASE Accepts /\ kpc \in Early
    <3> DEFINE r == [char |-> c, age |-> Age]
    <3>1. Age \in {"spurious", "during"} /\ r \in Received /\ r.age # "fresh"
      BY <2>5 DEF Age, Received, Ages
    <3>2. typed' = typed /\ rxFifo' = Append(rxFifo, r)
      BY <2>2, <2>5, <3>1 DEF Receive
    <3> HIDE DEF r
    <3>3. echoed = <<>> /\ typed = <<>> /\ \A i \in 1..Len(rxFifo) : rxFifo[i].age # "fresh"
      BY <2>5 DEF Arrived
    <3>4. /\ Len(rxFifo') = Len(rxFifo) + 1 /\ Len(rxFifo) \in Nat
          /\ \A i \in 1..Len(rxFifo') : rxFifo'[i] = IF i <= Len(rxFifo) THEN rxFifo[i] ELSE r
      BY <2>3, <3>1, <3>2, AppendElements
    <3>5. ASSUME NEW i \in 1..Len(rxFifo') PROVE rxFifo'[i].age # "fresh"
      BY <3>1, <3>3, <3>4
    <3>6. Arrived' /\ kpc' \in Early
      BY <2>1, <2>5, <3>2, <3>3, <3>5 DEF Arrived
    <3>7. (IInv /\ Arrived /\ kpc \in Early => EchoInOrder)'
      BY ArrivedInOrder, PTL
    <3> QED
      BY <3>6, <3>7
  <2>6. CASE Accepts /\ kpc \notin Early
    <3>1. Age = "fresh"
      BY <2>6 DEF Age
    <3>2. /\ rxFifo' = Append(rxFifo, [char |-> c, age |-> "fresh"])
          /\ typed' = Append(typed, c)
      BY <2>2, <2>6, <3>1 DEF Receive
    <3>3. SplitAt(echoed \o rxFifo, typed)
      BY DEF EchoInOrder, SplitAt
    <3>4. SplitAt(echoed' \o rxFifo', typed')
      BY <2>1, <2>3, <3>2, <3>3, SplitMore
    <3>5. EchoInOrder'
      BY <3>4 DEF EchoInOrder, SplitAt
    <3> QED
      BY <2>1, <2>6, <3>5 DEF Arrived
  <2> QED
    BY <2>4, <2>5, <2>6
<1>5. CASE (InitFlush \/ InitOff \/ SetBaudrate \/ InitLcr \/ InitOn) /\ UNCHANGED env
  <2>1. UNCHANGED <<rxFifo, echoed, typed>> /\ kpc \in Early
    BY <1>5 DEF InitFlush, InitOff, SetBaudrate, InitLcr, InitOn, TurnOff, TurnOn, env,
                uart, main, IInv, Order, NothingPending, InitSteps
  <2> QED
    BY <1>1, <2>1
<1>6. CASE (WaitForSlot \/ PutCr \/ Put \/ WriteReturns \/ Flush) /\ UNCHANGED env
  <2>1. UNCHANGED <<rxFifo, echoed, typed, kpc>>
    BY <1>6 DEF WaitForSlot, PutCr, Put, WriteReturns, Flush, WriteDR, env, uart, main
  <2> QED
    BY <1>1, <2>1
<1>7. CASE (ClearReturns \/ PrintMessage \/ CallClearRx \/ CallReadChar \/ CallWriteChar)
           /\ UNCHANGED env
  <2>1. UNCHANGED <<rxFifo, echoed, typed>> /\ (kpc' \in Early => kpc \in Early)
    BY <1>7 DEF ClearReturns, PrintMessage, CallClearRx, CallReadChar, CallWriteChar,
                env, uart, main
  <2> QED
    BY <1>1, <2>1
<1>8. CASE TransmitChar \/ UNCHANGED vars
  BY <1>1, <1>8 DEF TransmitChar, Transmit, vars, env, uart, main
<1> QED
  BY <1>2, <1>3, <1>4, <1>5, <1>6, <1>7, <1>8 DEF Next, Kernel, Driver, KernelMain

\* What is typed once the echo loop runs is read once each, in order, behind
\* what the FIFO held from before (read_char_converting 315-338).
THEOREM EchoesInOrder == Spec => []EchoInOrder
<1>1. Init => Arrived /\ EchoInOrder
  <2>1. Init => Arrived /\ kpc \in Early
    BY DEF Init, Arrived, Early
  <2> QED
    BY <2>1, InitIInv, ArrivedInOrder
<1> QED
  BY <1>1, Invariance, NextInOrder, PTL DEF Spec

-----------------------------------------------------------------------------

\* How many of the first i echoed characters are carriage returns.
CrsIn(e, i) == {j \in 1..i : e[j].char = CR}

\* The echo of a carriage return is two characters long, of any other one.
LEMMA EchoShape ==
    ASSUME NEW e \in Seq(Received), NEW i \in 1..Len(e)
    PROVE  Echo(e, i) = IF e[i].char = CR THEN <<CR, LF>> ELSE <<e[i].char>>
<1>1. e[i] \in Received
  OBVIOUS
<1>2. e[i].char \in Keys
  BY <1>1 DEF Received
<1> QED
  BY <1>2, ConsoleAssumption DEF Echo, Crlf, Convert

\* The end of an echo is a number, and not before the end of an earlier one.
LEMMA EchoEndOrder ==
    ASSUME NEW e, NEW i \in Nat, NEW k \in Nat, i <= k
    PROVE  EchoEnd(e, i) \in Nat /\ EchoEnd(e, i) <= EchoEnd(e, k) /\ EchoEnd(e, 0) = 0
<1>1. ASSUME NEW n \in Nat PROVE IsFiniteSet(CrsIn(e, n)) /\ Cardinality(CrsIn(e, n)) \in Nat
  <2>1. CrsIn(e, n) \in SUBSET (1..n) /\ IsFiniteSet(1..n)
    BY FS_Interval DEF CrsIn
  <2> QED
    BY <2>1, FS_Subset, FS_CardinalityType
<1>2. CrsIn(e, i) \in SUBSET CrsIn(e, k)
  BY DEF CrsIn
<1>3. Cardinality(CrsIn(e, i)) <= Cardinality(CrsIn(e, k))
  BY <1>1, <1>2, FS_Subset
<1>4. CrsIn(e, 0) = {}
  BY DEF CrsIn
<1>5. Cardinality(CrsIn(e, 0)) = 0
  BY <1>4, FS_EmptySet
<1>6. /\ EchoEnd(e, i) = i + Cardinality(CrsIn(e, i))
      /\ EchoEnd(e, k) = k + Cardinality(CrsIn(e, k))
      /\ EchoEnd(e, 0) = 0 + Cardinality(CrsIn(e, 0))
  BY DEF EchoEnd, CrsIn
<1> QED
  BY <1>1, <1>3, <1>5, <1>6

\* One echo ends where the one before it did, and its own length later.
LEMMA EchoEndStep ==
    ASSUME NEW e \in Seq(Received), NEW i \in 1..Len(e)
    PROVE  /\ EchoEnd(e, i) = EchoEnd(e, i - 1) + Len(Echo(e, i))
           /\ EchoEnd(e, i) \in Nat /\ EchoEnd(e, i - 1) \in Nat
           /\ Len(Echo(e, i)) \in {1, 2}
<1>1. i \in Nat /\ i - 1 \in Nat /\ i - 1 <= i
  OBVIOUS
<1>2. EchoEnd(e, i) \in Nat /\ EchoEnd(e, i - 1) \in Nat
  BY <1>1, EchoEndOrder
<1>3. IsFiniteSet(CrsIn(e, i - 1)) /\ Cardinality(CrsIn(e, i - 1)) \in Nat
  <2>1. CrsIn(e, i - 1) \in SUBSET (1..(i - 1)) /\ IsFiniteSet(1..(i - 1))
    BY <1>1, FS_Interval DEF CrsIn
  <2> QED
    BY <2>1, FS_Subset, FS_CardinalityType
<1>4. /\ EchoEnd(e, i) = i + Cardinality(CrsIn(e, i))
      /\ EchoEnd(e, i - 1) = (i - 1) + Cardinality(CrsIn(e, i - 1))
  BY DEF EchoEnd, CrsIn
<1>5. CASE e[i].char = CR
  <2>1. CrsIn(e, i) = CrsIn(e, i - 1) \cup {i} /\ i \notin CrsIn(e, i - 1)
    BY <1>5 DEF CrsIn
  <2>2. Cardinality(CrsIn(e, i)) = Cardinality(CrsIn(e, i - 1)) + 1
    BY <1>3, <2>1, FS_AddElement
  <2>3. Len(Echo(e, i)) = 2
    BY <1>5, EchoShape
  <2> QED
    BY <1>1, <1>2, <1>3, <1>4, <2>2, <2>3
<1>6. CASE e[i].char # CR
  <2>1. CrsIn(e, i) = CrsIn(e, i - 1)
    BY <1>6 DEF CrsIn
  <2>2. Len(Echo(e, i)) = 1
    BY <1>6, EchoShape
  <2> QED
    BY <1>1, <1>2, <1>3, <1>4, <2>1, <2>2
<1> QED
  BY <1>5, <1>6

\* What only grows at its end keeps the echoes it ends with.
LEMMA EchoKept ==
    ASSUME NEW e \in Seq(Received), NEW w, NEW k \in 0..Len(e), NEW m \in Nat,
           EchoedUpTo(e, k, w, m),
           NEW e2, NEW w2, \A i \in 1..k : e2[i] = e[i], \A i \in 1..m : w2[i] = w[i]
    PROVE  EchoedUpTo(e2, k, w2, m)
<1>1. k \in Nat /\ Len(e) \in Nat /\ k <= Len(e)
  BY LenType
<1>2. ASSUME NEW i \in 0..k PROVE EchoEnd(e2, i) = EchoEnd(e, i)
  <2>1. {j \in 1..i : e2[j].char = CR} = {j \in 1..i : e[j].char = CR}
    BY <1>1
  <2> QED
    BY <2>1 DEF EchoEnd
<1>3. ASSUME NEW i \in 1..k PROVE Echo(e2, i) = Echo(e, i)
  BY DEF Echo
<1> DEFINE start == m - EchoEnd(e, k)
<1>4. EchoEnd(e2, k) = EchoEnd(e, k) /\ EchoEnd(e, k) \in Nat /\ start >= 0 /\ start \in Int
  BY <1>1, <1>2, EchoEndOrder DEF EchoedUpTo
<1>5. ASSUME NEW i \in 1..k, NEW j \in 1..Len(Echo(e2, i))
      PROVE  w2[start + EchoEnd(e2, i - 1) + j] = Echo(e2, i)[j]
  <2>1. i \in 1..Len(e) /\ i \in Nat /\ i - 1 \in 0..k /\ i <= k
    BY <1>1
  <2>2. /\ EchoEnd(e, i) = EchoEnd(e, i - 1) + Len(Echo(e, i)) /\ EchoEnd(e, i) \in Nat
        /\ EchoEnd(e, i - 1) \in Nat /\ Len(Echo(e, i)) \in {1, 2}
    BY <2>1, EchoEndStep
  <2>3. EchoEnd(e, i) <= EchoEnd(e, k)
    BY <1>1, <2>1, EchoEndOrder
  <2>4. Echo(e2, i) = Echo(e, i) /\ EchoEnd(e2, i - 1) = EchoEnd(e, i - 1)
    BY <1>2, <1>3, <2>1
  <2>5. j \in 1..Len(Echo(e, i))
    BY <2>4
  <2>6. w[start + EchoEnd(e, i - 1) + j] = Echo(e, i)[j]
    BY <2>5 DEF EchoedUpTo
  <2>7. start + EchoEnd(e, i - 1) + j \in 1..m
    <3> DEFINE s == start
    <3>1. s \in Int /\ s >= 0 /\ s = m - EchoEnd(e, k)
      BY <1>4
    <3> HIDE DEF s
    <3>2. PICK a \in Nat, b \in Nat, c \in Nat :
            a = EchoEnd(e, i - 1) /\ b = Len(Echo(e, i)) /\ c = EchoEnd(e, k)
      BY <1>4, <2>2
    <3>3. a + b <= c /\ j \in 1..b /\ s = m - c
      BY <2>2, <2>3, <2>5, <3>1, <3>2
    <3>4. s \in Nat /\ j \in Nat /\ j >= 1 /\ j <= b /\ s + c = m
      BY <1>1, <3>1, <3>3
    <3>5. s + a + j >= 1 /\ s + a + j <= s + c /\ s + a + j \in Nat
      BY <3>3, <3>4
    <3>6. s + a + j \in 1..m
      BY <3>4, <3>5
    <3> QED
      BY <3>2, <3>6 DEF s
  <2> QED
    BY <2>4, <2>6, <2>7
<1>6. m - EchoEnd(e2, k) = start
  BY <1>4
<1> HIDE DEF start
<1>7. /\ m - EchoEnd(e2, k) >= 0
      /\ \A i \in 1..k : \A j \in 1..Len(Echo(e2, i)) :
            w2[(m - EchoEnd(e2, k)) + EchoEnd(e2, i - 1) + j] = Echo(e2, i)[j]
  BY <1>4, <1>5, <1>6
<1> QED
  BY <1>7 DEF EchoedUpTo

\* The echo of one more character makes one more echoed character.
LEMMA EchoMore ==
    ASSUME NEW e \in Seq(Received), NEW w, NEW k \in 1..Len(e), NEW m \in Nat,
           EchoedUpTo(e, k - 1, w, m),
           \A j \in 1..Len(Echo(e, k)) : w[m + j] = Echo(e, k)[j]
    PROVE  EchoedUpTo(e, k, w, m + Len(Echo(e, k)))
<1>1. /\ EchoEnd(e, k) = EchoEnd(e, k - 1) + Len(Echo(e, k)) /\ EchoEnd(e, k) \in Nat
      /\ EchoEnd(e, k - 1) \in Nat /\ Len(Echo(e, k)) \in {1, 2}
  BY EchoEndStep
<1> DEFINE start == m - EchoEnd(e, k - 1)
<1>2. start >= 0 /\ start \in Int /\ (m + Len(Echo(e, k))) - EchoEnd(e, k) = start
  BY <1>1 DEF EchoedUpTo
<1>3. ASSUME NEW i \in 1..k, NEW j \in 1..Len(Echo(e, i))
      PROVE  w[start + EchoEnd(e, i - 1) + j] = Echo(e, i)[j]
  <2>1. CASE i = k
    <3>1. start + EchoEnd(e, k - 1) + j = m + j
      BY <1>1
    <3> QED
      BY <2>1, <3>1
  <2>2. CASE i # k
    <3>1. i \in 1..(k - 1)
      BY <2>2
    <3> QED
      BY <3>1 DEF EchoedUpTo
  <2> QED
    BY <2>1, <2>2
<1> HIDE DEF start
<1>4. /\ (m + Len(Echo(e, k))) - EchoEnd(e, k) >= 0
      /\ \A i \in 1..k : \A j \in 1..Len(Echo(e, i)) :
            w[((m + Len(Echo(e, k))) - EchoEnd(e, k)) + EchoEnd(e, i - 1) + j]
              = Echo(e, i)[j]
  BY <1>2, <1>3
<1> QED
  BY <1>4 DEF EchoedUpTo

-----------------------------------------------------------------------------

\* Between a read_char and the next one the echo of the character read is due:
\* not begun, half written if it is a newline, or complete.
HalfDone == pc = "put" /\ Head(str) = LF
Due(m) ==
    Len(echoed) > 0 /\ EchoedUpTo(echoed, Len(echoed) - 1, written, m)

Echoing ==
    /\ str # <<>> => pc \in {"write", "put_cr", "put"}
    /\ kpc = "echo_write" =>
           /\ pc = "idle" /\ Due(Len(written))
           /\ key = Convert(echoed[Len(echoed)].char)
    /\ kpc = "echo_read" /\ str = <<>> =>
           EchoedUpTo(echoed, Len(echoed), written, Len(written))
    /\ kpc = "echo_read" /\ str # <<>> =>
           /\ str = <<Convert(echoed[Len(echoed)].char)>>
           /\ IF HalfDone
              THEN /\ Len(written) > 0 /\ written[Len(written)] = CR
                   /\ Due(Len(written) - 1)
              ELSE Due(Len(written))

\* What a write to DR adds to the history of the writes.
LEMMA WrittenGrows ==
    ASSUME TypeOK, NEW c \in Char, WriteDR(c)
    PROVE  /\ Len(written) \in Nat /\ Len(written') = Len(written) + 1
           /\ written'[Len(written) + 1] = c
           /\ \A i \in 1..Len(written) : written'[i] = written[i]
<1>1. written' = Append(written, c) /\ written \in Seq(Char)
  BY DEF WriteDR, TypeOK
<1> QED
  BY <1>1, AppendElements

\* Nothing is due before the echo loop, and the debts of the loop do not
\* change with what the UART does.
LEMMA NextEchoing ==
    IInv /\ IInv' /\ Arrived /\ Echoing /\ [Next]_vars => Echoing'
<1> SUFFICES ASSUME IInv, IInv', Arrived, Echoing, [Next]_vars PROVE Echoing'
  OBVIOUS
<1> USE DEF Early
<1>0. PICK n \in Nat, m \in Nat :
        /\ n = Len(echoed) /\ m = Len(written)
        /\ TypeOK /\ echoed \in Seq(Received) /\ echoed' \in Seq(Received)
        /\ str \in Seq(Char)
  BY LenType DEF IInv, TypeOK
<1>1. ASSUME UNCHANGED <<echoed, written, str, key, kpc>>,
             pc' = pc \/ (kpc # "echo_write" /\ (HalfDone' <=> HalfDone)
                          /\ (str # <<>> => pc' \in {"write", "put_cr", "put"}))
      PROVE  Echoing'
  BY <1>1 DEF Echoing, HalfDone, Due
<1>2. ASSUME kpc' \in Early, str' # <<>> => pc' \in {"write", "put_cr", "put"}
      PROVE  Echoing'
  BY <1>2 DEF Echoing
<1>3. CASE ReadChar /\ UNCHANGED env
  <2>1. /\ pc = "read" /\ kpc = "echo_read" /\ str = <<>> /\ rxFifo # <<>>
        /\ pc' = "idle" /\ kpc' = "echo_write" /\ str' = str /\ written' = written
        /\ key' = Convert(Head(rxFifo).char) /\ echoed' = Append(echoed, Head(rxFifo))
    BY <1>3 DEF ReadChar, ReadDR, RXFE, call, IInv, Order, NoSpuriousLeft, Echoing
  <2>2. EchoedUpTo(echoed, n, written, m)
    BY <1>0, <2>1 DEF Echoing
  <2>3. Head(rxFifo) \in Received
    BY <2>1, TailElements DEF IInv, TypeOK
  <2>4. /\ Len(echoed') = n + 1 /\ echoed'[n + 1] = Head(rxFifo)
        /\ \A i \in 1..n : echoed'[i] = echoed[i]
    BY <1>0, <2>1, <2>3, AppendElements
  <2>5. EchoedUpTo(echoed', n, written', m)
    <3>1. n \in 0..Len(echoed) /\ \A i \in 1..m : written'[i] = written[i]
      BY <1>0, <2>1
    <3> QED
      BY <1>0, <2>2, <2>4, <3>1, EchoKept
  <2>6. Len(echoed') - 1 = n /\ Len(echoed') > 0 /\ Len(written') = m
    BY <1>0, <2>1, <2>4
  <2>7. Due(Len(written))'
    BY <2>5, <2>6 DEF Due
  <2>8. key' = Convert(echoed'[Len(echoed')].char)
    BY <2>1, <2>4
  <2> QED
    BY <2>1, <2>7, <2>8 DEF Echoing
<1>4. CASE CallWriteChar /\ UNCHANGED env
  <2>1. /\ kpc = "echo_write" /\ pc' = "write" /\ kpc' = "echo_read" /\ str' = <<key>>
        /\ UNCHANGED <<echoed, written>>
    BY <1>4 DEF CallWriteChar, uart
  <2>2. Due(Len(written)) /\ key = Convert(echoed[Len(echoed)].char)
    BY <2>1 DEF Echoing
  <2>3. Due(Len(written))'
    BY <2>1, <2>2 DEF Due
  <2>4. str' # <<>> /\ ~HalfDone'
    BY <2>1 DEF HalfDone
  <2> QED
    BY <2>1, <2>2, <2>3, <2>4 DEF Echoing
<1>5. CASE ClearReturns /\ UNCHANGED env
  <2>1. kpc = "clear" /\ pc = "clear" /\ pc' = "idle" /\ kpc' = "echo_read"
        /\ UNCHANGED <<echoed, written, str>>
    BY <1>5 DEF ClearReturns, uart, call, IInv, Order, NothingPending
  <2>2. echoed' = <<>> /\ str' = <<>> /\ Len(written') = m
    BY <1>0, <2>1 DEF Arrived, Echoing
  <2>3. EchoEnd(echoed', 0) = 0 /\ 1..0 = {} /\ Len(echoed') = 0
    BY <2>2, EchoEndOrder
  <2>4. EchoedUpTo(echoed', 0, written', m)
    <3>1. m - 0 >= 0
      OBVIOUS
    <3> QED
      BY <2>3, <3>1 DEF EchoedUpTo
  <2> QED
    BY <2>1, <2>2, <2>3, <2>4 DEF Echoing
<1>6. CASE PutCr /\ UNCHANGED env
  <2>1. /\ pc = "put_cr" /\ pc' = "put" /\ WriteDR(CR) /\ str # <<>> /\ Head(str) = LF
        /\ UNCHANGED <<kpc, echoed, str, key>> /\ CR \in Char
    BY <1>6, ConsoleAssumption DEF PutCr, main, call, IInv, Order, SlotFree, Char
  <2>2. CASE kpc # "echo_read"
    BY <2>1, <2>2 DEF Echoing
  <2>3. CASE kpc = "echo_read"
    <3>1. n > 0 /\ EchoedUpTo(echoed, n - 1, written, m)
          /\ str = <<Convert(echoed[n].char)>>
      BY <1>0, <2>1, <2>3 DEF Echoing, Due, HalfDone
    <3>2. /\ Len(written') = m + 1 /\ written'[m + 1] = CR
          /\ \A i \in 1..m : written'[i] = written[i]
      BY <1>0, <2>1, WrittenGrows
    <3>3. EchoedUpTo(echoed', n - 1, written', m)
      <4>1. n - 1 \in 0..Len(echoed) /\ \A i \in 1..(n - 1) : echoed'[i] = echoed[i]
        BY <1>0, <2>1, <3>1
      <4> QED
        BY <1>0, <3>1, <3>2, <4>1, EchoKept
    <3>4. Len(echoed') = n /\ Len(written') - 1 = m /\ Len(written') > 0
      BY <1>0, <2>1, <3>2
    <3>5. Due(Len(written) - 1)' /\ written'[Len(written')] = CR
      BY <3>1, <3>2, <3>3, <3>4 DEF Due
    <3>6. str' = <<Convert(echoed'[Len(echoed')].char)>> /\ HalfDone'
      BY <2>1, <3>1, <3>4 DEF HalfDone
    <3> QED
      BY <2>1, <2>3, <3>4, <3>5, <3>6 DEF Echoing
  <2> QED
    BY <2>2, <2>3
<1>7. CASE Put /\ UNCHANGED env
  <2>1. /\ pc = "put" /\ pc' = "write" /\ WriteDR(Head(str)) /\ str # <<>>
        /\ str' = Tail(str) /\ UNCHANGED <<kpc, echoed, key>> /\ Head(str) \in Char
    BY <1>0, <1>7, TailElements DEF Put, main, IInv, Order, SlotFree
  <2>2. CASE kpc # "echo_read"
    BY <2>1, <2>2 DEF Echoing
  <2>3. CASE kpc = "echo_read"
    <3>1. n > 0 /\ str = <<Convert(echoed[n].char)>>
      BY <1>0, <2>1, <2>3 DEF Echoing, Due
    <3>2. Head(str) = Convert(echoed[n].char) /\ str' = <<>>
      BY <2>1, <3>1
    <3>3. /\ Len(written') = m + 1 /\ written'[m + 1] = Head(str)
          /\ \A i \in 1..m : written'[i] = written[i]
      BY <1>0, <2>1, WrittenGrows
    <3>4. /\ n \in 1..Len(echoed') /\ echoed' = echoed /\ Len(echoed') = n
          /\ n - 1 \in 0..Len(echoed)
      BY <1>0, <2>1, <3>1
    <3>5. Echo(echoed', n) = Crlf(Head(str))
      BY <3>2, <3>4 DEF Echo
    <3>6. EchoedUpTo(echoed', n, written', m + 1)
      <4>1. CASE Head(str) = LF
        <5>1. m > 0 /\ written[m] = CR /\ EchoedUpTo(echoed, n - 1, written, m - 1)
          BY <1>0, <2>1, <2>3, <4>1 DEF Echoing, HalfDone, Due
        <5>2. m - 1 \in Nat /\ \A i \in 1..(m - 1) : written'[i] = written[i]
          BY <3>3, <5>1
        <5>3. EchoedUpTo(echoed', n - 1, written', m - 1)
          BY <1>0, <3>4, <5>1, <5>2, EchoKept
        <5>4. Echo(echoed', n) = <<CR, LF>>
          BY <3>5, <4>1 DEF Crlf
        <5>5. written'[m] = CR /\ written'[m + 1] = LF /\ m = (m - 1) + 1 /\ m + 1 = (m - 1) + 2
          BY <3>3, <4>1, <5>1
        <5>6. Len(Echo(echoed', n)) = 2
              /\ \A j \in 1..2 : written'[(m - 1) + j] = Echo(echoed', n)[j]
          BY <5>4, <5>5
        <5>7. EchoedUpTo(echoed', n, written', (m - 1) + Len(Echo(echoed', n)))
          BY <1>0, <3>4, <5>2, <5>3, <5>6, EchoMore
        <5> QED
          BY <5>5, <5>6, <5>7
      <4>2. CASE Head(str) # LF
        <5>1. EchoedUpTo(echoed, n - 1, written, m)
          BY <1>0, <2>1, <2>3, <4>2 DEF Echoing, HalfDone, Due
        <5>2. EchoedUpTo(echoed', n - 1, written', m)
          BY <1>0, <3>3, <3>4, <5>1, EchoKept
        <5>3. Echo(echoed', n) = <<Head(str)>>
          BY <3>5, <4>2 DEF Crlf
        <5>4. Len(Echo(echoed', n)) = 1
              /\ \A j \in 1..1 : written'[m + j] = Echo(echoed', n)[j]
          BY <3>3, <5>3
        <5>5. EchoedUpTo(echoed', n, written', m + Len(Echo(echoed', n)))
          BY <1>0, <3>4, <5>2, <5>4, EchoMore
        <5> QED
          BY <5>4, <5>5
      <4> QED
        BY <4>1, <4>2
    <3> QED
      BY <2>1, <2>3, <3>2, <3>3, <3>4, <3>6 DEF Echoing
  <2> QED
    BY <2>2, <2>3
<1>8. CASE WaitForSlot /\ UNCHANGED env
  <2>1. /\ UNCHANGED <<echoed, written, str, key, kpc>> /\ pc = "write" /\ ~HalfDone
        /\ pc' \in {"put_cr", "put"} /\ ~HalfDone'
    BY <1>8 DEF WaitForSlot, uart, main, call, HalfDone
  <2>2. kpc # "echo_write"
    BY <2>1 DEF Echoing
  <2> QED
    BY <1>1, <2>1, <2>2
<1>9. CASE (WriteReturns \/ Flush \/ CallReadChar) /\ UNCHANGED env
  <2>1. /\ UNCHANGED <<echoed, written, str, key, kpc>> /\ str = <<>>
        /\ pc \in {"write", "flush", "idle"} /\ pc' \in {"flush", "idle", "read"}
        /\ kpc # "echo_write"
    BY <1>9 DEF WriteReturns, Flush, CallReadChar, uart, main, call, Echoing
  <2>2. HalfDone' <=> HalfDone
    BY <2>1 DEF HalfDone
  <2> QED
    BY <1>1, <2>1, <2>2
<1>10. CASE (InitFlush \/ InitOff \/ SetBaudrate \/ InitLcr \/ InitOn \/ ClearOne
             \/ PrintMessage \/ CallClearRx) /\ UNCHANGED env
  <2>1. kpc' \in Early /\ (str' # <<>> => pc' \in {"write", "put_cr", "put"})
    BY <1>10 DEF InitFlush, InitOff, SetBaudrate, InitLcr, InitOn, ClearOne, PrintMessage,
                 CallClearRx, main, call, IInv, Order, NothingPending, InitSteps, Echoing
  <2> QED
    BY <1>2, <2>1
<1>11. CASE TransmitChar \/ KeyArrives \/ UNCHANGED vars
  <2>1. UNCHANGED <<echoed, written, str, key, kpc, pc>>
    BY <1>11 DEF TransmitChar, KeyArrives, Transmit, Receive, vars, uart, main, call
  <2> QED
    BY <1>1, <2>1
<1> QED
  BY <1>3, <1>4, <1>5, <1>6, <1>7, <1>8, <1>9, <1>10, <1>11
  DEF Next, Kernel, Driver, KernelMain

\* When the echo loop comes back to read_char nothing is half written: each
\* character it read is on its way, in order (kernel_main 93-96, write_char
\* 281-295, read_char 413-416).
THEOREM CharactersEchoed == Spec => []EveryKeyEchoed
<1>1. Init => Arrived /\ EchoInOrder /\ Echoing
  <2>1. Init => Arrived /\ kpc \in Early /\ Echoing
    BY DEF Init, Arrived, Early, Echoing
  <2> QED
    BY <2>1, InitIInv, ArrivedInOrder
<1>2. IInv /\ Echoing => EveryKeyEchoed
  BY DEF IInv, Order, NoSpuriousLeft, Echoing, EveryKeyEchoed
<1> QED
  BY <1>1, <1>2, Invariance, NextInOrder, NextEchoing, PTL DEF Spec

-----------------------------------------------------------------------------

\* A string is as long on the line as without its first character, and one or,
\* for a newline, two longer.
LEMMA ExpandedLenStep ==
    ASSUME NEW s \in Seq(Char), s # <<>>
    PROVE  /\ ExpandedLen(s) = ExpandedLen(Tail(s)) + (IF Head(s) = LF THEN 2 ELSE 1)
           /\ ExpandedLen(s) \in Nat /\ ExpandedLen(Tail(s)) \in Nat
<1> DEFINE t == Tail(s)
           B == {i \in 1..Len(s) : s[i] = LF}
           A == {i \in 1..Len(t) : t[i] = LF}
           A1 == {i \in 2..Len(s) : s[i] = LF}
<1>1. /\ Head(s) = s[1] /\ t \in Seq(Char) /\ Len(t) = Len(s) - 1 /\ Len(s) \in Nat \ {0}
      /\ \A i \in 1..Len(t) : t[i] = s[i + 1]
  BY TailElements
<1> HIDE DEF t
<1>2. IsFiniteSet(A) /\ IsFiniteSet(B) /\ Cardinality(A) \in Nat /\ Cardinality(B) \in Nat
  <2>1. Len(t) \in Nat /\ Len(s) \in Nat
    BY <1>1
  <2>2. IsFiniteSet(1..Len(t)) /\ IsFiniteSet(1..Len(s))
    BY <2>1, FS_Interval
  <2>3. A \in SUBSET (1..Len(t)) /\ B \in SUBSET (1..Len(s))
    OBVIOUS
  <2> QED
    BY <2>2, <2>3, FS_Subset, FS_CardinalityType
<1>3. IsFiniteSet(A1) /\ Cardinality(A1) = Cardinality(A)
  <2> DEFINE f == [i \in A |-> i + 1]
  <2>1. \A i \in A : i + 1 \in A1
    BY <1>1
  <2>2. \A j \in A1 : j - 1 \in A /\ (j - 1) + 1 = j
    BY <1>1
  <2>3. \A i, j \in A : i + 1 = j + 1 => i = j
    OBVIOUS
  <2> HIDE DEF A, A1
  <2>4. f \in [A -> A1] /\ \A i \in A : f[i] = i + 1
    BY <2>1
  <2>5. f \in Injection(A, A1)
    BY <2>3, <2>4 DEF Injection, IsInjective
  <2>6. f \in Surjection(A, A1)
    BY <2>2, <2>4 DEF Surjection
  <2>7. ExistsBijection(A, A1)
    BY <2>5, <2>6 DEF ExistsBijection, Bijection
  <2> QED
    BY <1>2, <2>7, FS_Bijection
<1>4. ExpandedLen(s) = Len(s) + Cardinality(B) /\ ExpandedLen(t) = Len(t) + Cardinality(A)
  BY DEF ExpandedLen
<1>5. CASE Head(s) = LF
  <2>1. B = A1 \cup {1} /\ 1 \notin A1
    BY <1>1, <1>5
  <2> HIDE DEF A, B, A1
  <2>2. Cardinality(B) = Cardinality(A) + 1
    BY <1>3, <2>1, FS_AddElement
  <2> QED
    BY <1>1, <1>2, <1>4, <1>5, <2>2 DEF t
<1>6. CASE Head(s) # LF
  <2>1. B = A1
    BY <1>1, <1>6
  <2> HIDE DEF A, B, A1
  <2> QED
    BY <1>1, <1>2, <1>3, <1>4, <1>6, <2>1 DEF t
<1> QED
  BY <1>5, <1>6

\* So long as no message, with its carriage returns, is longer than the
\* transmit FIFO, what is left of one still fits it: the carriage return of a
\* newline already in it included.
AllFit == \A i \in 1..Len(Messages) : ExpandedLen(Messages[i]) <= TxDepth
Fits ==
    /\ kpc \in Early => lost = <<>>
    /\ \A i \in 1..Len(todo) : ExpandedLen(todo[i]) <= TxDepth
    /\ kpc = "print" /\ pc \in {"write", "put_cr"} =>
           Len(txFifo) + ExpandedLen(str) <= TxDepth
    /\ kpc = "print" /\ pc = "put" =>
           Len(txFifo) + ExpandedLen(str) <= TxDepth + (IF Head(str) = LF THEN 1 ELSE 0)

\* The expanded length of any string is a number.
LEMMA ExpandedLenType == ASSUME NEW s \in Seq(Char) PROVE ExpandedLen(s) \in Nat
<1>1. IsFiniteSet(1..Len(s)) /\ Len(s) \in Nat
  BY FS_Interval
<1>2. {i \in 1..Len(s) : s[i] = LF} \in SUBSET (1..Len(s))
  OBVIOUS
<1>3. Cardinality({i \in 1..Len(s) : s[i] = LF}) \in Nat
  BY <1>1, <1>2, FS_Subset, FS_CardinalityType
<1> QED
  BY <1>1, <1>3 DEF ExpandedLen

\* A message starts at an empty FIFO, and no character of it overtakes the
\* room it needs.
LEMMA NextFits == IInv /\ IInv' /\ Fits /\ [Next]_vars => Fits'
<1> SUFFICES ASSUME IInv, IInv', Fits, [Next]_vars PROVE Fits'
  OBVIOUS
<1> USE DEF Early
<1>0. PICK d \in Nat, x \in Nat :
        /\ d = Len(txFifo) /\ x = ExpandedLen(str)
        /\ TypeOK /\ str \in Seq(Char) /\ txFifo \in Seq(Char) /\ TxDepth \in Nat \ {0}
  BY LenType, ExpandedLenType, Pl011Assumption DEF IInv, TypeOK
<1>1. ASSUME UNCHANGED <<txFifo, lost, todo, str>>, kpc' \in Early => kpc \in Early,
             (pc' = pc /\ kpc' = kpc) \/ pc' \notin {"write", "put_cr", "put"}
      PROVE  Fits'
  BY <1>1 DEF Fits
<1>2. CASE InitOff /\ UNCHANGED env
  <2>1. txFifo = <<>> /\ pc' = "init_baud" /\ UNCHANGED <<todo, str, kpc, txFifo, lost>>
    BY <1>2 DEF InitOff, TurnOff, BUSY, main, call, IInv, Order, NothingPending, InitSteps
  <2> QED
    BY <1>1, <2>1
<1>3. CASE (InitFlush \/ SetBaudrate \/ InitLcr \/ InitOn) /\ UNCHANGED env
  <2>1. UNCHANGED <<txFifo, lost, todo, str>> /\ kpc \in Early
        /\ pc' \notin {"write", "put_cr", "put"}
    BY <1>3 DEF InitFlush, SetBaudrate, InitLcr, InitOn, TurnOn, uart, main, call,
                IInv, Order, NothingPending, InitSteps
  <2> QED
    BY <1>1, <2>1
<1>4. CASE WaitForSlot /\ UNCHANGED env
  <2>1. UNCHANGED <<txFifo, lost, todo, str, kpc>> /\ pc = "write" /\ str # <<>>
        /\ pc' \in {"put_cr", "put"}
    BY <1>4 DEF WaitForSlot, uart, main, call
  <2>2. kpc = "print" =>
            d + x <= TxDepth + (IF Head(str) = LF THEN 1 ELSE 0) /\ d + x <= TxDepth
    BY <1>0, <2>1 DEF Fits
  <2> QED
    BY <1>0, <2>1, <2>2 DEF Fits
<1>5. CASE PutCr /\ UNCHANGED env
  <2>1. /\ pc = "put_cr" /\ pc' = "put" /\ WriteDR(CR) /\ str # <<>> /\ Head(str) = LF
        /\ enabled /\ d < TxDepth
        /\ UNCHANGED <<kpc, todo, str>> /\ CR \in Char
    BY <1>0, <1>5, ConsoleAssumption
    DEF PutCr, main, call, IInv, Order, SlotFree, Char, InitSteps
  <2>2. lost' = lost /\ Len(txFifo') = d + 1
    <3>1. /\ txFifo' \in Seq(Char) /\ lost' = lost
          /\ Len(txFifo') + Len(lost') = d + Len(lost) + 1
      BY <1>0, <2>1, WriteDRProperties
    <3>2. Len(txFifo') \in Nat /\ Len(lost) \in Nat
      BY <1>0, <3>1, LenType DEF TypeOK
    <3> QED
      BY <3>1, <3>2
  <2>3. kpc = "print" => d + x <= TxDepth
    BY <1>0, <2>1 DEF Fits
  <2>4. kpc = "print" => (d + 1) + x <= TxDepth + 1
    BY <1>0, <2>3
  <2> QED
    BY <1>0, <2>1, <2>2, <2>4 DEF Fits
<1>6. CASE Put /\ UNCHANGED env
  <2>1. /\ pc = "put" /\ pc' = "write" /\ WriteDR(Head(str)) /\ str # <<>> /\ enabled
        /\ str' = Tail(str) /\ UNCHANGED <<kpc, todo>> /\ Head(str) \in Char
    BY <1>0, <1>6, TailElements DEF Put, main, IInv, Order, SlotFree, InitSteps
  <2>2. PICK y \in Nat :
          /\ y = ExpandedLen(str')
          /\ x = y + (IF Head(str) = LF THEN 2 ELSE 1)
    BY <1>0, <2>1, ExpandedLenStep
  <2>3. /\ txFifo' \in Seq(Char) /\ lost' \in Seq(Char)
        /\ Len(txFifo') + Len(lost') = d + Len(lost) + 1
        /\ d < TxDepth => lost' = lost
    BY <1>0, <2>1, WriteDRProperties
  <2>4. Len(txFifo') \in Nat /\ Len(lost) \in Nat
    BY <1>0, <2>3, LenType DEF TypeOK
  <2>5. CASE kpc = "print"
    <3>1. d + x <= TxDepth + (IF Head(str) = LF THEN 1 ELSE 0)
      BY <1>0, <2>1, <2>5 DEF Fits
    <3>2. d + 1 + y <= TxDepth /\ d < TxDepth
      BY <1>0, <2>2, <3>1
    <3>3. lost' = lost /\ Len(txFifo') = d + 1
      BY <1>0, <2>3, <2>4, <3>2
    <3>4. Len(txFifo') + ExpandedLen(str') <= TxDepth
      BY <2>2, <3>2, <3>3
    <3> QED
      BY <2>1, <2>5, <3>3, <3>4 DEF Fits
  <2>6. CASE kpc # "print"
    <3>1. kpc \notin Early
      BY <2>1, <2>6 DEF IInv, Order, NothingPending, InitSteps
    <3> QED
      BY <2>1, <2>6, <3>1 DEF Fits
  <2> QED
    BY <2>5, <2>6
<1>7. CASE PrintMessage /\ UNCHANGED env
  <2>1. /\ kpc = "print" /\ kpc' = kpc /\ pc' = "write" /\ todo # <<>>
        /\ str' = Head(todo) /\ todo' = Tail(todo)
        /\ txFifo' = <<>> /\ lost' = lost /\ todo \in Seq(Seq(Char))
    BY <1>0, <1>7 DEF PrintMessage, uart, IInv, Order, NothingPending, TypeOK
  <2>2. /\ Head(todo) = todo[1] /\ Len(Tail(todo)) = Len(todo) - 1 /\ Len(todo) \in Nat \ {0}
        /\ \A i \in 1..Len(Tail(todo)) : Tail(todo)[i] = todo[i + 1]
        /\ Head(todo) \in Seq(Char)
    BY <2>1, TailElements
  <2>3. \A i \in 1..Len(todo) : ExpandedLen(todo[i]) <= TxDepth
    BY DEF Fits
  <2>4. ExpandedLen(str') <= TxDepth /\ ExpandedLen(str') \in Nat
    BY <2>1, <2>2, <2>3, ExpandedLenType
  <2>5. ASSUME NEW i \in 1..Len(todo') PROVE ExpandedLen(todo'[i]) <= TxDepth
    BY <2>1, <2>2, <2>3
  <2>6. Len(txFifo') + ExpandedLen(str') <= TxDepth
    BY <2>1, <2>4
  <2> QED
    BY <2>1, <2>5, <2>6 DEF Fits
<1>8. CASE TransmitChar
  <2>1. /\ UNCHANGED <<kpc, pc, todo, str, lost>> /\ txFifo # <<>> /\ txFifo' = Tail(txFifo)
    BY <1>8 DEF TransmitChar, Transmit, BUSY, main, call
  <2>2. Len(txFifo') = d - 1
    BY <1>0, <2>1, TailElements
  <2> QED
    BY <1>0, <2>1, <2>2 DEF Fits
<1>9. CASE CallWriteChar /\ UNCHANGED env
  <2>1. kpc' = "echo_read" /\ todo' = todo
    BY <1>9 DEF CallWriteChar
  <2> QED
    BY <2>1 DEF Fits
<1>10. CASE (WriteReturns \/ Flush \/ ReadChar \/ ClearOne \/ ClearReturns \/ CallClearRx
             \/ CallReadChar) /\ UNCHANGED env
  <2>1. /\ UNCHANGED <<txFifo, lost, todo, str>> /\ (kpc' \in Early => kpc \in Early)
        /\ pc' \notin {"write", "put_cr", "put"}
    BY <1>10 DEF WriteReturns, Flush, ReadChar, ClearOne, ClearReturns, CallClearRx,
                 CallReadChar, ReadDR, uart, main, call
  <2> QED
    BY <1>1, <2>1
<1>11. CASE KeyArrives \/ UNCHANGED vars
  <2>1. UNCHANGED <<txFifo, lost, todo, str, kpc, pc>>
    BY <1>11 DEF KeyArrives, Receive, vars, uart, main, call
  <2> QED
    BY <1>1, <2>1
<1> QED
  BY <1>2, <1>3, <1>4, <1>5, <1>6, <1>7, <1>8, <1>9, <1>10, <1>11
  DEF Next, Kernel, Driver, KernelMain

\* Messages that fit the FIFO with their carriage returns are printed whole:
\* the newlines write_char can lose are those of longer ones (281-295, 344-355).
THEOREM ShortMessagesWhole == Spec => []ShortStringsWhole
<1>1. CASE AllFit
  <2>1. Init => Fits
    BY <1>1 DEF Init, Fits, Early, AllFit
  <2>2. Fits => ShortStringsWhole
    BY DEF Fits, ShortStringsWhole, Early
  <2> QED
    BY <2>1, <2>2, Invariance, NextFits, PTL DEF Spec
<1>2. CASE ~AllFit
  <2>1. ShortStringsWhole
    BY <1>2 DEF AllFit, ShortStringsWhole
  <2> QED
    BY <2>1, PTL
<1> QED
  BY <1>1, <1>2
=============================================================================
