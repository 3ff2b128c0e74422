------------------------------- MODULE Pl011 -------------------------------
(***************************************************************************)
(* The PL011 UART as the kernel's driver and the chainloader see it: the   *)
(* data register in front of a transmit and a receive FIFO, the three      *)
(* status bits they poll, the control register, and the divisor registers  *)
(* that take effect on a write of LCR_H.                                   *)
(*                                                                         *)
(* The shift register is the head of txFifo: a character leaves txFifo     *)
(* when its last stop bit is on the wire, so BUSY is "txFifo not empty".   *)
(***************************************************************************)
EXTENDS Naturals, Sequences

CONSTANTS TxDepth,      \* characters the transmit side holds
          RxDepth       \* characters the receive FIFO holds

ASSUME Pl011Assumption ==
    TxDepth \in Nat \ {0} /\ RxDepth \in Nat \ {0}

VARIABLES
          enabled,      \* CR: UARTEN, TXE and RXE, always written together
          txFifo,
          rxFifo,
          written,      \* history: what software wrote to DR
          wire,         \* history: what was physically put on the TX wire
          lost,         \* history: what was written to DR and never sent
          overrun       \* history: the receive FIFO dropped a character

uart == <<enabled, txFifo, rxFifo, written, wire, lost, overrun>>

TXFF == Len(txFifo) >= TxDepth
BUSY == txFifo # <<>>
RXFE == rxFifo = <<>>

\* A write to DR: a character written to a full FIFO, or to a UART that is
\* off, is not transmitted.
WriteDR(c) ==
    /\ written' = Append(written, c)
    /\ IF enabled /\ ~TXFF
       THEN txFifo' = Append(txFifo, c) /\ lost' = lost
       ELSE lost' = Append(lost, c) /\ txFifo' = txFifo
    /\ UNCHANGED <<enabled, rxFifo, wire, overrun>>

\* A read of DR removes the oldest character of the receive FIFO.
ReadDR ==
    /\ rxFifo' = Tail(rxFifo)
    /\ UNCHANGED <<enabled, txFifo, written, wire, lost, overrun>>

\* CR := 0. The character being sent is completed, the queued ones are lost.
TurnOff ==
    /\ enabled' = FALSE
    /\ txFifo' = <<>>
    /\ IF BUSY
       THEN wire' = Append(wire, Head(txFifo)) /\ lost' = lost \o Tail(txFifo)
       ELSE UNCHANGED <<wire, lost>>
    /\ UNCHANGED <<rxFifo, written, overrun>>

\* CR := UARTEN + TXE + RXE.
TurnOn ==
    /\ enabled' = TRUE
    /\ UNCHANGED <<txFifo, rxFifo, written, wire, lost, overrun>>

\* The transmitter finishes a character.
Transmit ==
    /\ enabled /\ BUSY
    /\ wire' = Append(wire, Head(txFifo))
    /\ txFifo' = Tail(txFifo)
    /\ UNCHANGED <<enabled, rxFifo, written, lost, overrun>>

\* The receiver finishes a character r.
Accepts == enabled /\ Len(rxFifo) < RxDepth

Receive(r) ==
    /\ rxFifo' = IF Accepts THEN Append(rxFifo, r) ELSE rxFifo
    /\ overrun' = (overrun \/ (enabled /\ ~Accepts))
    /\ UNCHANGED <<enabled, txFifo, written, wire, lost>>
=============================================================================
