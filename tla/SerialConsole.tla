---------------------------- MODULE SerialConsole ---------------------------
(***************************************************************************)
(* The kernel's console from power-up to the echo loop: the methods of     *)
(* PL011UartInner as steps of one thread (the only core, interrupts        *)
(* masked, so a NullLock never has a competitor), called in the order of   *)
(* kernel_init and kernel_main, against the UART of module Pl011, which    *)
(* transmits and receives on its own.                                      *)
(***************************************************************************)
EXTENDS Pl011, Baudrate, FiniteSets

CONSTANTS Messages,     \* what kernel_main prints, one string per write_str
          Residues,     \* what a predecessor may have left in the TX FIFO
          Keys,         \* the characters the other end may send
          CR, LF,
          EarlyUarts,   \* whether the build is for the RPi 5's debug UART
          MaxKeys       \* bound: characters received in a behaviour

ASSUME ConsoleAssumption ==
    /\ Messages \in Seq(Seq(Keys \cup {LF}))
    /\ Residues \subseteq Seq(Keys)
    /\ \A r \in Residues : Len(r) <= TxDepth
    /\ CR \in Keys /\ LF \notin Keys
    /\ EarlyUarts \subseteq BOOLEAN
    /\ MaxKeys \in Nat

VARIABLES
    kpc,            \* where kernel_init / kernel_main is
    todo,           \* messages kernel_main has still to print
    key,            \* the character read_char returned
    pc,             \* where the driver method in progress is
    str,            \* the characters write_str / write_char has left
    flushAtEnd,     \* the method is write_str, not write_char
    divisor,        \* IBRD and FBRD as last written
    latched,        \* IBRD and FBRD as last taken over by LCR_H
    chars_written, chars_read,
    typed,          \* history: received while in echo mode
    echoed,         \* history: what the echo loop read
    keys,           \* characters that arrived so far
    earlyUart       \* built with early_uart: init only flushes

main  == <<kpc, todo, key, echoed>>
call  == <<str, flushAtEnd>>
baud  == <<divisor, latched>>
stats == <<chars_written, chars_read>>
env   == <<typed, keys, earlyUart>>
vars  == <<uart, main, pc, call, baud, stats, env>>

Char == Keys \cup {LF}

\* A received character carries the time it arrived at: before clear_rx was
\* called, while it ran, or in echo mode.
Ages     == {"spurious", "during", "fresh"}
Received == [char : Keys, age : Ages]
Age == CASE kpc \in {"init", "print"} -> "spurious"
         [] kpc = "clear"             -> "during"
         [] OTHER                     -> "fresh"

Crlf(c)    == IF c = LF THEN <<CR, LF>> ELSE <<c>>
Convert(c) == IF c = CR THEN LF ELSE c

\* The UART may come up switched off, or still sending for a predecessor; the
\* debug UART is always set up by the firmware.
Init ==
    /\ earlyUart \in EarlyUarts
    /\ enabled \in BOOLEAN /\ (earlyUart => enabled)
    /\ txFifo \in Residues /\ (~enabled => txFifo = <<>>)
    /\ rxFifo = <<>> /\ wire = <<>> /\ lost = <<>> /\ overrun = FALSE
    /\ kpc = "init" /\ todo = Messages /\ key = CR /\ echoed = <<>>
    /\ pc = "init_flush" /\ str = <<>> /\ flushAtEnd = FALSE
    /\ divisor = <<0, 0>> /\ latched = <<0, 0>>
    /\ chars_written = 0 /\ chars_read = 0
    /\ written = txFifo /\ typed = <<>> /\ keys = 0

-----------------------------------------------------------------------------
(* init: flush, CR off, divisor, LCR_H, CR on; or flush alone.             *)

InitFlush ==
    /\ pc = "init_flush" /\ ~BUSY
    /\ IF earlyUart THEN pc' = "idle"     /\ kpc' = "print"
                    ELSE pc' = "init_off" /\ kpc' = kpc
    /\ UNCHANGED <<uart, todo, key, echoed, call, baud, stats>>

InitOff ==
    /\ pc = "init_off"
    /\ TurnOff
    /\ pc' = "init_baud"
    /\ UNCHANGED <<main, call, baud, stats>>

SetBaudrate ==
    /\ pc = "init_baud"
    /\ divisor' = Divisor(48000000, 115200)
    /\ pc' = "init_lcr"
    /\ UNCHANGED <<uart, main, call, latched, stats>>

\* Fault variant: LCR_H is written before the divisor, which is not taken over.
InitLcr_TooEarly ==
    /\ pc = "init_lcr"
    /\ pc' = "init_on"
    /\ UNCHANGED <<uart, main, call, baud, stats>>

InitLcr ==
    /\ pc = "init_lcr"
    /\ latched' = divisor
    /\ pc' = "init_on"
    /\ UNCHANGED <<uart, main, call, divisor, stats>>

InitOn ==
    /\ pc = "init_on"
    /\ TurnOn
    /\ pc' = "idle" /\ kpc' = "print"
    /\ UNCHANGED <<todo, key, echoed, call, baud, stats>>

-----------------------------------------------------------------------------
(* write_char, alone or once per character of write_str, and flush.        *)

\* Fault variants: no look at TXFF, no carriage return.
WaitForSlot_NoWait ==
    /\ pc = "write" /\ str # <<>>
    /\ pc' = IF Head(str) = LF THEN "put_cr" ELSE "put"
    /\ UNCHANGED <<uart, main, call, baud, stats>>

WaitForSlot_NoCr ==
    /\ pc = "write" /\ str # <<>> /\ ~TXFF
    /\ pc' = "put"
    /\ UNCHANGED <<uart, main, call, baud, stats>>

WaitForSlot ==
    /\ pc = "write" /\ str # <<>> /\ ~TXFF
    /\ pc' = IF Head(str) = LF THEN "put_cr" ELSE "put"
    /\ UNCHANGED <<uart, main, call, baud, stats>>

PutCr ==
    /\ pc = "put_cr"
    /\ WriteDR(CR)
    /\ pc' = "put"
    /\ UNCHANGED <<main, call, baud, stats>>

Put ==
    /\ pc = "put"
    /\ WriteDR(Head(str))
    /\ chars_written' = chars_written + 1
    /\ str' = Tail(str)
    /\ pc' = "write"
    /\ UNCHANGED <<main, flushAtEnd, baud, chars_read>>

WriteReturns ==
    /\ pc = "write" /\ str = <<>>
    /\ pc' = IF flushAtEnd THEN "flush" ELSE "idle"
    /\ UNCHANGED <<uart, main, call, baud, stats>>

\* Fault variants: flush does not wait, or waits for the transmitter to start.
Flush_NoWait ==
    /\ pc = "flush"
    /\ pc' = "idle"
    /\ UNCHANGED <<uart, main, call, baud, stats>>

Flush_Inverted ==
    /\ pc = "flush" /\ BUSY
    /\ pc' = "idle"
    /\ UNCHANGED <<uart, main, call, baud, stats>>

Flush ==
    /\ pc = "flush" /\ ~BUSY
    /\ pc' = "idle"
    /\ UNCHANGED <<uart, main, call, baud, stats>>

-----------------------------------------------------------------------------
(* read_char_converting: blocking in read_char, non-blocking in clear_rx.  *)

\* Fault variant: read_char passes NonBlocking, and unwraps None.
ReadChar_NonBlocking ==
    /\ pc = "read"
    /\ IF RXFE
       THEN pc' = "panicked" /\ UNCHANGED <<uart, main, stats>>
       ELSE /\ ReadDR
            /\ key' = Convert(Head(rxFifo).char)
            /\ echoed' = Append(echoed, Head(rxFifo))
            /\ chars_read' = chars_read + 1
            /\ pc' = "idle" /\ kpc' = "echo_write"
            /\ UNCHANGED <<todo, chars_written>>
    /\ UNCHANGED <<call, baud>>

ReadChar ==
    /\ pc = "read" /\ ~RXFE
    /\ ReadDR
    /\ key' = Convert(Head(rxFifo).char)
    /\ echoed' = Append(echoed, Head(rxFifo))
    /\ chars_read' = chars_read + 1
    /\ pc' = "idle" /\ kpc' = "echo_write"
    /\ UNCHANGED <<todo, call, baud, chars_written>>

ClearOne ==
    /\ pc = "clear" /\ ~RXFE
    /\ ReadDR
    /\ chars_read' = chars_read + 1
    /\ UNCHANGED <<main, pc, call, baud, chars_written>>

ClearReturns ==
    /\ pc = "clear" /\ RXFE
    /\ pc' = "idle" /\ kpc' = "echo_read"
    /\ UNCHANGED <<uart, todo, key, echoed, call, baud, stats>>

-----------------------------------------------------------------------------
(* kernel_main: print, clear_rx, then read_char and write_char for ever.   *)

PrintMessage ==
    /\ kpc = "print" /\ pc = "idle" /\ todo # <<>>
    /\ str' = Head(todo) /\ flushAtEnd' = TRUE /\ todo' = Tail(todo)
    /\ pc' = "write"
    /\ UNCHANGED <<uart, kpc, key, echoed, baud, stats>>

\* Fault variant: kernel_main starts to echo without clear_rx.
CallClearRx_Skipped ==
    /\ kpc = "print" /\ pc = "idle" /\ todo = <<>>
    /\ kpc' = "echo_read"
    /\ UNCHANGED <<uart, todo, key, echoed, pc, call, baud, stats>>

CallClearRx ==
    /\ kpc = "print" /\ pc = "idle" /\ todo = <<>>
    /\ kpc' = "clear" /\ pc' = "clear"
    /\ UNCHANGED <<uart, todo, key, echoed, call, baud, stats>>

\* Fault variant: the echo loop clears the receive FIFO on every turn.
CallReadChar_Clearing ==
    /\ kpc = "echo_read" /\ pc = "idle"
    /\ pc' = "clear"
    /\ UNCHANGED <<uart, main, call, baud, stats>>

CallReadChar ==
    /\ kpc = "echo_read" /\ pc = "idle"
    /\ pc' = "read"
    /\ UNCHANGED <<uart, main, call, baud, stats>>

CallWriteChar ==
    /\ kpc = "echo_write" /\ pc = "idle"
    /\ str' = <<key>> /\ flushAtEnd' = FALSE
    /\ pc' = "write" /\ kpc' = "echo_read"
    /\ UNCHANGED <<uart, todo, key, echoed, baud, stats>>

Driver ==
    \/ InitFlush \/ InitOff \/ SetBaudrate \/ InitLcr \/ InitOn
    \/ WaitForSlot \/ PutCr \/ Put \/ WriteReturns \/ Flush
    \/ ReadChar \/ ClearOne \/ ClearReturns

KernelMain == PrintMessage \/ CallClearRx \/ CallReadChar \/ CallWriteChar

Kernel == (Driver \/ KernelMain) /\ UNCHANGED env

\* The hardware and the other end of the line.
TransmitChar ==
    Transmit /\ UNCHANGED <<main, pc, call, baud, stats, env>>

KeyArrives ==
    /\ keys < MaxKeys
    /\ keys' = keys + 1
    /\ \E c \in Keys :
         /\ Receive([char |-> c, age |-> Age])
         /\ typed' = IF Age = "fresh" /\ Accepts THEN Append(typed, c) ELSE typed
    /\ UNCHANGED <<main, pc, call, baud, stats, earlyUart>>

Next == Kernel \/ TransmitChar \/ KeyArrives

\* The core runs, and the transmitter finishes what it is sending.
Spec == Init /\ [][Next]_vars /\ WF_vars(Kernel) /\ WF_vars(TransmitChar)

-----------------------------------------------------------------------------
(* Properties.                                                             *)

\* Every variable holds a value of its type.
TypeOK ==
    /\ enabled \in BOOLEAN /\ overrun \in BOOLEAN /\ earlyUart \in EarlyUarts
    /\ txFifo \in Seq(Char) /\ wire \in Seq(Char) /\ lost \in Seq(Char)
    /\ rxFifo \in Seq(Received) /\ echoed \in Seq(Received)
    /\ kpc \in {"init", "print", "clear", "echo_read", "echo_write"}
    /\ pc \in {"init_flush", "init_off", "init_baud", "init_lcr", "init_on",
               "idle", "write", "put_cr", "put", "flush", "read", "clear"}
    /\ todo \in Seq(Seq(Char)) /\ key \in Char
    /\ str \in Seq(Char) /\ flushAtEnd \in BOOLEAN
    /\ divisor \in Nat \X Nat /\ latched \in Nat \X Nat
    /\ chars_written \in Nat /\ chars_read \in Nat
    /\ written \in Seq(Char) /\ typed \in Seq(Keys) /\ keys \in 0..MaxKeys

\* The FIFO is never overfilled, init throws nothing away, and the only
\* character write_char can lose is the line feed it adds behind a carriage
\* return: the wait for TXFF covers one slot of the two a newline takes.
OnlyLineFeedsLost == \A i \in 1..Len(lost) : lost[i] = LF

\* A string whose CRLF form fits the empty transmit FIFO is printed whole: so
\* long as all messages do, nothing at all is lost before the echo loop.
ExpandedLen(s) == Len(s) + Cardinality({i \in 1..Len(s) : s[i] = LF})
ShortStringsWhole ==
    (/\ \A i \in 1..Len(Messages) : ExpandedLen(Messages[i]) <= TxDepth
     /\ kpc \in {"init", "print", "clear"})
        => lost = <<>>

\* write_str returns only when all it wrote is on the wire: at every call from
\* kernel_main before the echo loop, the line is idle.
StringsFlushed ==
    pc = "idle" /\ kpc = "print" => txFifo = <<>> /\ Len(wire) + Len(lost) = Len(written)

\* clear_rx discards the characters that came before it was called: the echo
\* loop never reads one.
NoSpuriousEcho == \A i \in 1..Len(echoed) : echoed[i].age # "spurious"

\* Every character accepted in echo mode is read once, in order of arrival,
\* and what the FIFO still holds from before is read ahead of all of them.
EchoInOrder ==
    LET all == echoed \o rxFifo
    IN  \E k \in 0..Len(all) :
            /\ \A i \in 1..k : all[i].age # "fresh"
            /\ Len(all) = k + Len(typed)
            /\ \A i \in 1..Len(typed) :
                   all[k + i].age = "fresh" /\ all[k + i].char = typed[i]

\* Whenever the echo loop waits for a character, all it has read so far has
\* been handed to the transmitter, a carriage return as CR LF: the echoes are
\* the end of what was written, one behind the other.
Echo(e, i)    == Crlf(Convert(e[i].char))
EchoEnd(e, i) == i + Cardinality({j \in 1..i : e[j].char = CR})
EchoedUpTo(e, k, w, m) ==
    LET start == m - EchoEnd(e, k)
    IN  /\ start >= 0
        /\ \A i \in 1..k : \A j \in 1..Len(Echo(e, i)) :
               w[start + EchoEnd(e, i - 1) + j] = Echo(e, i)[j]
EveryKeyEchoed ==
    pc = "read" => EchoedUpTo(echoed, Len(echoed), written, Len(written))

\* The console keeps the line rate the chainloader set: a host that uploaded
\* the kernel stays connected as its terminal.  Nothing is handed to the UART
\* at any other rate (the debug UART keeps the firmware's).
SameRateAsChainloader ==
    pc \in {"put_cr", "put"} /\ ~earlyUart => latched = ChainloaderDivisor

\* Every string the kernel prints gets out, whatever the UART was doing at
\* power-up: the kernel reaches its echo loop.
ReachesEcho == <>(kpc = "echo_read")

\* Every character accepted in echo mode is eventually echoed.
Fresh(s) == SelectSeq(s, LAMBDA r : r.age = "fresh")
EchoProgress ==
    \A n \in 1..MaxKeys :
        Len(typed) >= n ~> Len(Fresh(echoed)) >= n /\ pc = "read"
=============================================================================
