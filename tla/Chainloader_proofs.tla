------------------------- MODULE Chainloader_proofs -------------------------
(***************************************************************************)
(* Proofs about the chainloader, for every file, every text of the banner, *)
(* every base of the digits and every number of stray bytes and resets:    *)
(* the board and the host stay in step, no byte of the file is lost or     *)
(* out of place, the kernel that is entered is the file, and what the      *)
(* loader writes is a reliable stream.                                     *)
(*                                                                         *)
(* The second part is about the boot code in front of it, on every number  *)
(* of cores and for every layout of memory the linker script allows.       *)
(***************************************************************************)
EXTENDS Chainloader, ChainloaderBoot, SequenceTheorems, TLAPS

\* What the UART holds.
UartType ==
    /\ enabled \in BOOLEAN
    /\ txFifo \in Seq(Char) /\ written \in Seq(Char) /\ wire \in Seq(Char)
    /\ rxFifo \in Seq(Byte) /\ Len(rxFifo) <= RxDepth

\* What run keeps.
BoardType ==
    /\ pc \in {"init_flush", "init_off", "init_on", "banner", "clear",
               "request", "size", "ok", "payload", "overwritten", "loaded",
               "flush", "kernel"}
    /\ out \in Seq(Char) /\ image \in Seq(Byte)
    /\ got \in 0..4 /\ size \in Nat

\* What the tool on the host keeps.
HostType ==
    /\ file \in Files
    /\ hpc \in {"wait_request", "size", "wait_ok", "file", "terminal", "failed"}
    /\ seen \in 0..Len(wire) /\ match \in 0..2 /\ hsent \in Nat

\* The histories: the last reset is behind no character.
HistoryType ==
    /\ resets \in Nat /\ torn \in BOOLEAN
    /\ epoch \in Nat \X Nat
    /\ epoch[1] <= Len(written) /\ epoch[2] <= Len(wire)

\* The type of the state.
TypeInv == UartType /\ BoardType /\ HostType /\ HistoryType

\* The board before it may write.
Starting == {"init_flush", "init_off", "init_on"}

\* What run knows at each of its steps: what is written to memory, what is
\* left to write, and when the UART is enabled and drained.
LoaderInv ==
    /\ pc \in Starting \cup {"banner", "clear", "request"} => got = 0 /\ size = 0
    /\ pc \in Starting \cup {"banner", "clear", "request", "size", "ok"} => image = <<>>
    /\ pc = "size" => got < 4
    /\ pc \in {"init_flush", "init_off", "init_on", "clear", "size", "payload",
               "overwritten", "flush", "kernel"} => out = <<>>
    /\ pc \notin Starting => enabled
    /\ pc \in {"init_off", "init_on", "kernel"} => txFifo = <<>>
    /\ pc = "banner" => out \in Seq(Text \cup {LF})
    /\ pc = "request" => out \in Seq({ETX}) /\ Len(out) <= 3
    /\ hpc = "wait_request" => hsent = 0
    /\ hpc = "size" => hsent < 4
    /\ resets = 0 => epoch = <<0, 0>>

\* What the loader wrote since the last reset, and what arrived of it.
Sent      == SubSeq(written, epoch[1] + 1, Len(written))
Delivered == SubSeq(wire, epoch[2] + 1, Len(wire))

\* What was written and has not arrived is in the transmit FIFO.
StreamInv == Sent = Delivered \o txFifo

\* All that was written and is not lost: on the wire, or on its way to it.
Line == wire \o txFifo

\* Three ETX in a row.
Triple(s, i) == \A j \in i..i+2 : s[j] = ETX

\* The character t places before the end of the line is not ETX.
Plain(t) == Len(Line) > t /\ Line[Len(Line) - t] # ETX

\* The three ETX are written.
AllAsked == pc \in {"request", "size"} /\ out = <<>>

\* What the host has matched of the request is on the wire.
Matched == match <= seen /\ \A k \in 0..match-1 : wire[seen - k] = ETX

\* Three ETX in a row are the request, at the end of what was written.
OneRequest ==
    \A i \in 1..Len(Line)-2 : Triple(Line, i) => i = Len(Line) - 2 /\ AllAsked

\* The request follows a character that is not ETX.
Led ==
    /\ pc = "banner" => out = Banner \/ Plain(0)
    /\ pc = "clear" => Plain(0)
    /\ pc = "request" => Plain(3 - Len(out))

\* Until the host has seen the request.
Before ==
    /\ pc \in Starting \cup {"banner", "clear", "request", "size"}
    /\ pc = "size" => got = 0 /\ size = 0
    /\ pc \in {"request", "size"} => rxFifo = <<>>
    /\ Matched /\ OneRequest /\ Led

\* The number the first g of the four bytes of n make, least significant first.
Partial(n, g) == CASE g = 0 -> 0
    [] g = 1 -> Digit(n, 0)
    [] g = 2 -> Digit(n, 0) + Digit(n, 1) * Weight(1)
    [] g = 3 -> Digit(n, 0) + Digit(n, 1) * Weight(1) + Digit(n, 2) * Weight(2)
    [] g = 4 -> n

\* The size is in the variable as far as it is read, and behind that in the FIFO.
SizeOnLine ==
    /\ size = Partial(Len(file), got)
    /\ \A i \in 1..Len(rxFifo) : got + i - 1 < 4 /\ rxFifo[i] = Digit(Len(file), got + i - 1)

\* The host has the whole request and nothing more to read.
Asked ==
    /\ AllAsked /\ txFifo = <<>> /\ seen = Len(wire) /\ match = 0
    /\ SizeOnLine

\* The board has read the size; what the host has not read begins with the
\* rest of "OK".
Rest == Line \o out

\* What the host reads next is the rest of "OK".
OkAhead ==
    /\ \/ match = 0 /\ Rest[seen + 1] = O /\ Rest[seen + 2] = K
       \/ match = 1 /\ Rest[seen + 1] = K
    /\ Len(Rest) >= seen + 2 - match

\* The board knows the size and has not taken a byte of the file.
OkComing ==
    /\ pc \in {"ok", "payload", "loaded", "flush", "kernel"}
    /\ got = 4 /\ size = Len(file) /\ rxFifo = <<>> /\ image = <<>>
    /\ pc \in {"loaded", "flush", "kernel"} => size = 0
    /\ OkAhead
    /\ pc = "ok" => Len(Rest) = seen + 2 - match
    /\ pc # "ok" => Len(Line) >= seen + 2 - match

\* The host waits for "OK": the size is on its way, or the answer is.
Answered ==
    /\ hsent = 0
    /\ (Asked /\ got + Len(rxFifo) = 4) \/ OkComing

\* The file: what the host sent is in memory or in the receive FIFO.
Sending ==
    /\ pc \in {"ok", "payload", "overwritten", "loaded", "flush", "kernel"}
    /\ got = 4 /\ size = Len(file)
    /\ hsent <= Len(file)
    /\ pc # "overwritten" => image \o rxFifo = SubSeq(file, 1, hsent)
    /\ pc \in {"loaded", "flush", "kernel"} => Len(image) = size

\* The board and the host are in step, phase by phase of the host, unless the
\* board was reset under the upload.
Phases == ~torn =>
    /\ hpc # "failed"
    /\ hpc = "wait_request" => Before
    /\ hpc = "size" => Asked /\ got + Len(rxFifo) = hsent
    /\ hpc = "wait_ok" => Answered
    /\ hpc \in {"file", "terminal"} => Sending
    /\ hpc = "terminal" => hsent = Len(file)

\* The constants: bytes are numbers, the texts and files are sequences.
LEMMA ConstantTypes ==
    /\ Byte \subseteq Nat
    /\ \A i \in 0..3 : Weight(i) \in Nat
    /\ \A n \in Nat, i \in 0..3 : Digit(n, i) \in Byte
    /\ Banner \in Seq(Char) /\ Loaded \in Seq(Char)
    /\ <<ETX, ETX, ETX>> \in Seq(Char) /\ <<O, K>> \in Seq(Char)
    /\ {CR, LF, ETX, O, K} \subseteq Char
    /\ \A f \in Files : f \in Seq(Byte) /\ Len(f) \in Nat
    /\ \A r \in Residues : r \in Seq(Char)
<1>1. Text \cup {LF} \subseteq Char /\ {CR, LF, ETX, O, K} \subseteq Char /\ Text \subseteq Char
  BY DEF Char
<1>2. Byte \subseteq Nat /\ \A i \in 0..3 : Weight(i) \in Nat /\ Weight(i) > 0
  BY ChainloaderAssumption DEF Byte, Weight
<1>3. ASSUME NEW n \in Nat, NEW i \in 0..3 PROVE Digit(n, i) \in Byte
  <2>1. PICK w \in Nat \ {0} : w = Weight(i)
    BY <1>2
  <2>2. n \div w \in Nat
    OBVIOUS
  <2>3. (n \div w) % Base \in 0..Base-1
    BY <2>2, ChainloaderAssumption
  <2> QED
    BY <2>1, <2>3 DEF Digit, Byte
<1>4. Banner \in Seq(Char) /\ Loaded \in Seq(Char)
  BY <1>1, ChainloaderAssumption
<1>5. <<ETX, ETX, ETX>> \in Seq(Char) /\ <<O, K>> \in Seq(Char)
  BY <1>1
<1>6. \A r \in Residues : r \in Seq(Char)
  BY <1>1, ChainloaderAssumption
<1>7. \A f \in Files : f \in Seq(Byte) /\ Len(f) \in Nat
  BY ChainloaderAssumption
<1> QED
  BY <1>1, <1>2, <1>3, <1>4, <1>5, <1>6, <1>7

\* What a step does to the UART: nothing, a write, a read, switching it, the
\* transmission or arrival of a character, or the reset.
LEMMA UartSteps ==
    ASSUME TypeInv, LoaderInv, [Next]_vars
    PROVE  \/ UNCHANGED uart /\ UNCHANGED epoch
           \/ /\ WriteByte /\ pc \notin Starting /\ ~TXFF
              /\ (\E c \in Char : WriteDR(c)) /\ UNCHANGED epoch
           \/ ~RXFE /\ ReadDR /\ UNCHANGED epoch
           \/ pc = "init_off" /\ TurnOff /\ UNCHANGED epoch
           \/ TurnOn  /\ UNCHANGED epoch
           \/ Transmit /\ UNCHANGED epoch
           \/ (\E b \in Byte : Receive(b))  /\ UNCHANGED epoch
           \/ Reset
<1>1. CASE InitFlush /\ UNCHANGED <<host, env>>
  BY <1>1 DEF InitFlush, env
<1>2. CASE InitOff /\ UNCHANGED <<host, env>>
  BY <1>2 DEF InitOff, vars, loader, host, env
<1>3. CASE InitOn /\ UNCHANGED <<host, env>>
  BY <1>3 DEF InitOn, vars, loader, host, env
<1>4. CASE WriteByte /\ UNCHANGED <<host, env>>
  <2>1. out # <<>> /\ ~TXFF /\ \E c \in {CR, Head(out)} : WriteDR(c)
    BY <1>4 DEF WriteByte
  <2>2. Head(out) \in Char /\ pc \notin Starting
    BY <2>1 DEF TypeInv, BoardType, LoaderInv, Starting
  <2> QED
    BY <1>4, <2>1, <2>2, ConstantTypes DEF env
<1>5. CASE BannerDone /\ UNCHANGED <<host, env>>
  BY <1>5 DEF BannerDone, vars, loader, host, env
<1>6. CASE ClearRx /\ UNCHANGED <<host, env>>
  BY <1>6 DEF ClearRx, env
<1>7. CASE RequestDone /\ UNCHANGED <<host, env>>
  BY <1>7 DEF RequestDone, vars, loader, host, env
<1>8. CASE ReadSize /\ UNCHANGED <<host, env>>
  BY <1>8 DEF ReadSize, vars, loader, host, env
<1>9. CASE OkDone /\ UNCHANGED <<host, env>>
  BY <1>9 DEF OkDone, vars, loader, host, env
<1>10. CASE ReadPayload /\ UNCHANGED <<host, env>>
  BY <1>10 DEF ReadPayload, vars, loader, host, env
<1>11. CASE PayloadDone /\ UNCHANGED <<host, env>>
  BY <1>11 DEF PayloadDone, vars, loader, host, env
<1>12. CASE LoadedDone /\ UNCHANGED <<host, env>>
  BY <1>12 DEF LoadedDone, vars, loader, host, env
<1>13. CASE EnterKernel /\ UNCHANGED <<host, env>>
  BY <1>13 DEF EnterKernel, vars, loader, host, env
<1>14. CASE TransmitByte
  BY <1>14 DEF TransmitByte, vars, loader, host, env
<1>15. CASE HostWaitRequest /\ UNCHANGED <<loader, env>>
  BY <1>15 DEF HostWaitRequest, env
<1>16. CASE HostSendSize /\ UNCHANGED <<loader, env>>
  <2>1. hsent \in 0..3 /\ Len(file) \in Nat
    <3>1. hsent \in Nat /\ hsent < 4 /\ file \in Files
      BY <1>16 DEF HostSendSize, TypeInv, HostType, LoaderInv
    <3>2. Len(file) \in Nat
      BY <3>1, ConstantTypes
    <3> QED
      BY <3>1, <3>2
  <2>2. Digit(Len(file), hsent) \in Byte
    BY <2>1, ConstantTypes
  <2> QED
    BY <1>16, <2>2 DEF HostSendSize, env
<1>17. CASE HostWaitOk /\ UNCHANGED <<loader, env>>
  BY <1>17 DEF HostWaitOk, vars, loader, host, env
<1>18. CASE HostSendFile /\ UNCHANGED <<loader, env>>
  <2>1. file \in Seq(Byte) /\ hsent + 1 \in 1..Len(file)
    BY <1>18, ConstantTypes DEF HostSendFile, TypeInv, HostType
  <2>2. file[hsent + 1] \in Byte
    BY <2>1
  <2> QED
    BY <1>18, <2>2 DEF HostSendFile, env
<1>19. CASE HostDone /\ UNCHANGED <<loader, env>>
  BY <1>19 DEF HostDone, vars, loader, host, env
<1>20. CASE Noise
  BY <1>20 DEF Noise, vars, loader, host, env
<1>21. CASE Reset
  BY <1>21 DEF Reset, vars, loader, host, env
<1>22. CASE UNCHANGED vars
  BY <1>22 DEF vars, vars, loader, host, env
<1> QED
  BY <1>1, <1>2, <1>3, <1>4, <1>5, <1>6, <1>7, <1>8, <1>9, <1>10, <1>11, <1>12, <1>13, <1>14, <1>15, <1>16, <1>17, <1>18, <1>19, <1>20, <1>21, <1>22 DEF Next, Board, Host

\* The UART keeps its type.
LEMMA UartTypeStep ==
    ASSUME TypeInv, LoaderInv, [Next]_vars
    PROVE  UartType'
<1>0. UartType
  BY DEF TypeInv
<1>1. CASE UNCHANGED uart
  BY <1>0, <1>1 DEF uart, UartType
<1>2. CASE \E c \in Char : WriteDR(c)
  <2>1. PICK c \in Char : WriteDR(c)
    BY <1>2
  <2>2. Append(txFifo, c) \in Seq(Char) /\ Append(written, c) \in Seq(Char)
    BY <1>0, AppendProperties DEF UartType
  <2>3. txFifo' \in Seq(Char) /\ written' \in Seq(Char)
    BY <1>0, <2>1, <2>2 DEF WriteDR, UartType
  <2> QED
    BY <1>0, <2>1, <2>3 DEF WriteDR, UartType
<1>3. CASE ~RXFE /\ ReadDR
  <2>1. Tail(rxFifo) \in Seq(Byte) /\ Len(Tail(rxFifo)) <= Len(rxFifo) /\ Len(rxFifo) \in Nat
    BY <1>0, <1>3, HeadTailProperties DEF RXFE, UartType
  <2>2. Len(Tail(rxFifo)) \in Nat
    BY <2>1
  <2> QED
    BY <1>0, <1>3, <2>1, <2>2, Pl011Assumption DEF ReadDR, UartType
<1>4. CASE TurnOff
  <2>1. wire' \in Seq(Char)
    <3>1. txFifo # <<>> => Append(wire, Head(txFifo)) \in Seq(Char)
      BY <1>0, HeadTailProperties, AppendProperties DEF UartType
    <3>2. wire' = wire \/ (txFifo # <<>> /\ wire' = Append(wire, Head(txFifo)))
      BY <1>4 DEF TurnOff, BUSY
    <3> QED
      BY <1>0, <3>1, <3>2 DEF UartType
  <2>2. /\ enabled' \in BOOLEAN /\ txFifo' = <<>> /\ rxFifo' = rxFifo
        /\ written' = written
    BY <1>4 DEF TurnOff
  <2> QED
    BY <1>0, <2>1, <2>2 DEF UartType
<1>5. CASE TurnOn
  BY <1>0, <1>5 DEF TurnOn, UartType
<1>6. CASE Transmit
  BY <1>0, <1>6, HeadTailProperties, AppendProperties DEF Transmit, BUSY, UartType
<1>7. CASE \E b \in Byte : Receive(b)
  BY <1>0, <1>7, Pl011Assumption DEF Receive, Accepts, UartType
<1>8. CASE Reset
  <2>1. /\ enabled' \in BOOLEAN /\ txFifo' = <<>> /\ rxFifo' = <<>>
        /\ written' = written /\ wire' = wire
    BY <1>8 DEF Reset
  <2>2. Len(rxFifo') <= RxDepth
    BY <2>1, Pl011Assumption
  <2> QED
    BY <1>0, <2>1, <2>2 DEF UartType
<1> QED
  BY <1>1, <1>2, <1>3, <1>4, <1>5, <1>6, <1>7, <1>8, UartSteps

\* The histories only grow.
LEMMA HistoriesGrow ==
    ASSUME TypeInv, LoaderInv, [Next]_vars
    PROVE  Len(wire) \in Nat /\ Len(wire') \in Nat /\ Len(wire') >= Len(wire)
           /\ Len(written) \in Nat /\ Len(written') \in Nat /\ Len(written') >= Len(written)
<1>0. UartType
  BY DEF TypeInv
<1>1. CASE UNCHANGED uart
  BY <1>0, <1>1 DEF uart, UartType
<1>2. CASE \E c \in Char : WriteDR(c)
  BY <1>0, <1>2, AppendProperties DEF WriteDR, UartType
<1>3. CASE ~RXFE /\ ReadDR
  BY <1>0, <1>3 DEF ReadDR, UartType
<1>4. CASE TurnOff
  BY <1>0, <1>4, HeadTailProperties, AppendProperties DEF TurnOff, BUSY, UartType
<1>5. CASE TurnOn
  BY <1>0, <1>5 DEF TurnOn, UartType
<1>6. CASE Transmit
  BY <1>0, <1>6, HeadTailProperties, AppendProperties DEF Transmit, BUSY, UartType
<1>7. CASE \E b \in Byte : Receive(b)
  BY <1>0, <1>7 DEF Receive, UartType
<1>8. CASE Reset
  BY <1>0, <1>8 DEF Reset, UartType
<1> QED
  BY <1>1, <1>2, <1>3, <1>4, <1>5, <1>6, <1>7, <1>8, UartSteps

\* The board keeps its type.
LEMMA BoardTypeStep ==
    ASSUME TypeInv, LoaderInv, [Next]_vars
    PROVE  BoardType'
<1>1. CASE InitFlush /\ UNCHANGED <<host, env>>
  BY <1>1 DEF InitFlush, TypeInv, BoardType
<1>2. CASE InitOff /\ UNCHANGED <<host, env>>
  BY <1>2 DEF TypeInv, BoardType, InitOff, loader
<1>3. CASE InitOn /\ UNCHANGED <<host, env>>
  BY <1>3, ConstantTypes DEF TypeInv, BoardType, InitOn, loader
<1>4. CASE WriteByte /\ UNCHANGED <<host, env>>
  <2>1. out # <<>> /\ out' \in {out, Tail(out)}
    BY <1>4 DEF WriteByte
  <2>2. out' \in Seq(Char)
    BY <2>1, HeadTailProperties DEF TypeInv, BoardType
  <2> QED
    BY <1>4, <2>2 DEF WriteByte, TypeInv, BoardType
<1>5. CASE BannerDone /\ UNCHANGED <<host, env>>
  BY <1>5 DEF TypeInv, BoardType, BannerDone, loader
<1>6. CASE ClearRx /\ UNCHANGED <<host, env>>
  BY <1>6, ConstantTypes DEF TypeInv, BoardType, ClearRx, loader
<1>7. CASE RequestDone /\ UNCHANGED <<host, env>>
  BY <1>7 DEF TypeInv, BoardType, RequestDone, loader
<1>8. CASE ReadSize /\ UNCHANGED <<host, env>>
  <2>1. Head(rxFifo) \in Nat /\ got \in 0..3 /\ Weight(got) \in Nat
    <3>1. pc = "size" /\ rxFifo # <<>> /\ rxFifo \in Seq(Byte) /\ got \in 0..4 /\ got < 4
      BY <1>8 DEF ReadSize, RXFE, TypeInv, UartType, BoardType, LoaderInv
    <3>2. Head(rxFifo) \in Byte
      BY <3>1, HeadTailProperties
    <3>3. Head(rxFifo) \in Nat
      BY <3>2, ConstantTypes
    <3>4. got \in 0..3
      BY <3>1
    <3>5. Weight(got) \in Nat
      BY <3>4, ConstantTypes
    <3> QED
      BY <3>3, <3>4, <3>5
  <2>2. Head(rxFifo) * Weight(got) \in Nat
    BY <2>1
  <2>3. size' \in Nat /\ got' \in 0..4
    <3>1. size' = size + Head(rxFifo) * Weight(got) /\ got' = got + 1 /\ size \in Nat
      BY <1>8 DEF ReadSize, TypeInv, BoardType
    <3>2. size + Head(rxFifo) * Weight(got) \in Nat
      BY <3>1, <2>2
    <3>3. got + 1 \in 0..4
      BY <2>1
    <3> QED
      BY <3>1, <3>2, <3>3
  <2>4. out' \in Seq(Char) /\ pc' \in {pc, "ok"}
    BY <1>8, ConstantTypes DEF ReadSize, TypeInv, BoardType
  <2> QED
    BY <1>8, <2>3, <2>4 DEF ReadSize, TypeInv, BoardType
<1>9. CASE OkDone /\ UNCHANGED <<host, env>>
  BY <1>9 DEF TypeInv, BoardType, OkDone, loader
<1>10. CASE ReadPayload /\ UNCHANGED <<host, env>>
  <2>1. Head(rxFifo) \in Byte
    BY <1>10 DEF ReadPayload, RXFE, TypeInv, UartType
  <2>2. image' \in Seq(Byte)
    <3>1. image \in Seq(Byte) /\ image' \in {image, Append(image, Head(rxFifo))}
      BY <1>10 DEF ReadPayload, TypeInv, BoardType
    <3> QED
      BY <2>1, <3>1, AppendProperties
  <2> QED
    BY <1>10, <2>2 DEF ReadPayload, TypeInv, BoardType
<1>11. CASE PayloadDone /\ UNCHANGED <<host, env>>
  BY <1>11, ConstantTypes DEF TypeInv, BoardType, PayloadDone, loader
<1>12. CASE LoadedDone /\ UNCHANGED <<host, env>>
  BY <1>12 DEF TypeInv, BoardType, LoadedDone, loader
<1>13. CASE EnterKernel /\ UNCHANGED <<host, env>>
  BY <1>13 DEF TypeInv, BoardType, EnterKernel, loader
<1>14. CASE TransmitByte
  BY <1>14 DEF TypeInv, BoardType, TransmitByte, loader
<1>15. CASE HostWaitRequest /\ UNCHANGED <<loader, env>>
  BY <1>15 DEF TypeInv, BoardType, HostWaitRequest, loader
<1>16. CASE HostSendSize /\ UNCHANGED <<loader, env>>
  BY <1>16 DEF TypeInv, BoardType, HostSendSize, loader
<1>17. CASE HostWaitOk /\ UNCHANGED <<loader, env>>
  BY <1>17 DEF TypeInv, BoardType, HostWaitOk, loader
<1>18. CASE HostSendFile /\ UNCHANGED <<loader, env>>
  BY <1>18 DEF TypeInv, BoardType, HostSendFile, loader
<1>19. CASE HostDone /\ UNCHANGED <<loader, env>>
  BY <1>19 DEF TypeInv, BoardType, HostDone, loader
<1>20. CASE Noise
  BY <1>20 DEF TypeInv, BoardType, Noise, loader
<1>21. CASE Reset
  BY <1>21 DEF TypeInv, BoardType, Reset, loader
<1>22. CASE UNCHANGED vars
  BY <1>22 DEF TypeInv, BoardType, vars, loader
<1> QED
  BY <1>1, <1>2, <1>3, <1>4, <1>5, <1>6, <1>7, <1>8, <1>9, <1>10, <1>11, <1>12, <1>13, <1>14, <1>15, <1>16, <1>17, <1>18, <1>19, <1>20, <1>21, <1>22 DEF Next, Board, Host

\* The host keeps its type.
LEMMA HostTypeStep ==
    ASSUME TypeInv, LoaderInv, [Next]_vars
    PROVE  HostType'
<1>1. CASE InitFlush /\ UNCHANGED <<host, env>>
  BY <1>1, HistoriesGrow DEF TypeInv, HostType, InitFlush, host
<1>2. CASE InitOff /\ UNCHANGED <<host, env>>
  BY <1>2, HistoriesGrow DEF TypeInv, HostType, InitOff, host
<1>3. CASE InitOn /\ UNCHANGED <<host, env>>
  BY <1>3, HistoriesGrow DEF TypeInv, HostType, InitOn, host
<1>4. CASE WriteByte /\ UNCHANGED <<host, env>>
  BY <1>4, HistoriesGrow DEF TypeInv, HostType, WriteByte, host
<1>5. CASE BannerDone /\ UNCHANGED <<host, env>>
  BY <1>5, HistoriesGrow DEF TypeInv, HostType, BannerDone, host
<1>6. CASE ClearRx /\ UNCHANGED <<host, env>>
  BY <1>6, HistoriesGrow DEF TypeInv, HostType, ClearRx, host
<1>7. CASE RequestDone /\ UNCHANGED <<host, env>>
  BY <1>7, HistoriesGrow DEF TypeInv, HostType, RequestDone, host
<1>8. CASE ReadSize /\ UNCHANGED <<host, env>>
  BY <1>8, HistoriesGrow DEF TypeInv, HostType, ReadSize, host
<1>9. CASE OkDone /\ UNCHANGED <<host, env>>
  BY <1>9, HistoriesGrow DEF TypeInv, HostType, OkDone, host
<1>10. CASE ReadPayload /\ UNCHANGED <<host, env>>
  BY <1>10, HistoriesGrow DEF TypeInv, HostType, ReadPayload, host
<1>11. CASE PayloadDone /\ UNCHANGED <<host, env>>
  BY <1>11, HistoriesGrow DEF TypeInv, HostType, PayloadDone, host
<1>12. CASE LoadedDone /\ UNCHANGED <<host, env>>
  BY <1>12, HistoriesGrow DEF TypeInv, HostType, LoadedDone, host
<1>13. CASE EnterKernel /\ UNCHANGED <<host, env>>
  BY <1>13, HistoriesGrow DEF TypeInv, HostType, EnterKernel, host
<1>14. CASE TransmitByte
  BY <1>14, HistoriesGrow DEF TypeInv, HostType, TransmitByte, host
<1>15. CASE HostWaitRequest /\ UNCHANGED <<loader, env>>
  BY <1>15, HistoriesGrow DEF TypeInv, HostType, HostWaitRequest, host
<1>16. CASE HostSendSize /\ UNCHANGED <<loader, env>>
  BY <1>16, HistoriesGrow DEF TypeInv, HostType, HostSendSize, host
<1>17. CASE HostWaitOk /\ UNCHANGED <<loader, env>>
  BY <1>17, HistoriesGrow DEF TypeInv, HostType, HostWaitOk, host
<1>18. CASE HostSendFile /\ UNCHANGED <<loader, env>>
  BY <1>18, HistoriesGrow DEF TypeInv, HostType, HostSendFile, host
<1>19. CASE HostDone /\ UNCHANGED <<loader, env>>
  BY <1>19, HistoriesGrow DEF TypeInv, HostType, HostDone, host
<1>20. CASE Noise
  BY <1>20, HistoriesGrow DEF TypeInv, HostType, Noise, host
<1>21. CASE Reset
  BY <1>21, HistoriesGrow DEF TypeInv, HostType, Reset, host
<1>22. CASE UNCHANGED vars
  BY <1>22, HistoriesGrow DEF TypeInv, HostType, vars, host
<1> QED
  BY <1>1, <1>2, <1>3, <1>4, <1>5, <1>6, <1>7, <1>8, <1>9, <1>10, <1>11, <1>12, <1>13, <1>14, <1>15, <1>16, <1>17, <1>18, <1>19, <1>20, <1>21, <1>22 DEF Next, Board, Host

\* The histories keep their type.
LEMMA HistoryTypeStep ==
    ASSUME TypeInv, LoaderInv, [Next]_vars
    PROVE  HistoryType'
<1>1. CASE InitFlush /\ UNCHANGED <<host, env>>
  BY <1>1, HistoriesGrow DEF TypeInv, HistoryType, InitFlush, env
<1>2. CASE InitOff /\ UNCHANGED <<host, env>>
  BY <1>2, HistoriesGrow DEF TypeInv, HistoryType, InitOff, env
<1>3. CASE InitOn /\ UNCHANGED <<host, env>>
  BY <1>3, HistoriesGrow DEF TypeInv, HistoryType, InitOn, env
<1>4. CASE WriteByte /\ UNCHANGED <<host, env>>
  BY <1>4, HistoriesGrow DEF TypeInv, HistoryType, WriteByte, env
<1>5. CASE BannerDone /\ UNCHANGED <<host, env>>
  BY <1>5, HistoriesGrow DEF TypeInv, HistoryType, BannerDone, env
<1>6. CASE ClearRx /\ UNCHANGED <<host, env>>
  BY <1>6, HistoriesGrow DEF TypeInv, HistoryType, ClearRx, env
<1>7. CASE RequestDone /\ UNCHANGED <<host, env>>
  BY <1>7, HistoriesGrow DEF TypeInv, HistoryType, RequestDone, env
<1>8. CASE ReadSize /\ UNCHANGED <<host, env>>
  BY <1>8, HistoriesGrow DEF TypeInv, HistoryType, ReadSize, env
<1>9. CASE OkDone /\ UNCHANGED <<host, env>>
  BY <1>9, HistoriesGrow DEF TypeInv, HistoryType, OkDone, env
<1>10. CASE ReadPayload /\ UNCHANGED <<host, env>>
  BY <1>10, HistoriesGrow DEF TypeInv, HistoryType, ReadPayload, env
<1>11. CASE PayloadDone /\ UNCHANGED <<host, env>>
  BY <1>11, HistoriesGrow DEF TypeInv, HistoryType, PayloadDone, env
<1>12. CASE LoadedDone /\ UNCHANGED <<host, env>>
  BY <1>12, HistoriesGrow DEF TypeInv, HistoryType, LoadedDone, env
<1>13. CASE EnterKernel /\ UNCHANGED <<host, env>>
  BY <1>13, HistoriesGrow DEF TypeInv, HistoryType, EnterKernel, env
<1>14. CASE TransmitByte
  BY <1>14, HistoriesGrow DEF TypeInv, HistoryType, TransmitByte, env
<1>15. CASE HostWaitRequest /\ UNCHANGED <<loader, env>>
  BY <1>15, HistoriesGrow DEF TypeInv, HistoryType, HostWaitRequest, env
<1>16. CASE HostSendSize /\ UNCHANGED <<loader, env>>
  BY <1>16, HistoriesGrow DEF TypeInv, HistoryType, HostSendSize, env
<1>17. CASE HostWaitOk /\ UNCHANGED <<loader, env>>
  BY <1>17, HistoriesGrow DEF TypeInv, HistoryType, HostWaitOk, env
<1>18. CASE HostSendFile /\ UNCHANGED <<loader, env>>
  BY <1>18, HistoriesGrow DEF TypeInv, HistoryType, HostSendFile, env
<1>19. CASE HostDone /\ UNCHANGED <<loader, env>>
  BY <1>19, HistoriesGrow DEF TypeInv, HistoryType, HostDone, env
<1>20. CASE Noise
  BY <1>20, HistoriesGrow DEF TypeInv, HistoryType, Noise, env
<1>21. CASE Reset
  BY <1>21, HistoriesGrow DEF TypeInv, HistoryType, Reset, env
<1>22. CASE UNCHANGED vars
  BY <1>22, HistoriesGrow DEF TypeInv, HistoryType, vars, env
<1> QED
  BY <1>1, <1>2, <1>3, <1>4, <1>5, <1>6, <1>7, <1>8, <1>9, <1>10, <1>11, <1>12, <1>13, <1>14, <1>15, <1>16, <1>17, <1>18, <1>19, <1>20, <1>21, <1>22 DEF Next, Board, Host

\* Every step of run finds what it needs and leaves what the next one needs.
LEMMA LoaderStep ==
    ASSUME TypeInv, LoaderInv, [Next]_vars
    PROVE  LoaderInv'
<1>0. /\ out \in Seq(Char) /\ got \in 0..4 /\ hsent \in Nat /\ resets \in Nat
      /\ Banner \in Seq(Text \cup {LF})
  BY ChainloaderAssumption DEF TypeInv, BoardType, HostType, HistoryType
<1>1. CASE InitFlush /\ UNCHANGED <<host, env>>
  BY <1>1, <1>0 DEF LoaderInv, Starting, InitFlush, uart, loader, host, env, BUSY
<1>2. CASE InitOff /\ UNCHANGED <<host, env>>
  BY <1>2, <1>0 DEF LoaderInv, Starting, InitOff, uart, loader, host, env, TurnOff, BUSY
<1>3. CASE InitOn /\ UNCHANGED <<host, env>>
  BY <1>3, <1>0 DEF LoaderInv, Starting, InitOn, uart, loader, host, env, TurnOn
<1>4. CASE WriteByte /\ UNCHANGED <<host, env>>
  <2>1. /\ pc' = pc /\ enabled' = enabled /\ got' = got /\ size' = size /\ image' = image
        /\ hpc' = hpc /\ hsent' = hsent /\ resets' = resets /\ epoch' = epoch
        /\ out # <<>> /\ out' \in {out, Tail(out)}
    BY <1>4 DEF WriteByte, WriteDR, host, env
  <2>2. ASSUME NEW S, out \in Seq(S)
        PROVE  out' \in Seq(S) /\ Len(out') <= Len(out) /\ Len(out) \in Nat /\ Len(out') \in Nat
    BY <2>1, <2>2, HeadTailProperties
  <2>3. pc = "banner" => out' \in Seq(Text \cup {LF})
    BY <2>2 DEF LoaderInv
  <2>4. pc = "request" => out' \in Seq({ETX}) /\ Len(out') <= 3
    BY <2>2 DEF LoaderInv
  <2>5. pc \notin {"init_off", "init_on", "kernel"}
    BY <2>1 DEF LoaderInv
  <2> QED
    BY <2>1, <2>3, <2>4, <2>5 DEF LoaderInv
<1>5. CASE BannerDone /\ UNCHANGED <<host, env>>
  BY <1>5, <1>0 DEF LoaderInv, Starting, BannerDone, uart, loader, host, env
<1>6. CASE ClearRx /\ UNCHANGED <<host, env>>
  <2>1. <<ETX, ETX, ETX>> \in Seq({ETX}) /\ Len(<<ETX, ETX, ETX>>) = 3
    OBVIOUS
  <2>2. /\ pc = "clear" /\ image' = image /\ (enabled => enabled') /\ got' = got
        /\ size' = size /\ hpc' = hpc /\ hsent' = hsent /\ resets' = resets
        /\ epoch' = epoch
    BY <1>6 DEF ClearRx, ReadDR, host, env, uart
  <2>3. \/ pc' = "clear" /\ out' = out
        \/ pc' = "request" /\ out' = <<ETX, ETX, ETX>>
    BY <1>6, <2>2 DEF ClearRx
  <2>4. ASSUME pc' = "request" PROVE out' \in Seq({ETX}) /\ Len(out') <= 3
    <3>1. out' = <<ETX, ETX, ETX>>
      BY <2>3, <2>4
    <3>2. PICK r \in Seq({ETX}) : r = <<ETX, ETX, ETX>> /\ Len(r) = 3
      BY <2>1, Zenon
    <3> QED
      BY <3>1, <3>2
  <2>5. pc' = "clear" => out' = <<>>
    BY <2>2, <2>3 DEF LoaderInv
  <2> QED
    BY <2>2, <2>3, <2>4, <2>5 DEF LoaderInv, Starting
<1>7. CASE RequestDone /\ UNCHANGED <<host, env>>
  BY <1>7, <1>0 DEF LoaderInv, Starting, RequestDone, uart, loader, host, env
<1>8. CASE ReadSize /\ UNCHANGED <<host, env>>
  <2>1. /\ pc = "size" /\ pc' \in {"size", "ok"} /\ image' = image /\ enabled' = enabled
        /\ hpc' = hpc /\ hsent' = hsent /\ resets' = resets /\ epoch' = epoch
    BY <1>8 DEF ReadSize, ReadDR, host, env
  <2>2. pc' = "size" => got' < 4 /\ out' = out
    BY <1>8, <1>0 DEF ReadSize, LoaderInv
  <2> QED
    BY <2>1, <2>2 DEF LoaderInv, Starting
<1>9. CASE OkDone /\ UNCHANGED <<host, env>>
  BY <1>9, <1>0 DEF LoaderInv, Starting, OkDone, uart, loader, host, env
<1>10. CASE ReadPayload /\ UNCHANGED <<host, env>>
  BY <1>10, <1>0 DEF LoaderInv, Starting, ReadPayload, uart, loader, host, env, RXFE, ReadDR
<1>11. CASE PayloadDone /\ UNCHANGED <<host, env>>
  BY <1>11, <1>0 DEF LoaderInv, Starting, PayloadDone, uart, loader, host, env
<1>12. CASE LoadedDone /\ UNCHANGED <<host, env>>
  BY <1>12, <1>0 DEF LoaderInv, Starting, LoadedDone, uart, loader, host, env
<1>13. CASE EnterKernel /\ UNCHANGED <<host, env>>
  BY <1>13, <1>0 DEF LoaderInv, Starting, EnterKernel, uart, loader, host, env, BUSY
<1>14. CASE TransmitByte
  BY <1>14, <1>0 DEF LoaderInv, Starting, TransmitByte, uart, loader, host, env, Transmit, BUSY
<1>15. CASE HostWaitRequest /\ UNCHANGED <<loader, env>>
  BY <1>15, <1>0 DEF LoaderInv, Starting, HostWaitRequest, uart, loader, host, env
<1>16. CASE HostSendSize /\ UNCHANGED <<loader, env>>
  BY <1>16, <1>0 DEF LoaderInv, Starting, HostSendSize, uart, loader, host, env, Receive, Accepts
<1>17. CASE HostWaitOk /\ UNCHANGED <<loader, env>>
  BY <1>17, <1>0 DEF LoaderInv, Starting, HostWaitOk, uart, loader, host, env
<1>18. CASE HostSendFile /\ UNCHANGED <<loader, env>>
  BY <1>18, <1>0 DEF LoaderInv, Starting, HostSendFile, uart, loader, host, env, Receive, Accepts
<1>19. CASE HostDone /\ UNCHANGED <<loader, env>>
  BY <1>19, <1>0 DEF LoaderInv, Starting, HostDone, uart, loader, host, env
<1>20. CASE Noise
  BY <1>20, <1>0 DEF LoaderInv, Starting, Noise, uart, loader, host, env, Receive, Accepts
<1>21. CASE Reset
  BY <1>21, <1>0 DEF LoaderInv, Starting, Reset, uart, loader, host, env
<1>22. CASE UNCHANGED vars
  BY <1>22, <1>0 DEF LoaderInv, Starting, vars, uart, loader, host, env
<1> QED
  BY <1>1, <1>2, <1>3, <1>4, <1>5, <1>6, <1>7, <1>8, <1>9, <1>10, <1>11, <1>12, <1>13, <1>14, <1>15, <1>16, <1>17, <1>18, <1>19, <1>20, <1>21, <1>22 DEF Next, Board, Host

-----------------------------------------------------------------------------
(* The output path is a reliable stream.                                   *)

\* A character appended to a sequence is appended to each of its suffixes.
LEMMA SuffixAppend ==
    ASSUME NEW S, NEW s \in Seq(S), NEW c \in S, NEW k \in Nat, k <= Len(s)
    PROVE  SubSeq(Append(s, c), k + 1, Len(Append(s, c)))
             = Append(SubSeq(s, k + 1, Len(s)), c)
<1> DEFINE a == Append(s, c)
           u == SubSeq(s, k + 1, Len(s))
           v == SubSeq(a, k + 1, Len(a))
<1>1. /\ a \in Seq(S) /\ Len(a) = Len(s) + 1 /\ Len(s) \in Nat
      /\ \A i \in 1..Len(s) : a[i] = s[i] /\ a[i] \in S /\ s[i] \in S
      /\ a[Len(s) + 1] = c
  BY AppendProperties
<1>2. /\ u \in Seq(S) /\ Len(u) = Len(s) - k
      /\ \A i \in 1..Len(s) - k : u[i] = s[k + i]
  <2>1. \A i \in k + 1..Len(s) : s[i] \in S
    BY <1>1
  <2> QED
    BY <1>1, <2>1, SubSeqProperties
<1>3. /\ v \in Seq(S) /\ Len(v) = Len(s) + 1 - k
      /\ \A i \in 1..Len(s) + 1 - k : v[i] = a[k + i]
  <2>1. \A i \in k + 1..Len(a) : a[i] \in S
    BY <1>1
  <2> HIDE DEF a
  <2> QED
    BY <1>1, <2>1, SubSeqProperties
<1> HIDE DEF u, v
<1>4. /\ Append(u, c) \in Seq(S) /\ Len(Append(u, c)) = Len(u) + 1
      /\ \A i \in 1..Len(u) : Append(u, c)[i] = u[i]
      /\ Append(u, c)[Len(u) + 1] = c
  BY <1>2, AppendProperties
<1> HIDE DEF a
<1>5. ASSUME NEW i \in 1..Len(v) PROVE v[i] = Append(u, c)[i]
  <2>1. CASE i <= Len(u)
    <3>1. v[i] = a[k + i] /\ u[i] = s[k + i] /\ k + i \in 1..Len(s)
      BY <1>1, <1>2, <1>3, <2>1
    <3> QED
      BY <1>1, <1>2, <1>4, <2>1, <3>1
  <2>2. CASE i = Len(u) + 1
    BY <1>1, <1>2, <1>3, <1>4, <2>2
  <2>3. Len(v) = Len(u) + 1 /\ Len(u) \in Nat
    BY <1>1, <1>2, <1>3
  <2> QED
    BY <2>1, <2>2, <2>3
<1>6. v = Append(u, c)
  <2>1. Len(v) = Len(Append(u, c))
    BY <1>1, <1>2, <1>3, <1>4
  <2> QED
    BY <1>3, <1>4, <1>5, <2>1, SeqEqual
<1> QED
  BY <1>6 DEF a, u, v

\* A suffix of a sequence is a sequence; behind the last element it is empty.
LEMMA SuffixType ==
    ASSUME NEW S, NEW s \in Seq(S), NEW k \in Nat, k <= Len(s)
    PROVE  /\ SubSeq(s, k + 1, Len(s)) \in Seq(S)
           /\ Len(SubSeq(s, k + 1, Len(s))) = Len(s) - k
           /\ k = Len(s) => SubSeq(s, k + 1, Len(s)) = <<>>
           /\ k = 0 => SubSeq(s, k + 1, Len(s)) = s
<1>1. Len(s) \in Nat /\ \A i \in k + 1..Len(s) : s[i] \in S
  OBVIOUS
<1>2. k = 0 => SubSeq(s, k + 1, Len(s)) = s
  BY SubSeqFull
<1> QED
  BY <1>1, <1>2, SubSeqProperties

\* A character moves from the head of t to the end of s, or joins t.
LEMMA Move ==
    ASSUME NEW S, NEW s \in Seq(S), NEW t \in Seq(S), t # <<>>
    PROVE  Append(s, Head(t)) \o Tail(t) = s \o t
<1>1. Head(t) \in S /\ Tail(t) \in Seq(S) /\ Append(s, Head(t)) \in Seq(S)
  BY HeadTailProperties, AppendProperties
<1>2. /\ Append(s, Head(t)) \o Tail(t) \in Seq(S) /\ s \o t \in Seq(S)
  BY <1>1, ConcatProperties
<1>3. t = <<Head(t)>> \o Tail(t) /\ Append(s, Head(t)) = s \o <<Head(t)>>
  OBVIOUS
<1>4. (s \o <<Head(t)>>) \o Tail(t) = s \o (<<Head(t)>> \o Tail(t))
  BY <1>1, ConcatAssociative
<1> QED
  BY <1>3, <1>4

\* A character appended behind t is appended to what s and t make.
LEMMA Join ==
    ASSUME NEW S, NEW s \in Seq(S), NEW t \in Seq(S), NEW c \in S
    PROVE  s \o Append(t, c) = Append(s \o t, c)
<1>1. Append(t, c) = t \o <<c>> /\ Append(s \o t, c) = (s \o t) \o <<c>>
  BY AppendIsConcat, ConcatProperties
<1>2. (s \o t) \o <<c>> = s \o (t \o <<c>>)
  BY ConcatAssociative
<1> QED
  BY <1>1, <1>2

\* The types behind the stream.
LEMMA StreamType ==
    ASSUME TypeInv
    PROVE  /\ Sent \in Seq(Char) /\ Delivered \in Seq(Char) /\ txFifo \in Seq(Char)
           /\ written \in Seq(Char) /\ wire \in Seq(Char)
           /\ epoch[1] \in Nat /\ epoch[1] <= Len(written)
           /\ epoch[2] \in Nat /\ epoch[2] <= Len(wire)
<1>1. /\ txFifo \in Seq(Char) /\ written \in Seq(Char) /\ wire \in Seq(Char)
      /\ epoch[1] \in Nat /\ epoch[1] <= Len(written)
      /\ epoch[2] \in Nat /\ epoch[2] <= Len(wire)
  BY DEF TypeInv, UartType, HistoryType
<1> QED
  BY <1>1, SuffixType DEF Sent, Delivered

\* What a step of the loader, the UART or the environment does to the stream.
LEMMA StreamStep ==
    ASSUME TypeInv, LoaderInv, StreamInv, [Next]_vars
    PROVE  \/ UNCHANGED <<Sent, Delivered, txFifo>>
           \/ /\ \E c \in Char : Sent' = Append(Sent, c) /\ txFifo' = Append(txFifo, c)
              /\ Delivered' = Delivered
           \/ /\ txFifo # <<>> /\ Delivered' = Append(Delivered, Head(txFifo))
              /\ txFifo' = Tail(txFifo) /\ Sent' = Sent
           \/ Sent' = <<>> /\ Delivered' = <<>> /\ txFifo' = <<>>
<1> USE StreamType
<1>1. CASE UNCHANGED uart /\ UNCHANGED epoch
  BY <1>1 DEF uart, Sent, Delivered
<1>2. CASE pc \notin Starting /\ ~TXFF /\ (\E c \in Char : WriteDR(c)) /\ UNCHANGED epoch
  <2>1. PICK c \in Char : WriteDR(c)
    BY <1>2
  <2>2. /\ written' = Append(written, c) /\ txFifo' = Append(txFifo, c)
        /\ wire' = wire /\ epoch' = epoch
    BY <1>2, <2>1 DEF WriteDR, LoaderInv
  <2>3. Sent' = Append(Sent, c)
    BY <2>2, SuffixAppend DEF Sent
  <2>4. Delivered' = Delivered
    BY <2>2 DEF Delivered
  <2> QED
    BY <2>2, <2>3, <2>4
<1>3. CASE ReadDR /\ UNCHANGED epoch
  BY <1>3 DEF ReadDR, Sent, Delivered
<1>4. CASE pc = "init_off" /\ TurnOff /\ UNCHANGED epoch
  <2>1. txFifo = <<>>
    BY <1>4 DEF LoaderInv
  <2>2. txFifo' = txFifo /\ wire' = wire /\ written' = written /\ epoch' = epoch
    BY <1>4, <2>1 DEF TurnOff, BUSY
  <2> QED
    BY <2>2 DEF Sent, Delivered
<1>5. CASE TurnOn /\ UNCHANGED epoch
  BY <1>5 DEF TurnOn, Sent, Delivered
<1>6. CASE Transmit /\ UNCHANGED epoch
  <2>1. /\ txFifo # <<>> /\ wire' = Append(wire, Head(txFifo)) /\ txFifo' = Tail(txFifo)
        /\ written' = written /\ epoch' = epoch /\ Head(txFifo) \in Char
    BY <1>6, HeadTailProperties DEF Transmit, BUSY
  <2>2. Delivered' = Append(Delivered, Head(txFifo))
    BY <2>1, SuffixAppend DEF Delivered
  <2> QED
    BY <2>1, <2>2 DEF Sent
<1>7. CASE (\E b \in Byte : Receive(b)) /\ UNCHANGED epoch
  BY <1>7 DEF Receive, Sent, Delivered
<1>8. CASE Reset
  <2>1. /\ epoch'[1] = Len(written) /\ epoch'[2] = Len(wire)
        /\ written' = written /\ wire' = wire /\ txFifo' = <<>>
    BY <1>8 DEF Reset
  <2>2. Sent' = SubSeq(written, Len(written) + 1, Len(written))
    BY <2>1 DEF Sent
  <2>3. Delivered' = SubSeq(wire, Len(wire) + 1, Len(wire))
    BY <2>1 DEF Delivered
  <2>4. Len(written) \in Nat /\ Len(wire) \in Nat
    OBVIOUS
  <2>5. Sent' = <<>>
    BY <2>2, <2>4, SuffixType
  <2>6. Delivered' = <<>>
    BY <2>3, <2>4, SuffixType
  <2> QED
    BY <2>1, <2>5, <2>6
<1> QED
  BY <1>1, <1>2, <1>3, <1>4, <1>5, <1>6, <1>7, <1>8, UartSteps

\* Nothing is lost between the FIFO and the wire, except to a reset.
LEMMA StreamInvStep ==
    ASSUME TypeInv, LoaderInv, StreamInv, [Next]_vars
    PROVE  StreamInv'
<1>0. Sent \in Seq(Char) /\ Delivered \in Seq(Char) /\ txFifo \in Seq(Char)
  BY StreamType
<1>1. CASE UNCHANGED <<Sent, Delivered, txFifo>>
  BY <1>1 DEF StreamInv
<1>2. CASE /\ \E c \in Char : Sent' = Append(Sent, c) /\ txFifo' = Append(txFifo, c)
           /\ Delivered' = Delivered
  <2>1. PICK c \in Char : Sent' = Append(Sent, c) /\ txFifo' = Append(txFifo, c)
    BY <1>2
  <2>2. Delivered \o Append(txFifo, c) = Append(Delivered \o txFifo, c)
    BY <1>0, Join
  <2> QED
    BY <1>2, <2>1, <2>2 DEF StreamInv
<1>3. CASE /\ txFifo # <<>> /\ Delivered' = Append(Delivered, Head(txFifo))
           /\ txFifo' = Tail(txFifo) /\ Sent' = Sent
  BY <1>0, <1>3, Move DEF StreamInv
<1>4. CASE Sent' = <<>> /\ Delivered' = <<>> /\ txFifo' = <<>>
  BY <1>4 DEF StreamInv
<1> QED
  BY <1>1, <1>2, <1>3, <1>4, StreamStep

\* Every step is one of the stream's.
LEMMA StreamSteps ==
    ASSUME TypeInv, LoaderInv, StreamInv, [Next]_vars
    PROVE  [Stream!Next]_(Stream!vars)
<1>0. Sent \in Seq(Char) /\ Delivered \in Seq(Char) /\ txFifo \in Seq(Char)
  BY StreamType
<1> USE DEF Stream!Next, Stream!vars, Sent, Delivered
<1>1. CASE UNCHANGED <<Sent, Delivered, txFifo>>
  BY <1>1
<1>2. CASE /\ \E c \in Char : Sent' = Append(Sent, c) /\ txFifo' = Append(txFifo, c)
           /\ Delivered' = Delivered
  <2>1. Stream!Send
    BY <1>2 DEF Stream!Send
  <2> QED
    BY <2>1
<1>3. CASE /\ txFifo # <<>> /\ Delivered' = Append(Delivered, Head(txFifo))
           /\ txFifo' = Tail(txFifo) /\ Sent' = Sent
  <2> HIDE DEF Sent, Delivered
  <2>1. Len(Delivered) < Len(Sent) /\ Sent[Len(Delivered) + 1] = Head(txFifo)
    <3>1. Len(txFifo) \in Nat \ {0} /\ Len(Delivered) \in Nat /\ Head(txFifo) = txFifo[1]
      BY <1>0, <1>3
    <3> QED
      BY <1>0, <3>1, ConcatProperties DEF StreamInv
  <2>2. Stream!Deliver
    BY <1>3, <2>1 DEF Stream!Deliver, Sent, Delivered
  <2> QED
    BY <2>2
<1>4. CASE Sent' = <<>> /\ Delivered' = <<>> /\ txFifo' = <<>>
  <2>1. Stream!Reset
    BY <1>4 DEF Stream!Reset
  <2> QED
    BY <2>1
<1> QED
  BY <1>1, <1>2, <1>3, <1>4, StreamStep

-----------------------------------------------------------------------------
(* What has been written, sent or not.                                     *)

\* The line is the wire and the FIFO, one behind the other.
LEMMA LineType ==
    ASSUME TypeInv
    PROVE  /\ Line \in Seq(Char) /\ Len(Line) \in Nat /\ Len(wire) \in Nat
           /\ Len(Line) = Len(wire) + Len(txFifo) /\ Len(txFifo) \in Nat
           /\ \A i \in 1..Len(wire) : Line[i] = wire[i]
           /\ txFifo = <<>> => Line = wire
           /\ Len(wire) = Len(Line) => txFifo = <<>>
<1>1. wire \in Seq(Char) /\ txFifo \in Seq(Char)
  BY DEF TypeInv, UartType
<1>2. /\ Line \in Seq(Char) /\ Len(Line) = Len(wire) + Len(txFifo)
      /\ \A i \in 1..Len(wire) + Len(txFifo) :
             Line[i] = IF i <= Len(wire) THEN wire[i] ELSE txFifo[i - Len(wire)]
  BY <1>1, ConcatProperties DEF Line
<1>3. Len(wire) \in Nat /\ Len(txFifo) \in Nat
  BY <1>1
<1>4. txFifo = <<>> => Line = wire
  BY <1>1, ConcatEmptySeq DEF Line
<1>5. Len(txFifo) = 0 => txFifo = <<>>
  BY <1>1
<1> QED
  BY <1>2, <1>3, <1>4, <1>5

\* What is on the wire stays there.
WireGrows ==
    /\ Len(wire') \in Nat /\ Len(wire') >= Len(wire)
    /\ \A i \in 1..Len(wire) : wire'[i] = wire[i]

\* Only write_byte adds to the line, and only a reset takes from it.
LEMMA LineStep ==
    ASSUME TypeInv, LoaderInv, [Next]_vars
    PROVE  /\ WireGrows
           /\ Line' = Line \/ WriteByte \/ Reset
<1>0. /\ wire \in Seq(Char) /\ txFifo \in Seq(Char) /\ written \in Seq(Char)
      /\ Len(wire) \in Nat
  BY DEF TypeInv, UartType
<1>1. CASE UNCHANGED <<wire, txFifo>>
  BY <1>0, <1>1 DEF Line, WireGrows
<1>2. CASE WriteByte
  BY <1>0, <1>2 DEF WriteByte, WriteDR, WireGrows
<1>3. CASE pc = "init_off" /\ TurnOff
  BY <1>0, <1>3 DEF TurnOff, BUSY, LoaderInv, Line, WireGrows
<1>4. CASE Transmit
  <2>1. /\ txFifo # <<>> /\ wire' = Append(wire, Head(txFifo)) /\ txFifo' = Tail(txFifo)
        /\ Head(txFifo) \in Char
    BY <1>0, <1>4, HeadTailProperties DEF Transmit, BUSY
  <2>2. WireGrows
    BY <1>0, <2>1, AppendProperties DEF WireGrows
  <2>3. Line' = Line
    BY <1>0, <2>1, Move DEF Line
  <2> QED
    BY <2>2, <2>3
<1>5. CASE Reset
  BY <1>0, <1>5 DEF Reset, WireGrows
<1> QED
  BY <1>1, <1>2, <1>3, <1>4, <1>5, UartSteps DEF uart, ReadDR, TurnOn, Receive

\* write_byte appends a character: LF gets a CR in front of it.
LEMMA LineWrite ==
    ASSUME TypeInv, LoaderInv, WriteByte
    PROVE  /\ wire' = wire /\ out # <<>> /\ pc' = pc
           /\ \E c \in Char :
                  /\ Line' = Append(Line, c)
                  /\ \/ c = CR /\ Head(out) = LF /\ out' = out
                     \/ c = Head(out) /\ out' = Tail(out)
<1>0. wire \in Seq(Char) /\ txFifo \in Seq(Char) /\ out \in Seq(Char)
  BY DEF TypeInv, UartType, BoardType
<1>1. out # <<>> /\ ~TXFF /\ pc' = pc
  BY DEF WriteByte
<1>2. enabled /\ Head(out) \in Char /\ CR \in Char
  BY <1>0, <1>1, HeadTailProperties, ConstantTypes DEF LoaderInv, Starting
<1>3. PICK c \in Char : /\ WriteDR(c)
                        /\ \/ c = CR /\ Head(out) = LF /\ out' = out
                           \/ c = Head(out) /\ out' = Tail(out)
  BY <1>2 DEF WriteByte
<1>4. txFifo' = Append(txFifo, c) /\ wire' = wire
  BY <1>1, <1>2, <1>3 DEF WriteDR
<1>5. Line' = Append(Line, c)
  BY <1>0, <1>4, Join DEF Line
<1> QED
  BY <1>1, <1>3, <1>4, <1>5

-----------------------------------------------------------------------------
(* Before the request.                                                     *)

\* Three ETX in a row of an extended sequence are in the sequence, or end with
\* the new character.
LEMMA TripleAppend ==
    ASSUME NEW s \in Seq(Char), NEW c \in Char, NEW i \in 1..Len(s) - 1,
           Triple(Append(s, c), i)
    PROVE  (i <= Len(s) - 2 /\ Triple(s, i)) \/ (i = Len(s) - 1 /\ c = ETX)
<1> DEFINE a == Append(s, c)
<1>1. /\ Len(s) \in Nat /\ \A j \in 1..Len(s) : a[j] = s[j]
      /\ a[Len(s) + 1] = c
  BY AppendProperties
<1>2. \A j \in i..i+2 : a[j] = ETX
  BY DEF Triple
<1> HIDE DEF a
<1>3. CASE i <= Len(s) - 2
  <2>1. ASSUME NEW j \in i..i+2 PROVE s[j] = ETX
    <3>1. j \in 1..Len(s)
      BY <1>1, <1>3
    <3> QED
      BY <1>1, <1>2, <3>1
  <2> QED
    BY <1>3, <2>1 DEF Triple
<1>4. CASE i = Len(s) - 1
  <2>1. Len(s) + 1 \in i..i+2
    BY <1>1, <1>4
  <2> QED
    BY <1>1, <1>2, <1>4, <2>1
<1> QED
  BY <1>1, <1>3, <1>4

\* One character written is one character less to write.
LEMMA OnePlace ==
    ASSUME NEW l \in Nat, NEW m \in 1..3, l > 3 - m
    PROVE  /\ l + 1 > 3 - (m - 1) /\ (l + 1) - (3 - (m - 1)) = l - (3 - m)
           /\ l - (3 - m) \in 1..l
OBVIOUS

\* write_byte before the request is seen: the banner ends in a character that
\* is not ETX, and the three ETX follow it.
LEMMA BeforeWrite ==
    ASSUME TypeInv, LoaderInv, Before, WriteByte, UNCHANGED <<host, env>>
    PROVE  Before'
<1>1. PICK c \in Char :
          /\ Line' = Append(Line, c)
          /\ \/ c = CR /\ Head(out) = LF /\ out' = out
             \/ c = Head(out) /\ out' = Tail(out)
  BY LineWrite
<1>2. /\ wire' = wire /\ out # <<>> /\ pc' = pc /\ got' = got /\ size' = size
      /\ rxFifo' = rxFifo /\ seen' = seen /\ match' = match
  BY LineWrite DEF WriteByte, WriteDR, host
<1>3. /\ Line \in Seq(Char) /\ Len(Line) \in Nat
  BY LineType
<1>4. /\ Len(Line') = Len(Line) + 1
      /\ \A i \in 1..Len(Line) : (Line')[i] = Line[i]
      /\ (Line')[Len(Line) + 1] = c
  BY <1>1, <1>3, AppendProperties
<1>5. pc \in {"banner", "request"}
  BY <1>2 DEF LoaderInv, Before, Starting
<1>6. Matched'
  BY <1>2 DEF Before, Matched
<1>7. CASE pc = "banner"
  <2>1. c # ETX
    <3>1. out \in Seq(Text \cup {LF})
      BY <1>7 DEF LoaderInv
    <3>2. Head(out) \in Text \cup {LF}
      BY <1>2, <3>1, HeadTailProperties
    <3> QED
      BY <1>1, <3>2, ChainloaderAssumption
  <2>2. ASSUME NEW i \in 1..Len(Line')-2, Triple(Line', i) PROVE FALSE
    <3>1. i \in 1..Len(Line)-1
      BY <1>3, <1>4
    <3>2. i <= Len(Line) - 2 /\ Triple(Line, i)
      BY <1>1, <1>3, <2>1, <2>2, <3>1, TripleAppend
    <3>3. AllAsked
      BY <1>3, <3>1, <3>2 DEF Before, OneRequest
    <3> QED
      BY <1>7, <3>3 DEF AllAsked
  <2>3. OneRequest'
    BY <2>2 DEF OneRequest
  <2>4. Plain(0)'
    BY <1>3, <1>4, <2>1 DEF Plain
  <2> QED
    BY <1>2, <1>6, <1>7, <2>3, <2>4 DEF Before, Led
<1>8. CASE pc = "request"
  <2>1. out \in Seq({ETX}) /\ Len(out) \in 1..3 /\ Head(out) = ETX /\ Head(out) # LF
    <3>1. out \in Seq({ETX}) /\ Len(out) <= 3
      BY <1>8 DEF LoaderInv
    <3>2. Head(out) \in {ETX} /\ Len(out) \in Nat \ {0}
      BY <1>2, <3>1, HeadTailProperties
    <3>3. ETX # LF
      BY ChainloaderAssumption
    <3>4. Len(out) \in 1..3
      <4>1. PICK n \in Nat \ {0} : n = Len(out)
        BY <3>2
      <4>2. n <= 3
        BY <3>1, <4>1
      <4> QED
        BY <4>1, <4>2
    <3>5. Head(out) = ETX
      BY <3>2
    <3> QED
      BY <3>1, <3>3, <3>4, <3>5
  <2>2. c = ETX /\ out' = Tail(out) /\ Len(out') = Len(out) - 1 /\ out' \in Seq({ETX})
    <3>1. c = ETX /\ out' = Tail(out)
      BY <1>1, <2>1
    <3>2. Tail(out) \in Seq({ETX}) /\ Len(Tail(out)) = Len(out) - 1
      BY <1>2, <2>1, HeadTailProperties
    <3> QED
      BY <3>1, <3>2
  <2>3. Plain(3 - Len(out))
    BY <1>8 DEF Before, Led
  <2>4. /\ Len(Line') > 3 - Len(out')
        /\ Len(Line') - (3 - Len(out')) = Len(Line) - (3 - Len(out))
        /\ Len(Line) - (3 - Len(out)) \in 1..Len(Line)
    <3>1. PICK m \in 1..3 : m = Len(out)
      BY <2>1
    <3>2. PICK l \in Nat : l = Len(Line)
      BY <1>3
    <3>3. Len(out') = m - 1 /\ Len(Line') = l + 1
      BY <1>4, <2>2, <3>1, <3>2
    <3>4. l > 3 - m
      BY <2>3, <3>1, <3>2 DEF Plain
    <3>5. /\ l + 1 > 3 - (m - 1) /\ (l + 1) - (3 - (m - 1)) = l - (3 - m)
          /\ l - (3 - m) \in 1..l
      BY <3>1, <3>2, <3>4, OnePlace
    <3> QED
      BY <3>1, <3>2, <3>3, <3>5
  <2>5. (Line')[Len(Line') - (3 - Len(out'))] # ETX
    BY <1>4, <2>3, <2>4 DEF Plain
  <2>6. Led'
    BY <1>2, <1>8, <2>4, <2>5 DEF Led, Plain
  <2>7. ASSUME NEW i \in 1..Len(Line')-2, Triple(Line', i)
        PROVE  i = Len(Line') - 2 /\ AllAsked'
    <3>1. i \in 1..Len(Line)-1
      BY <1>3, <1>4
    <3>2. CASE i <= Len(Line) - 2 /\ Triple(Line, i)
      BY <1>2, <1>3, <3>1, <3>2 DEF Before, OneRequest, AllAsked
    <3>3. CASE i = Len(Line) - 1
      <4>1. i = Len(Line') - 2 /\ \A j \in i..i+2 : (Line')[j] = ETX
        BY <1>3, <1>4, <2>7, <3>3 DEF Triple
      <4>2. ~(3 - Len(out') \in 0..2)
        <5>1. ASSUME 3 - Len(out') \in 0..2 PROVE FALSE
          <6>1. Len(Line') - (3 - Len(out')) \in i..i+2
            <7>1. PICK t \in 0..2 : t = 3 - Len(out')
              BY <5>1
            <7>2. i = Len(Line') - 2 /\ Len(Line') \in Int
              BY <1>3, <1>4, <4>1
            <7> QED
              BY <7>1, <7>2
          <6> QED
            BY <2>5, <4>1, <6>1
        <5> QED
          BY <5>1
      <4>3. Len(out') = 0
        BY <2>1, <2>2, <4>2
      <4>4. out' = <<>>
        BY <2>2, <4>3
      <4> QED
        BY <1>2, <1>8, <4>1, <4>4 DEF AllAsked
    <3> QED
      BY <1>1, <1>3, <2>7, <3>1, <3>2, <3>3, TripleAppend
  <2>8. OneRequest'
    BY <2>7 DEF OneRequest
  <2> QED
    BY <1>2, <1>6, <1>8, <2>6, <2>8 DEF Before
<1> QED
  BY <1>5, <1>7, <1>8

\* Steps that write nothing and that the host has no part in.
LEMMA BeforeKept ==
    ASSUME TypeInv, Before, Line' = Line, WireGrows, UNCHANGED <<seen, match>>,
           AllAsked => AllAsked'
    PROVE  Matched' /\ OneRequest'
<1>1. Len(wire) \in Nat /\ seen \in 0..Len(wire) /\ match \in 0..2
  BY LineType DEF TypeInv, HostType
<1>2. Matched'
  <2>1. ASSUME NEW k \in 0..match-1 PROVE wire'[seen - k] = ETX
    <3>1. seen - k \in 1..Len(wire) /\ wire[seen - k] = ETX
      BY <1>1 DEF Before, Matched
    <3> QED
      BY <3>1 DEF WireGrows
  <2> QED
    BY <2>1 DEF Before, Matched
<1>3. OneRequest'
  BY DEF Before, OneRequest
<1> QED
  BY <1>2, <1>3

\* Three ETX at the end are what Requested looks for.
LEMMA LastThree ==
    ASSUME NEW S, NEW s \in Seq(S), NEW n \in Nat, n = Len(s), n >= 3, Triple(s, n - 2)
    PROVE  SubSeq(s, n - 2, n) = <<ETX, ETX, ETX>>
<1>1. \A i \in n-2..n : s[i] \in S
  OBVIOUS
<1>2. /\ SubSeq(s, n - 2, n) \in Seq(S) /\ Len(SubSeq(s, n - 2, n)) = 3
      /\ \A i \in 1..3 : SubSeq(s, n - 2, n)[i] = s[(n - 2) + i - 1]
  BY <1>1, SubSeqProperties
<1>3. s[n - 2] = ETX /\ s[n - 1] = ETX /\ s[n] = ETX
  BY DEF Triple
<1>4. PICK t \in Seq(S) : t = SubSeq(s, n - 2, n)
  BY <1>2
<1>5. Len(t) = 3 /\ t[1] = ETX /\ t[2] = ETX /\ t[3] = ETX
  BY <1>2, <1>3, <1>4
<1>6. t = <<ETX, ETX, ETX>>
  BY <1>5
<1> QED
  BY <1>4, <1>6

\* The host waits until the request is complete, and then the board is behind
\* clear_rx with an empty FIFO.
LEMMA BeforeStep ==
    ASSUME TypeInv, LoaderInv, Before, hpc = "wait_request", ~torn', [Next]_vars
    PROVE  \/ hpc' = "wait_request" /\ Before'
           \/ hpc' = "size" /\ Asked' /\ got' + Len(rxFifo') = hsent'
<1>0. TypeInv /\ LoaderInv /\ Before
  OBVIOUS
<1>1. WireGrows /\ (Line' = Line \/ WriteByte \/ Reset)
  BY LineStep
<1>2. /\ Len(Line) \in Nat /\ Len(wire) \in Nat /\ Len(wire) <= Len(Line)
      /\ \A i \in 1..Len(wire) : Line[i] = wire[i]
      /\ Len(Line) = Len(wire) => txFifo = <<>>
  BY LineType
<1>11. CASE InitFlush /\ UNCHANGED <<host, env>>
  <2>1. /\ Line' = Line /\ UNCHANGED <<seen, match, hpc>> /\ (AllAsked => AllAsked')
    BY <1>11 DEF InitFlush, Line, AllAsked, host, uart
  <2>2. Matched' /\ OneRequest'
    BY <1>0, <1>1, <2>1, BeforeKept
  <2> QED
    BY <1>11, <2>1, <2>2 DEF Before, Led, Plain, Starting, InitFlush
<1>12. CASE InitOff /\ UNCHANGED <<host, env>>
  <2>1. /\ Line' = Line /\ UNCHANGED <<seen, match, hpc>> /\ (AllAsked => AllAsked')
    BY <1>12 DEF InitOff, Line, AllAsked, host, uart, TurnOff, BUSY, LoaderInv
  <2>2. Matched' /\ OneRequest'
    BY <1>0, <1>1, <2>1, BeforeKept
  <2> QED
    BY <1>12, <2>1, <2>2 DEF Before, Led, Plain, Starting, InitOff, TurnOff, BUSY, LoaderInv
<1>13. CASE InitOn /\ UNCHANGED <<host, env>>
  <2>1. /\ Line' = Line /\ UNCHANGED <<seen, match, hpc>> /\ (AllAsked => AllAsked')
    BY <1>13 DEF InitOn, Line, AllAsked, host, uart, TurnOn
  <2>2. Matched' /\ OneRequest'
    BY <1>0, <1>1, <2>1, BeforeKept
  <2> QED
    BY <1>13, <2>1, <2>2 DEF Before, Led, Plain, Starting, InitOn, TurnOn
<1>14. CASE WriteByte /\ UNCHANGED <<host, env>>
  BY <1>14, BeforeWrite DEF host
<1>15. CASE BannerDone /\ UNCHANGED <<host, env>>
  <2>1. /\ Line' = Line /\ UNCHANGED <<seen, match, hpc>> /\ (AllAsked => AllAsked')
    BY <1>15 DEF BannerDone, Line, AllAsked, host, uart
  <2>2. Matched' /\ OneRequest'
    BY <1>0, <1>1, <2>1, BeforeKept
  <2> QED
    <3>1. pc = "banner" /\ out = <<>> /\ pc' = "clear" /\ UNCHANGED <<got, size, txFifo, wire, hpc>>
      BY <1>15 DEF BannerDone, uart, host
    <3>2. Banner # <<>>
      BY ChainloaderAssumption
    <3> QED
      BY <2>1, <2>2, <3>1, <3>2 DEF Before, Led, Plain, Starting
<1>16. CASE ClearRx /\ UNCHANGED <<host, env>>
  <2>1. /\ Line' = Line /\ UNCHANGED <<seen, match, hpc>> /\ (AllAsked => AllAsked')
    BY <1>16 DEF ClearRx, ReadDR, Line, AllAsked, host, uart
  <2>2. Matched' /\ OneRequest'
    BY <1>0, <1>1, <2>1, BeforeKept
  <2>3. pc = "clear" /\ Plain(0) /\ Plain(0)'
    BY <1>16, <2>1 DEF ClearRx, Before, Led, Plain
  <2>4. CASE pc' = "request" /\ out' = <<ETX, ETX, ETX>> /\ rxFifo' = <<>>
    <3>1. 3 - Len(out') = 0
      BY <2>4
    <3>2. Led'
      BY <2>3, <2>4, <3>1 DEF Led
    <3> QED
      BY <2>1, <2>2, <2>4, <3>2 DEF Before, Starting
  <2>5. CASE pc' = pc
    BY <2>1, <2>2, <2>3, <2>5 DEF Before, Led, Starting
  <2> QED
    BY <1>16, <2>4, <2>5 DEF ClearRx, RXFE, uart
<1>17. CASE RequestDone /\ UNCHANGED <<host, env>>
  <2>1. /\ Line' = Line /\ UNCHANGED <<seen, match, hpc>> /\ (AllAsked => AllAsked')
    BY <1>17 DEF RequestDone, Line, AllAsked, host, uart
  <2>2. Matched' /\ OneRequest'
    BY <1>0, <1>1, <2>1, BeforeKept
  <2> QED
    BY <1>17, <2>1, <2>2 DEF Before, Led, Plain, Starting, uart, LoaderInv, RequestDone
<1>18. CASE ReadSize /\ UNCHANGED <<host, env>>
  BY <1>18 DEF ReadSize, RXFE, Before
<1>19. CASE OkDone /\ UNCHANGED <<host, env>>
  BY <1>19 DEF OkDone, Before, Starting
<1>20. CASE ReadPayload /\ UNCHANGED <<host, env>>
  BY <1>20 DEF ReadPayload, Before, Starting
<1>21. CASE PayloadDone /\ UNCHANGED <<host, env>>
  BY <1>21 DEF PayloadDone, Before, Starting
<1>22. CASE LoadedDone /\ UNCHANGED <<host, env>>
  BY <1>22 DEF LoadedDone, Before, Starting
<1>23. CASE EnterKernel /\ UNCHANGED <<host, env>>
  BY <1>23 DEF EnterKernel, Before, Starting
<1>24. CASE TransmitByte
  <2>1. Line' = Line /\ UNCHANGED <<seen, match, hpc, pc, out, rxFifo, got, size>>
    BY <1>24, <1>1 DEF TransmitByte, Transmit, WriteByte, Reset, loader, host, env
  <2>2. Matched' /\ OneRequest'
    BY <1>0, <1>1, <2>1, BeforeKept DEF AllAsked
  <2> QED
    BY <2>1, <2>2 DEF Before, Led, Plain
<1>25. CASE HostWaitRequest /\ UNCHANGED <<loader, env>>
  <2> DEFINE n == IF wire[seen + 1] = ETX THEN match + 1 ELSE 0
  <2>1. /\ seen < Len(wire) /\ seen' = seen + 1 /\ hsent' = hsent /\ wire' = wire
        /\ Line' = Line /\ txFifo' = txFifo
        /\ UNCHANGED <<pc, out, got, size, rxFifo, file>>
        /\ \/ n = 3 /\ hpc' = "size" /\ match' = 0
           \/ n # 3 /\ hpc' = hpc /\ match' = n
    BY <1>25 DEF HostWaitRequest, Line, uart, loader
  <2>2. /\ seen + 1 \in 1..Len(wire) /\ match \in 0..2 /\ seen \in Nat
        /\ match <= seen /\ \A k \in 0..match-1 : wire[seen - k] = ETX
    BY <2>1, <1>0 DEF Before, Matched, TypeInv, HostType
  <2>3. /\ n \in 0..3 /\ n <= seen + 1
        /\ \A k \in 0..n-1 : wire[(seen + 1) - k] = ETX
    <3>1. CASE wire[seen + 1] = ETX
      <4>1. ASSUME NEW k \in 0..match PROVE wire[(seen + 1) - k] = ETX
        <5>1. CASE k = 0
          BY <2>2, <3>1, <5>1
        <5>2. CASE k # 0
          <6>1. k - 1 \in 0..match-1 /\ (seen + 1) - k = seen - (k - 1)
            BY <2>2, <5>2
          <6> QED
            BY <2>2, <6>1
        <5> QED
          BY <5>1, <5>2
      <4> QED
        BY <2>2, <3>1, <4>1
    <3>2. CASE wire[seen + 1] # ETX
      BY <2>2, <3>2
    <3> QED
      BY <3>1, <3>2
  <2> HIDE DEF n
  <2>4. CASE n # 3
    <3>1. Matched'
      BY <2>1, <2>3, <2>4 DEF Matched
    <3>2. OneRequest' /\ Led'
      BY <2>1 DEF Before, OneRequest, AllAsked, Led, Plain
    <3> QED
      BY <2>1, <2>4, <3>1, <3>2 DEF Before
  <2>5. CASE n = 3
    <3>1. \A k \in 0..2 : wire[(seen + 1) - k] = ETX
      BY <2>3, <2>5
    <3>2. seen - 1 \in 1..Len(Line)-2
      BY <2>2, <2>3, <2>5, <1>2
    <3>3. ASSUME NEW j \in (seen - 1)..(seen - 1) + 2 PROVE Line[j] = ETX
      <4>1. (seen + 1) - j \in 0..2 /\ (seen + 1) - ((seen + 1) - j) = j /\ j \in 1..Len(wire)
        BY <2>2, <3>2
      <4> QED
        BY <3>1, <4>1, <1>2
    <3>4. seen - 1 = Len(Line) - 2 /\ AllAsked
      BY <3>2, <3>3 DEF Before, OneRequest, Triple
    <3>5. seen + 1 = Len(wire) /\ txFifo = <<>>
      BY <2>2, <3>4, <1>2
    <3>6. got = 0 /\ size = 0 /\ rxFifo = <<>>
      BY <3>4 DEF Before, AllAsked, LoaderInv
    <3>7. SizeOnLine'
      BY <2>1, <3>6 DEF SizeOnLine, Partial
    <3>8. hsent = 0
      BY DEF LoaderInv
    <3> QED
      BY <2>1, <2>5, <3>4, <3>5, <3>6, <3>7, <3>8 DEF Asked, AllAsked
  <2> QED
    BY <2>4, <2>5
<1>26. CASE HostSendSize /\ UNCHANGED <<loader, env>>
  BY <1>26 DEF HostSendSize
<1>27. CASE HostWaitOk /\ UNCHANGED <<loader, env>>
  BY <1>27 DEF HostWaitOk
<1>28. CASE HostSendFile /\ UNCHANGED <<loader, env>>
  BY <1>28 DEF HostSendFile
<1>29. CASE HostDone /\ UNCHANGED <<loader, env>>
  BY <1>29 DEF HostDone
<1>30. CASE Noise
  <2>1. /\ Line' = Line /\ UNCHANGED <<seen, match, hpc>> /\ (AllAsked => AllAsked')
    BY <1>30 DEF Noise, Line, AllAsked, host, uart, Receive, loader
  <2>2. Matched' /\ OneRequest'
    BY <1>0, <1>1, <2>1, BeforeKept
  <2> QED
    BY <1>30, <2>1, <2>2 DEF Before, Led, Plain, Starting, Noise, Receive, loader
<1>31. CASE Reset
  <2>1. ~Requested
    BY <1>31 DEF Reset
  <2>2. /\ wire' = wire /\ txFifo' = <<>> /\ UNCHANGED <<seen, match, hpc>>
        /\ pc' = "init_flush"
    BY <1>31 DEF Reset, host
  <2>3. Line' = wire
    BY <2>2, <1>0, ConcatEmptySeq DEF Line, TypeInv, UartType
  <2>4. ASSUME NEW i \in 1..Len(wire)-2, Triple(wire, i) PROVE FALSE
    <3>1. i \in 1..Len(Line)-2 /\ Triple(Line, i)
      BY <1>2, <2>4 DEF Triple
    <3>2. i = Len(Line) - 2
      BY <3>1 DEF Before, OneRequest
    <3>3. i = Len(wire) - 2 /\ Len(wire) >= 3
      BY <1>2, <3>2
    <3>4. SubSeq(wire, Len(wire) - 2, Len(wire)) = <<ETX, ETX, ETX>>
      BY <1>0, <1>2, <2>4, <3>3, LastThree DEF TypeInv, UartType
    <3> QED
      BY <2>1, <3>3, <3>4 DEF Requested
  <2>5. OneRequest'
    BY <2>3, <2>4 DEF OneRequest
  <2> QED
    BY <2>2, <2>5 DEF Before, Matched, Led, Starting
<1>32. CASE UNCHANGED vars
  <2>1. /\ Line' = Line /\ UNCHANGED <<seen, match, hpc>> /\ (AllAsked => AllAsked')
    BY <1>32 DEF vars, Line, AllAsked, host, uart, loader
  <2>2. Matched' /\ OneRequest'
    BY <1>0, <1>1, <2>1, BeforeKept
  <2> QED
    BY <1>32, <2>1, <2>2 DEF Before, Led, Plain, Starting, uart, vars, loader
<1> QED
  BY <1>11, <1>12, <1>13, <1>14, <1>15, <1>16, <1>17, <1>18, <1>19, <1>20, <1>21, <1>22, <1>23, <1>24, <1>25, <1>26, <1>27, <1>28, <1>29, <1>30, <1>31, <1>32 DEF Next, Board, Host

-----------------------------------------------------------------------------
(* The size in four bytes.                                                 *)

\* Quotient and remainder.
LEMMA Divide ==
    ASSUME NEW a \in Nat, NEW p \in Nat \ {0}
    PROVE  a \div p \in Nat /\ a % p \in 0..p-1 /\ a = p * (a \div p) + (a % p)
OBVIOUS

\* The quotient of a sum.
LEMMA Quotient ==
    ASSUME NEW q \in Nat, NEW p \in Nat \ {0}, NEW r \in 0..p-1
    PROVE  (p * q + r) \div p = q
OBVIOUS

\* Dividing twice.
LEMMA DivideTwice ==
    ASSUME NEW a \in Nat, NEW p \in Nat \ {0}, NEW b \in Nat \ {0}
    PROVE  p * b \in Nat \ {0} /\ (a \div p) \div b = a \div (p * b)
<1> DEFINE u == a \div p
           v == u \div b
           r == a % p
           s == u % b
<1>1. u \in Nat /\ r \in 0..p-1 /\ a = p * u + r
  BY Divide
<1>2. v \in Nat /\ s \in 0..b-1 /\ u = b * v + s
  BY <1>1, Divide
<1> HIDE DEF u, v, r, s
<1>3. p * b \in Nat \ {0}
  OBVIOUS
<1>4. a = (p * b) * v + (p * s + r)
  <2>1. p * u = p * (b * v) + p * s
    BY <1>1, <1>2
  <2>2. p * (b * v) = (p * b) * v
    BY <1>2
  <2> QED
    BY <1>1, <1>2, <2>1, <2>2
<1>5. p * s + r \in 0..(p * b) - 1
  <2>1. s + 1 <= b
    BY <1>2
  <2>2. p * (s + 1) <= p * b
    BY <1>2, <2>1
  <2>3. p * (s + 1) = p * s + p
    BY <1>2
  <2>4. p * s \in Nat
    BY <1>2
  <2> QED
    BY <1>1, <1>3, <2>2, <2>3, <2>4
<1>6. a \div (p * b) = v
  <2>1. ((p * b) * v + (p * s + r)) \div (p * b) = v
    BY <1>2, <1>3, <1>5, Quotient
  <2> QED
    BY <1>4, <2>1
<1> QED
  BY <1>3, <1>6 DEF v, u

\* Four digits are the number.
LEMMA Digits ==
    ASSUME NEW n \in Nat, n < Base * Base * Base * Base
    PROVE  n = (Digit(n, 0) + Digit(n, 1) * Weight(1) + Digit(n, 2) * Weight(2))
                 + Digit(n, 3) * Weight(3)
<1> DEFINE B == Base
<1>0. B \in Nat \ {0}
  BY ChainloaderAssumption
<1>1. Weight(0) = 1 /\ Weight(1) = B /\ Weight(2) = B * B /\ Weight(3) = B * B * B
  BY DEF Weight
<1> DEFINE q1 == n \div B
           q2 == n \div (B * B)
           q3 == n \div (B * B * B)
<1>2. /\ B * B \in Nat \ {0} /\ B * B * B \in Nat \ {0}
      /\ q1 \div B = q2 /\ q2 \div B = q3
  <2> DEFINE P(x, y, z) == y * z \in Nat \ {0} /\ (x \div y) \div z = x \div (y * z)
  <2>1. \A x \in Nat : \A y, z \in Nat \ {0} : P(x, y, z)
    BY DivideTwice
  <2>2. P(n, B, B)
    <3> HIDE DEF P, B
    <3> QED
      BY <1>0, <2>1
  <2>3. P(n, B * B, B)
    <3>1. PICK b \in Nat \ {0} : b = B * B
      BY <2>2
    <3> HIDE DEF P, B
    <3>2. P(n, b, B)
      BY <1>0, <2>1
    <3> QED
      BY <3>1, <3>2
  <2> QED
    BY <2>2, <2>3
<1>3. /\ q1 \in Nat /\ q2 \in Nat /\ q3 \in Nat
      /\ n % B \in Nat /\ q1 % B \in Nat /\ q2 % B \in Nat
      /\ n = B * q1 + (n % B) /\ q1 = B * q2 + (q1 % B) /\ q2 = B * q3 + (q2 % B)
  <2>1. q1 \in Nat /\ n % B \in Nat /\ n = B * q1 + (n % B)
    BY <1>0, Divide
  <2>2. q1 \div B \in Nat /\ q1 % B \in Nat /\ q1 = B * (q1 \div B) + (q1 % B)
    <3> HIDE DEF q1, B
    <3>1. q1 \div B \in Nat /\ q1 % B \in 0..B-1 /\ q1 = B * (q1 \div B) + (q1 % B)
      BY <1>0, <2>1, Divide, Zenon
    <3> QED
      BY <1>0, <3>1
  <2>3. q2 \in Nat /\ q1 = B * q2 + (q1 % B)
    BY <1>2, <2>2
  <2>4. q2 \div B \in Nat /\ q2 % B \in Nat /\ q2 = B * (q2 \div B) + (q2 % B)
    <3> HIDE DEF q2, B
    <3>1. q2 \div B \in Nat /\ q2 % B \in 0..B-1 /\ q2 = B * (q2 \div B) + (q2 % B)
      BY <1>0, <2>3, Divide, Zenon
    <3> QED
      BY <1>0, <3>1
  <2>5. q3 \in Nat /\ q2 = B * q3 + (q2 % B)
    BY <1>2, <2>4
  <2> QED
    BY <2>1, <2>2, <2>3, <2>4, <2>5
<1>4. q3 % B = q3
  <2>2. PICK c \in Nat \ {0} : c = B * B * B
    BY <1>2
  <2>1. n = c * q3 + (n % c) /\ n % c \in Nat
    <3>1. n = c * (n \div c) + (n % c) /\ n % c \in Nat
      BY Divide
    <3> QED
      BY <2>2, <3>1
  <2>3. n < c * B
    BY <1>0, <2>2
  <2>4. c * q3 <= n
    BY <2>1, <2>2, <1>3
  <2> HIDE DEF q3
  <2>5. q3 < B
    <3>1. ASSUME q3 >= B PROVE FALSE
      <4>1. c * q3 >= c * B
        BY <1>0, <1>3, <2>2, <3>1
      <4>2. c * q3 \in Nat /\ c * B \in Nat
        BY <1>0, <1>3
      <4> QED
        BY <2>3, <2>4, <4>1, <4>2
    <3> QED
      BY <1>0, <1>3, <3>1
  <2> QED
    BY <1>0, <1>3, <2>5
<1>5. /\ Digit(n, 0) = n % B /\ Digit(n, 1) = q1 % B /\ Digit(n, 2) = q2 % B
      /\ Digit(n, 3) = q3
  <2>1. n \div 1 = n
    OBVIOUS
  <2> QED
    BY <1>1, <1>4, <2>1 DEF Digit
<1>6. PICK d0 \in Nat, d1 \in Nat, d2 \in Nat, d3 \in Nat, e1 \in Nat, e2 \in Nat :
         /\ d0 = Digit(n, 0) /\ d1 = Digit(n, 1) /\ d2 = Digit(n, 2) /\ d3 = Digit(n, 3)
         /\ n = B * e1 + d0 /\ e1 = B * e2 + d1 /\ e2 = B * d3 + d2
  BY <1>3, <1>5
<1>7. n = (d0 + d1 * B + d2 * (B * B)) + d3 * (B * B * B)
  <2>1. B * e2 = B * (B * d3) + B * d2
    BY <1>0, <1>6
  <2>2. B * e1 = B * (B * (B * d3)) + B * (B * d2) + B * d1
    <3>1. B * e1 = B * (B * e2) + B * d1
      BY <1>0, <1>6
    <3>2. B * (B * e2) = B * (B * (B * d3)) + B * (B * d2)
      BY <1>0, <2>1
    <3> QED
      BY <3>1, <3>2
  <2>3. /\ B * (B * (B * d3)) = d3 * (B * B * B)
        /\ B * (B * d2) = d2 * (B * B) /\ B * d1 = d1 * B
    BY <1>0
  <2>4. d3 * (B * B * B) \in Nat /\ d2 * (B * B) \in Nat /\ d1 * B \in Nat
    BY <1>0
  <2> QED
    BY <1>6, <2>2, <2>3, <2>4
<1> QED
  BY <1>1, <1>6, <1>7

-----------------------------------------------------------------------------
(* The size on the line.                                                   *)

\* One more digit.
LEMMA PartialSum ==
    ASSUME NEW n \in Nat, n < Base * Base * Base * Base, NEW g \in 0..3
    PROVE  Partial(n, g + 1) = Partial(n, g) + Digit(n, g) * Weight(g)
<1>0. Digit(n, 0) \in Nat /\ Weight(0) = 1
  BY ConstantTypes DEF Weight
<1>1. CASE g = 0
  BY <1>0, <1>1 DEF Partial
<1>2. CASE g = 1
  BY <1>2 DEF Partial
<1>3. CASE g = 2
  BY <1>3 DEF Partial
<1>4. CASE g = 3
  BY <1>4, Digits DEF Partial
<1> QED
  BY <1>1, <1>2, <1>3, <1>4

\* The board takes one byte of the size.
LEMMA AskedRead ==
    ASSUME TypeInv, LoaderInv, Asked, ReadSize, UNCHANGED host
    PROVE  /\ got \in 0..3 /\ got' = got + 1 /\ Len(rxFifo') = Len(rxFifo) - 1
           /\ Len(rxFifo) \in Nat \ {0}
           /\ got # 3 => Asked'
           /\ got = 3 => size' = Len(file)
<1>0. /\ pc = "size" /\ rxFifo # <<>> /\ rxFifo' = Tail(rxFifo) /\ got' = got + 1
      /\ size' = size + Head(rxFifo) * Weight(got)
      /\ UNCHANGED <<txFifo, wire>>
      /\ got # 3 => pc' = pc /\ out' = out
  BY DEF ReadSize, RXFE, ReadDR
<1>1. /\ rxFifo \in Seq(Byte) /\ got \in 0..3 /\ file \in Files
  BY <1>0 DEF TypeInv, UartType, BoardType, HostType, LoaderInv
<1>2. /\ Len(rxFifo) \in Nat \ {0} /\ Head(rxFifo) = rxFifo[1]
      /\ Len(Tail(rxFifo)) = Len(rxFifo) - 1
      /\ \A i \in 1..Len(rxFifo)-1 : Tail(rxFifo)[i] = rxFifo[i + 1]
  BY <1>0, <1>1, HeadTailProperties
<1>3. Len(file) \in Nat /\ Len(file) < Base * Base * Base * Base
  BY <1>1, ConstantTypes, ChainloaderAssumption
<1>4. Head(rxFifo) = Digit(Len(file), got)
  <2>1. rxFifo[1] = Digit(Len(file), got + 1 - 1)
    BY <1>2 DEF Asked, SizeOnLine
  <2>2. got + 1 - 1 = got
    BY <1>1
  <2> QED
    BY <1>2, <2>1, <2>2
<1>5. size' = Partial(Len(file), got')
  <2>1. size = Partial(Len(file), got)
    BY DEF Asked, SizeOnLine
  <2> QED
    BY <1>0, <1>1, <1>3, <1>4, <2>1, PartialSum
<1>6. ASSUME NEW i \in 1..Len(rxFifo')
      PROVE  got' + i - 1 < 4 /\ (rxFifo')[i] = Digit(Len(file), got' + i - 1)
  <2>1. i + 1 \in 1..Len(rxFifo) /\ (rxFifo')[i] = rxFifo[i + 1]
    BY <1>0, <1>2
  <2>2. got + (i + 1) - 1 < 4 /\ rxFifo[i + 1] = Digit(Len(file), got + (i + 1) - 1)
    BY <2>1 DEF Asked, SizeOnLine
  <2>3. got + (i + 1) - 1 = got' + i - 1
    BY <1>0, <1>1
  <2> QED
    BY <2>1, <2>2, <2>3
<1>7. SizeOnLine'
  BY <1>5, <1>6 DEF SizeOnLine, host
<1>8. got # 3 => Asked'
  BY <1>0, <1>7 DEF Asked, AllAsked, host
<1>9. got = 3 => size' = Len(file)
  BY <1>0, <1>5 DEF Partial
<1> QED
  BY <1>0, <1>1, <1>2, <1>8, <1>9

\* The host sends one byte of the size, and it fits.
LEMMA AskedSend ==
    ASSUME TypeInv, LoaderInv, Asked, hpc = "size", got + Len(rxFifo) = hsent,
           HostSendSize, UNCHANGED loader
    PROVE  /\ Asked'
           /\ \/ hpc' = "size" /\ got' + Len(rxFifo') = hsent'
              \/ hpc' = "wait_ok" /\ hsent' = 0 /\ got' + Len(rxFifo') = 4
<1> DEFINE d == Digit(Len(file), hsent)
<1>1. /\ rxFifo \in Seq(Byte) /\ got \in 0..4 /\ file \in Files /\ enabled
      /\ hsent \in 0..3 /\ Len(rxFifo) \in Nat
  BY DEF TypeInv, UartType, BoardType, HostType, LoaderInv, Asked, AllAsked, Starting
<1>2. Accepts
  <2>1. RxDepth \in Nat /\ RxDepth >= 4
    BY Pl011Assumption, ChainloaderAssumption
  <2> QED
    BY <1>1, <2>1 DEF Accepts
<1>3. /\ rxFifo' = Append(rxFifo, d) /\ UNCHANGED <<txFifo, wire, file, seen, match>>
      /\ UNCHANGED <<pc, out, got, size>>
      /\ \/ hsent = 3 /\ hpc' = "wait_ok" /\ hsent' = 0
         \/ hsent # 3 /\ hpc' = hpc /\ hsent' = hsent + 1
  BY <1>2 DEF HostSendSize, Receive, loader
<1>4. d \in Byte
  BY <1>1, ConstantTypes
<1> HIDE DEF d
<1>5. /\ Len(rxFifo') = Len(rxFifo) + 1
      /\ \A i \in 1..Len(rxFifo) : (rxFifo')[i] = rxFifo[i]
      /\ (rxFifo')[Len(rxFifo) + 1] = d
  BY <1>1, <1>3, <1>4, AppendProperties
<1>6. ASSUME NEW i \in 1..Len(rxFifo')
      PROVE  got' + i - 1 < 4 /\ (rxFifo')[i] = Digit(Len(file), got' + i - 1)
  <2>1. CASE i \in 1..Len(rxFifo)
    <3>1. got + i - 1 < 4 /\ rxFifo[i] = Digit(Len(file), got + i - 1)
      BY <2>1 DEF Asked, SizeOnLine
    <3> QED
      BY <1>3, <1>5, <2>1, <3>1
  <2>2. CASE i = Len(rxFifo) + 1
    <3>1. got + i - 1 = hsent
      BY <1>1, <2>2
    <3> QED
      BY <1>1, <1>3, <1>5, <2>2, <3>1 DEF d
  <2> QED
    BY <1>1, <1>5, <2>1, <2>2
<1>7. Asked'
  BY <1>3, <1>6 DEF Asked, AllAsked, SizeOnLine
<1> QED
  BY <1>1, <1>3, <1>5, <1>7

\* While the host sends the size, every byte of it is in the FIFO or read.
LEMMA AskedStep ==
    ASSUME TypeInv, LoaderInv, Asked, hpc = "size", got + Len(rxFifo) = hsent,
           ~torn', [Next]_vars
    PROVE  /\ Asked'
           /\ \/ hpc' = "size" /\ got' + Len(rxFifo') = hsent'
              \/ hpc' = "wait_ok" /\ hsent' = 0 /\ got' + Len(rxFifo') = 4
<1>1. /\ pc \in {"request", "size"} /\ out = <<>> /\ txFifo = <<>> /\ hpc = "size"
      /\ TypeInv /\ LoaderInv /\ Asked /\ got + Len(rxFifo) = hsent /\ hsent < 4
      /\ hsent \in Nat
  BY DEF Asked, AllAsked, LoaderInv, TypeInv, HostType
<1>11. CASE InitFlush /\ UNCHANGED <<host, env>>
  BY <1>1, <1>11 DEF InitFlush
<1>12. CASE InitOff /\ UNCHANGED <<host, env>>
  BY <1>1, <1>12 DEF InitOff
<1>13. CASE InitOn /\ UNCHANGED <<host, env>>
  BY <1>1, <1>13 DEF InitOn
<1>14. CASE WriteByte /\ UNCHANGED <<host, env>>
  BY <1>1, <1>14 DEF WriteByte
<1>15. CASE BannerDone /\ UNCHANGED <<host, env>>
  BY <1>1, <1>15 DEF BannerDone
<1>16. CASE ClearRx /\ UNCHANGED <<host, env>>
  BY <1>1, <1>16 DEF ClearRx
<1>17. CASE RequestDone /\ UNCHANGED <<host, env>>
  BY <1>1, <1>17 DEF RequestDone, Asked, AllAsked, SizeOnLine, Partial, Digit, Weight, uart, host
<1>18. CASE ReadSize /\ UNCHANGED <<host, env>>
  BY <1>1, <1>18, AskedRead DEF host
<1>19. CASE OkDone /\ UNCHANGED <<host, env>>
  BY <1>1, <1>19 DEF OkDone
<1>20. CASE ReadPayload /\ UNCHANGED <<host, env>>
  BY <1>1, <1>20 DEF ReadPayload
<1>21. CASE PayloadDone /\ UNCHANGED <<host, env>>
  BY <1>1, <1>21 DEF PayloadDone
<1>22. CASE LoadedDone /\ UNCHANGED <<host, env>>
  BY <1>1, <1>22 DEF LoadedDone
<1>23. CASE EnterKernel /\ UNCHANGED <<host, env>>
  BY <1>1, <1>23 DEF EnterKernel
<1>24. CASE TransmitByte
  BY <1>1, <1>24 DEF TransmitByte, Transmit, BUSY
<1>25. CASE HostWaitRequest /\ UNCHANGED <<loader, env>>
  BY <1>1, <1>25 DEF HostWaitRequest
<1>26. CASE HostSendSize /\ UNCHANGED <<loader, env>>
  BY <1>1, <1>26, AskedSend DEF loader
<1>27. CASE HostWaitOk /\ UNCHANGED <<loader, env>>
  BY <1>1, <1>27 DEF HostWaitOk
<1>28. CASE HostSendFile /\ UNCHANGED <<loader, env>>
  BY <1>1, <1>28 DEF HostSendFile
<1>29. CASE HostDone /\ UNCHANGED <<loader, env>>
  BY <1>1, <1>29 DEF HostDone
<1>30. CASE Noise
  BY <1>1, <1>30 DEF Noise
<1>31. CASE Reset
  BY <1>1, <1>31 DEF Reset, Requested
<1>32. CASE UNCHANGED vars
  BY <1>1, <1>32 DEF vars, loader, Asked, AllAsked, SizeOnLine, Partial, Digit, Weight, uart, host
<1> QED
  BY <1>11, <1>12, <1>13, <1>14, <1>15, <1>16, <1>17, <1>18, <1>19, <1>20, <1>21, <1>22, <1>23, <1>24, <1>25, <1>26, <1>27, <1>28, <1>29, <1>30, <1>31, <1>32 DEF Next, Board, Host

-----------------------------------------------------------------------------
(* "OK" on the line.                                                       *)

\* What the host has to read: the line and the rest of the text.
LEMMA RestType ==
    ASSUME TypeInv
    PROVE  /\ Rest \in Seq(Char) /\ Len(Rest) \in Nat
           /\ Len(Rest) = Len(Line) + Len(out) /\ Len(out) \in Nat
           /\ \A i \in 1..Len(Line) : Rest[i] = Line[i]
           /\ \A i \in 1..Len(out) : Rest[Len(Line) + i] = out[i]
<1>1. Line \in Seq(Char) /\ out \in Seq(Char) /\ Len(Line) \in Nat /\ Len(out) \in Nat
  BY LineType DEF TypeInv, BoardType
<1>2. /\ Rest \in Seq(Char) /\ Len(Rest) = Len(Line) + Len(out)
      /\ \A i \in 1..Len(Line) + Len(out) :
             Rest[i] = IF i <= Len(Line) THEN Line[i] ELSE out[i - Len(Line)]
  BY <1>1, ConcatProperties DEF Rest
<1>3. \A i \in 1..Len(Line) : Rest[i] = Line[i]
  BY <1>1, <1>2
<1>4. ASSUME NEW i \in 1..Len(out) PROVE Rest[Len(Line) + i] = out[i]
  <2>1. Len(Line) + i \in 1..Len(Line) + Len(out) /\ ~(Len(Line) + i <= Len(Line))
        /\ (Len(Line) + i) - Len(Line) = i
    BY <1>1
  <2> QED
    BY <1>2, <2>1
<1> QED
  BY <1>1, <1>2, <1>3, <1>4

\* The board answers the fourth byte.
LEMMA FirstAnswer ==
    ASSUME TypeInv, LoaderInv, Asked, ReadSize, UNCHANGED host, got = 3,
           got + Len(rxFifo) = 4, size' = Len(file)
    PROVE  OkComing'
<1>1. /\ pc = "size" /\ pc' = "ok" /\ out' = <<O, K>> /\ got' = 4
      /\ UNCHANGED <<txFifo, wire, image, seen, match, file>>
      /\ rxFifo # <<>> /\ rxFifo' = Tail(rxFifo)
  BY DEF ReadSize, ReadDR, RXFE, host
<1>2. image = <<>> /\ match = 0 /\ seen = Len(wire) /\ txFifo = <<>>
  BY <1>1 DEF LoaderInv, Asked
<1>3. rxFifo' = <<>>
  <2>1. rxFifo \in Seq(Byte) /\ Len(rxFifo) = 1
    <3>1. rxFifo \in Seq(Byte)
      BY DEF TypeInv, UartType
    <3>2. PICK m \in Nat : m = Len(rxFifo)
      BY <3>1
    <3>3. 3 + m = 4
      BY <3>2
    <3> QED
      BY <3>1, <3>2, <3>3
  <2> QED
    BY <1>1, <2>1
<1>4. Line' = wire /\ Line = wire /\ Len(wire) \in Nat
  BY <1>1, <1>2, LineType DEF Line
<1>5. /\ Len(Rest') = seen + 2 /\ (Rest')[seen + 1] = O /\ (Rest')[seen + 2] = K
  <2>1. /\ Len(out') = 2 /\ (out')[1] = O /\ (out')[2] = K
    BY <1>1
  <2>2. wire \in Seq(Char) /\ <<O, K>> \in Seq(Char)
    BY ConstantTypes DEF TypeInv, UartType
  <2>3. Rest' = wire \o <<O, K>>
    BY <1>1, <1>4 DEF Rest
  <2>4. /\ Len(wire \o <<O, K>>) = Len(wire) + 2
        /\ (wire \o <<O, K>>)[Len(wire) + 1] = O
        /\ (wire \o <<O, K>>)[Len(wire) + 2] = K
    BY <1>4, <2>2, ConcatProperties
  <2> QED
    BY <1>2, <2>3, <2>4
<1> QED
  BY <1>1, <1>2, <1>3, <1>5 DEF OkComing, OkAhead

\* What is written stays ahead of the host.
LEMMA OkKept ==
    ASSUME TypeInv, OkComing, out' \in Seq(Char), Line' \in Seq(Char),
           Len(Line') >= Len(Line), \A i \in 1..Len(Line) : (Line')[i] = Line[i],
           UNCHANGED <<seen, match>>, Len(Line) >= seen + 2 - match
    PROVE  OkAhead'
<1>1. /\ Len(Rest') = Len(Line') + Len(out') /\ Len(out') \in Nat /\ Len(Line') \in Nat
      /\ \A i \in 1..Len(Line') : (Rest')[i] = (Line')[i]
  <2>1. PICK l \in Seq(Char), o \in Seq(Char) : l = Line' /\ o = out'
    OBVIOUS
  <2>2. /\ Len(l \o o) = Len(l) + Len(o) /\ Len(o) \in Nat /\ Len(l) \in Nat
        /\ \A i \in 1..Len(l) + Len(o) :
               (l \o o)[i] = IF i <= Len(l) THEN l[i] ELSE o[i - Len(l)]
    BY ConcatProperties
  <2>3. \A i \in 1..Len(l) : (l \o o)[i] = l[i]
    BY <2>2
  <2>4. Rest' = l \o o
    BY <2>1 DEF Rest
  <2> QED
    BY <2>1, <2>2, <2>3, <2>4
<1>2. /\ Len(Line) \in Nat /\ seen \in Nat /\ match \in 0..2
      /\ \A i \in 1..Len(Line) : Rest[i] = Line[i]
  BY LineType, RestType DEF TypeInv, HostType
<1>3. \A i \in 1..Len(Line) : (Rest')[i] = Rest[i]
  BY <1>1, <1>2
<1>4. CASE match = 0 /\ Rest[seen + 1] = O /\ Rest[seen + 2] = K
  <2>1. seen + 1 \in 1..Len(Line) /\ seen + 2 \in 1..Len(Line)
    BY <1>2, <1>4
  <2> QED
    BY <1>1, <1>2, <1>3, <1>4, <2>1 DEF OkAhead
<1>5. CASE match = 1 /\ Rest[seen + 1] = K
  <2>1. seen + 1 \in 1..Len(Line)
    BY <1>2, <1>5
  <2> QED
    BY <1>1, <1>2, <1>3, <1>5, <2>1 DEF OkAhead
<1> QED
  BY <1>4, <1>5 DEF OkComing, OkAhead

\* write_byte while the host waits for "OK".
LEMMA OkWrite ==
    ASSUME TypeInv, LoaderInv, OkComing, out' \in Seq(Char), WriteByte, UNCHANGED host
    PROVE  OkComing'
<1>1. PICK c \in Char :
          /\ Line' = Append(Line, c)
          /\ \/ c = CR /\ Head(out) = LF /\ out' = out
             \/ c = Head(out) /\ out' = Tail(out)
  BY LineWrite
<1>2. /\ out # <<>> /\ pc' = pc
      /\ UNCHANGED <<got, size, image, rxFifo, seen, match, file>>
  BY LineWrite DEF WriteByte, WriteDR, host
<1>3. /\ Line \in Seq(Char) /\ Len(Line) \in Nat /\ out \in Seq(Char) /\ seen \in Nat
      /\ match \in 0..2 /\ seen <= Len(Line)
  BY LineType DEF TypeInv, BoardType, HostType
<1>4. /\ Line' \in Seq(Char) /\ Len(Line') = Len(Line) + 1
      /\ \A i \in 1..Len(Line) : (Line')[i] = Line[i]
  BY <1>1, <1>3, AppendProperties
<1>5. CASE pc = "ok"
  <2>1. Len(out) \in Nat \ {0} /\ Head(out) = out[1]
    BY <1>2, <1>3
  <2>2. /\ Len(Rest) = Len(Line) + Len(out) /\ Rest[Len(Line) + 1] = Head(out)
        /\ Len(Rest) = seen + 2 - match
    <3>1. 1 \in 1..Len(out)
      BY <2>1
    <3>2. Len(Rest) = Len(Line) + Len(out) /\ Rest[Len(Line) + 1] = out[1]
      BY <3>1, RestType
    <3>3. Len(Rest) = seen + 2 - match
      BY <1>5 DEF OkComing
    <3> QED
      BY <2>1, <3>2, <3>3
  <2>3. Len(Line) + 1 \in {seen + 1, seen + 2} /\ (match = 1 => Len(Line) = seen)
        /\ match \in {0, 1}
    BY <1>3, <2>1, <2>2 DEF OkComing, OkAhead
  <2>4. Head(out) \in {O, K}
    BY <1>3, <2>2, <2>3 DEF OkComing, OkAhead
  <2>5. O # LF /\ K # LF
    BY ChainloaderAssumption
  <2>6. Line' = Append(Line, Head(out)) /\ out' = Tail(out)
    BY <1>1, <2>4, <2>5
  <2>7. Rest' = Rest
    BY <1>2, <1>3, <2>6, Move DEF Rest
  <2>8. OkAhead'
    BY <1>2, <2>7 DEF OkComing, OkAhead
  <2> QED
    BY <1>2, <1>5, <2>7, <2>8 DEF OkComing
<1>6. CASE pc # "ok"
  <2>1. Len(Line) >= seen + 2 - match
    BY <1>6 DEF OkComing
  <2>2. Len(Line') >= Len(Line) /\ UNCHANGED <<seen, match>>
    BY <1>2, <1>3, <1>4
  <2>3. OkAhead'
    BY <1>4, <2>1, <2>2, OkKept
  <2>4. Len(Line') >= seen' + 2 - match'
    BY <1>2, <1>3, <1>4, <2>1
  <2> QED
    BY <1>2, <1>6, <2>3, <2>4 DEF OkComing
<1> QED
  BY <1>5, <1>6

\* The host takes the first characters it reads for "OK", and they are.
LEMMA OkStep ==
    ASSUME TypeInv, LoaderInv, OkComing, hpc = "wait_ok", hsent = 0, ~torn', [Next]_vars
    PROVE  \/ hpc' = "wait_ok" /\ hsent' = 0 /\ OkComing'
           \/ hpc' = "file" /\ Sending'
<1>1. /\ pc \in {"ok", "payload", "loaded", "flush", "kernel"} /\ rxFifo = <<>>
      /\ image = <<>> /\ Len(image) = 0 /\ hpc = "wait_ok" /\ hsent = 0
      /\ TypeInv /\ LoaderInv /\ OkComing /\ out' \in Seq(Char)
  BY BoardTypeStep DEF OkComing, BoardType
<1>2. Line \in Seq(Char) /\ Len(Line) \in Nat
  BY LineType
<1>3. WireGrows /\ (Line' = Line \/ WriteByte \/ Reset)
  BY LineStep
<1>11. CASE InitFlush /\ UNCHANGED <<host, env>>
  BY <1>1, <1>11 DEF InitFlush, RXFE
<1>12. CASE InitOff /\ UNCHANGED <<host, env>>
  BY <1>1, <1>12 DEF InitOff, RXFE
<1>13. CASE InitOn /\ UNCHANGED <<host, env>>
  BY <1>1, <1>13 DEF InitOn, RXFE
<1>14. CASE WriteByte /\ UNCHANGED <<host, env>>
  BY <1>1, <1>14, OkWrite DEF host
<1>15. CASE BannerDone /\ UNCHANGED <<host, env>>
  BY <1>1, <1>15 DEF BannerDone, RXFE
<1>16. CASE ClearRx /\ UNCHANGED <<host, env>>
  BY <1>1, <1>16 DEF ClearRx, RXFE
<1>17. CASE RequestDone /\ UNCHANGED <<host, env>>
  BY <1>1, <1>17 DEF RequestDone, RXFE
<1>18. CASE ReadSize /\ UNCHANGED <<host, env>>
  BY <1>1, <1>18 DEF ReadSize, RXFE
<1>19. CASE OkDone /\ UNCHANGED <<host, env>>
  <2>1. /\ pc = "ok" /\ pc' = "payload" /\ Line' = Line /\ UNCHANGED <<got, size, image, rxFifo>>
        /\ UNCHANGED <<seen, match, hpc, hsent, file>>
    BY <1>19 DEF OkDone, Line, uart, host
  <2>2. Len(Line) >= seen + 2 - match
    BY <1>1, <1>19, <2>1, RestType DEF OkDone, OkComing
  <2>3. OkAhead'
    BY <1>1, <1>2, <2>1, <2>2, OkKept
  <2>4. got = 4
    BY <1>1, <1>19, <2>1 DEF OkDone, OkComing
  <2> QED
    BY <1>1, <2>1, <2>2, <2>3, <2>4 DEF OkComing
<1>20. CASE ReadPayload /\ UNCHANGED <<host, env>>
  BY <1>1, <1>20 DEF ReadPayload, RXFE
<1>21. CASE PayloadDone /\ UNCHANGED <<host, env>>
  <2>1. /\ pc = "payload" /\ pc' = "loaded" /\ Line' = Line /\ UNCHANGED <<got, size, image, rxFifo>>
        /\ UNCHANGED <<seen, match, hpc, hsent, file>>
    BY <1>21 DEF PayloadDone, Line, uart, host
  <2>2. Len(Line) >= seen + 2 - match
    BY <1>1, <1>21, <2>1, RestType DEF PayloadDone, OkComing
  <2>3. OkAhead'
    BY <1>1, <1>2, <2>1, <2>2, OkKept
  <2>4. size = 0
    BY <1>1, <1>21, <2>1 DEF PayloadDone, OkComing
  <2> QED
    BY <1>1, <2>1, <2>2, <2>3, <2>4 DEF OkComing
<1>22. CASE LoadedDone /\ UNCHANGED <<host, env>>
  <2>1. /\ pc = "loaded" /\ pc' = "flush" /\ Line' = Line /\ UNCHANGED <<got, size, image, rxFifo>>
        /\ UNCHANGED <<seen, match, hpc, hsent, file>>
    BY <1>22 DEF LoadedDone, Line, uart, host
  <2>2. Len(Line) >= seen + 2 - match
    BY <1>1, <1>22, <2>1, RestType DEF LoadedDone, OkComing
  <2>3. OkAhead'
    BY <1>1, <1>2, <2>1, <2>2, OkKept
  <2>4. size = 0
    BY <1>1, <1>22, <2>1 DEF LoadedDone, OkComing
  <2> QED
    BY <1>1, <2>1, <2>2, <2>3, <2>4 DEF OkComing
<1>23. CASE EnterKernel /\ UNCHANGED <<host, env>>
  <2>1. /\ pc = "flush" /\ pc' = "kernel" /\ Line' = Line /\ UNCHANGED <<got, size, image, rxFifo>>
        /\ UNCHANGED <<seen, match, hpc, hsent, file>>
    BY <1>23 DEF EnterKernel, Line, uart, host
  <2>2. Len(Line) >= seen + 2 - match
    BY <1>1, <1>23, <2>1, RestType DEF EnterKernel, OkComing
  <2>3. OkAhead'
    BY <1>1, <1>2, <2>1, <2>2, OkKept
  <2>4. size = 0
    BY <1>1, <1>23, <2>1 DEF EnterKernel, OkComing
  <2> QED
    BY <1>1, <2>1, <2>2, <2>3, <2>4 DEF OkComing
<1>24. CASE TransmitByte
  <2>1. Line' = Line /\ UNCHANGED <<pc, out, got, size, image, rxFifo, seen, match, hpc, hsent, file>>
    BY <1>24, <1>3 DEF TransmitByte, Transmit, WriteByte, Reset, loader, host, env
  <2>2. Rest' = Rest
    BY <2>1 DEF Rest
  <2> QED
    BY <1>1, <2>1, <2>2 DEF OkComing, OkAhead
<1>25. CASE HostWaitRequest /\ UNCHANGED <<loader, env>>
  BY <1>1, <1>25 DEF HostWaitRequest
<1>26. CASE HostSendSize /\ UNCHANGED <<loader, env>>
  BY <1>1, <1>26 DEF HostSendSize
<1>27. CASE HostWaitOk /\ UNCHANGED <<loader, env>>
  <2>1. /\ seen < Len(wire) /\ seen' = seen + 1 /\ hsent' = hsent
        /\ UNCHANGED <<pc, out, got, size, image, rxFifo, file>>
        /\ Line' = Line /\ Rest' = Rest
    BY <1>27 DEF HostWaitOk, loader, uart, Line, Rest
  <2>2. wire[seen + 1] = Rest[seen + 1]
    <3>1. seen \in Nat
      BY <1>1 DEF TypeInv, HostType
    <3>2. /\ Len(Line) = Len(wire) + Len(txFifo) /\ Len(txFifo) \in Nat /\ Len(wire) \in Nat
          /\ \A i \in 1..Len(wire) : Line[i] = wire[i]
      BY ONLY <1>1, LineType
    <3>3. \A i \in 1..Len(Line) : Rest[i] = Line[i]
      BY ONLY <1>1, RestType
    <3>4. seen + 1 \in 1..Len(wire) /\ seen + 1 \in 1..Len(Line)
      BY ONLY <2>1, <3>1, <3>2
    <3> QED
      BY ONLY <3>2, <3>3, <3>4
  <2>3. Len(Rest) \in Nat /\ Len(Line) \in Nat /\ seen \in Nat
    BY <1>1, RestType, LineType DEF TypeInv, HostType
  <2>4. CASE match = 0 /\ Rest[seen + 1] = O /\ Rest[seen + 2] = K
    <3>1. match' = 1 /\ hpc' = hpc
      BY <1>27, <2>2, <2>4 DEF HostWaitOk
    <3>2. (seen + 1) + 1 = seen + 2
      BY <2>3
    <3>3. OkAhead'
      BY <1>1, <2>1, <2>3, <2>4, <3>1, <3>2 DEF OkComing, OkAhead
    <3>4. seen' + 2 - match' = seen + 2 - match
      BY <2>1, <2>3, <2>4, <3>1
    <3> QED
      BY <1>1, <2>1, <3>1, <3>3, <3>4 DEF OkComing
  <2>5. CASE match = 1 /\ Rest[seen + 1] = K
    <3>1. hpc' = "file"
      BY <1>27, <2>2, <2>5 DEF HostWaitOk
    <3>2. file \in Seq(Byte) /\ Len(file) \in Nat
      BY <1>1, ConstantTypes DEF TypeInv, HostType
    <3>3. /\ image' = <<>> /\ rxFifo' = <<>> /\ hsent' = 0 /\ got' = 4 /\ size' = Len(file)
          /\ file' = file /\ pc' = pc
      BY <1>1, <2>1 DEF OkComing
    <3>4. <<>> \o <<>> = <<>> /\ SubSeq(file, 1, 0) = <<>> /\ Len(<<>>) = 0
      OBVIOUS
    <3>5. Sending'
      BY <1>1, <3>2, <3>3, <3>4 DEF Sending, OkComing
    <3> QED
      BY <3>1, <3>5
  <2> QED
    BY <1>1, <2>4, <2>5 DEF OkComing, OkAhead
<1>28. CASE HostSendFile /\ UNCHANGED <<loader, env>>
  BY <1>1, <1>28 DEF HostSendFile
<1>29. CASE HostDone /\ UNCHANGED <<loader, env>>
  BY <1>1, <1>29 DEF HostDone
<1>30. CASE Noise
  BY <1>1, <1>30 DEF Noise, RXFE
<1>31. CASE Reset
  BY <1>1, <1>31 DEF Reset, Requested
<1>32. CASE UNCHANGED vars
  <2>1. Line' = Line /\ UNCHANGED <<pc, out, got, size, image, rxFifo, seen, match, hpc, hsent, file>>
    BY <1>32 DEF vars, loader, host, uart, Line
  <2>2. Rest' = Rest
    BY <2>1 DEF Rest
  <2> QED
    BY <1>1, <2>1, <2>2 DEF OkComing, OkAhead
<1> QED
  BY <1>11, <1>12, <1>13, <1>14, <1>15, <1>16, <1>17, <1>18, <1>19, <1>20, <1>21, <1>22, <1>23, <1>24, <1>25, <1>26, <1>27, <1>28, <1>29, <1>30, <1>31, <1>32 DEF Next, Board, Host

\* The whole size is sent: the board reads it, and answers.
LEMMA SizeSentStep ==
    ASSUME TypeInv, LoaderInv, Asked, got + Len(rxFifo) = 4, hpc = "wait_ok",
           hsent = 0, ~torn', [Next]_vars
    PROVE  /\ hpc' = "wait_ok" /\ hsent' = 0
           /\ \/ Asked' /\ got' + Len(rxFifo') = 4
              \/ OkComing'
<1>1. /\ pc \in {"request", "size"} /\ out = <<>> /\ txFifo = <<>> /\ hpc = "wait_ok"
      /\ TypeInv /\ LoaderInv /\ Asked /\ got + Len(rxFifo) = 4 /\ hsent = 0
  BY DEF Asked, AllAsked
<1>11. CASE InitFlush /\ UNCHANGED <<host, env>>
  BY <1>1, <1>11 DEF InitFlush
<1>12. CASE InitOff /\ UNCHANGED <<host, env>>
  BY <1>1, <1>12 DEF InitOff
<1>13. CASE InitOn /\ UNCHANGED <<host, env>>
  BY <1>1, <1>13 DEF InitOn
<1>14. CASE WriteByte /\ UNCHANGED <<host, env>>
  BY <1>1, <1>14 DEF WriteByte
<1>15. CASE BannerDone /\ UNCHANGED <<host, env>>
  BY <1>1, <1>15 DEF BannerDone
<1>16. CASE ClearRx /\ UNCHANGED <<host, env>>
  BY <1>1, <1>16 DEF ClearRx
<1>17. CASE RequestDone /\ UNCHANGED <<host, env>>
  BY <1>1, <1>17 DEF RequestDone, Asked, AllAsked, SizeOnLine, Partial, Digit, Weight, uart, host
<1>18. CASE ReadSize /\ UNCHANGED <<host, env>>
  <2>1. /\ got \in 0..3 /\ got' = got + 1 /\ Len(rxFifo') = Len(rxFifo) - 1
        /\ Len(rxFifo) \in Nat \ {0}
        /\ got # 3 => Asked'
        /\ got = 3 => size' = Len(file)
    BY <1>1, <1>18, AskedRead
  <2>2. CASE got # 3
    BY <1>1, <1>18, <2>1, <2>2 DEF host
  <2>3. CASE got = 3
    BY <1>1, <1>18, <2>1, <2>3, FirstAnswer DEF host
  <2> QED
    BY <2>2, <2>3
<1>19. CASE OkDone /\ UNCHANGED <<host, env>>
  BY <1>1, <1>19 DEF OkDone
<1>20. CASE ReadPayload /\ UNCHANGED <<host, env>>
  BY <1>1, <1>20 DEF ReadPayload
<1>21. CASE PayloadDone /\ UNCHANGED <<host, env>>
  BY <1>1, <1>21 DEF PayloadDone
<1>22. CASE LoadedDone /\ UNCHANGED <<host, env>>
  BY <1>1, <1>22 DEF LoadedDone
<1>23. CASE EnterKernel /\ UNCHANGED <<host, env>>
  BY <1>1, <1>23 DEF EnterKernel
<1>24. CASE TransmitByte
  BY <1>1, <1>24 DEF TransmitByte, Transmit, BUSY
<1>25. CASE HostWaitRequest /\ UNCHANGED <<loader, env>>
  BY <1>1, <1>25 DEF HostWaitRequest
<1>26. CASE HostSendSize /\ UNCHANGED <<loader, env>>
  BY <1>1, <1>26 DEF HostSendSize
<1>27. CASE HostWaitOk /\ UNCHANGED <<loader, env>>
  <2>1. seen < Len(wire) /\ Len(wire) \in Nat /\ seen = Len(wire)
    BY <1>1, <1>27, LineType DEF HostWaitOk, Asked
  <2> QED
    BY <2>1
<1>28. CASE HostSendFile /\ UNCHANGED <<loader, env>>
  BY <1>1, <1>28 DEF HostSendFile
<1>29. CASE HostDone /\ UNCHANGED <<loader, env>>
  BY <1>1, <1>29 DEF HostDone
<1>30. CASE Noise
  BY <1>1, <1>30 DEF Noise
<1>31. CASE Reset
  BY <1>1, <1>31 DEF Reset, Requested
<1>32. CASE UNCHANGED vars
  BY <1>1, <1>32 DEF vars, loader, Asked, AllAsked, SizeOnLine, Partial, Digit, Weight, uart, host
<1> QED
  BY <1>11, <1>12, <1>13, <1>14, <1>15, <1>16, <1>17, <1>18, <1>19, <1>20, <1>21, <1>22, <1>23, <1>24, <1>25, <1>26, <1>27, <1>28, <1>29, <1>30, <1>31, <1>32 DEF Next, Board, Host

-----------------------------------------------------------------------------
(* The file on the line.                                                   *)

\* A prefix with one element more.
LEMMA PrefixAppend ==
    ASSUME NEW S, NEW s \in Seq(S), NEW n \in Nat, n < Len(s)
    PROVE  SubSeq(s, 1, n + 1) = Append(SubSeq(s, 1, n), s[n + 1])
<1>1. /\ \A i \in 1..n+1 : s[i] \in S
      /\ s[n + 1] \in S /\ n + 1 \in 1..Len(s)
  OBVIOUS
<1>2. /\ SubSeq(s, 1, n) \in Seq(S) /\ s[n + 1] \in S
  BY <1>1, SubSeqProperties
<1>3. SubSeq(s, 1, n + 1) = SubSeq(s, 1, n + 1 - 1) \o <<s[n + 1]>>
  BY <1>1, SubSeqRecursiveSecond
<1>4. n + 1 - 1 = n
  OBVIOUS
<1>5. Append(SubSeq(s, 1, n), s[n + 1]) = SubSeq(s, 1, n) \o <<s[n + 1]>>
  BY <1>2, AppendIsConcat
<1> QED
  BY <1>3, <1>4, <1>5

\* The file passes through the FIFO byte by byte, in order, until the board has
\* as many as the size says.
LEMMA SendingStep ==
    ASSUME TypeInv, LoaderInv, Sending, hpc \in {"file", "terminal"},
           hpc = "terminal" => hsent = Len(file), ~torn, ~torn', [Next]_vars
    PROVE  /\ Sending' /\ hpc' \in {"file", "terminal"}
           /\ hpc' = "terminal" => hsent' = Len(file')
<1>1. /\ pc \in {"ok", "payload", "overwritten", "loaded", "flush", "kernel"}
      /\ hpc \in {"file", "terminal"} /\ ~torn /\ ~torn'
      /\ (hpc = "terminal" => hsent = Len(file))
      /\ TypeInv /\ LoaderInv /\ Sending
  BY DEF Sending
<1>2. /\ image \in Seq(Byte) /\ rxFifo \in Seq(Byte) /\ file \in Seq(Byte)
      /\ hsent \in Nat /\ Len(file) \in Nat
  BY ConstantTypes DEF TypeInv, UartType, BoardType, HostType
<1>11. CASE InitFlush /\ UNCHANGED <<host, env>>
  BY <1>1, <1>11 DEF InitFlush
<1>12. CASE InitOff /\ UNCHANGED <<host, env>>
  BY <1>1, <1>12 DEF InitOff
<1>13. CASE InitOn /\ UNCHANGED <<host, env>>
  BY <1>1, <1>13 DEF InitOn
<1>14. CASE WriteByte /\ UNCHANGED <<host, env>>
  BY <1>1, <1>14 DEF Sending, LoaderInv, host, WriteByte, WriteDR
<1>15. CASE BannerDone /\ UNCHANGED <<host, env>>
  BY <1>1, <1>15 DEF BannerDone
<1>16. CASE ClearRx /\ UNCHANGED <<host, env>>
  BY <1>1, <1>16 DEF ClearRx
<1>17. CASE RequestDone /\ UNCHANGED <<host, env>>
  BY <1>1, <1>17 DEF RequestDone
<1>18. CASE ReadSize /\ UNCHANGED <<host, env>>
  BY <1>1, <1>18 DEF ReadSize
<1>19. CASE OkDone /\ UNCHANGED <<host, env>>
  BY <1>1, <1>19 DEF Sending, LoaderInv, host, OkDone, uart
<1>20. CASE ReadPayload /\ UNCHANGED <<host, env>>
  <2>1. /\ pc = "payload" /\ rxFifo # <<>> /\ rxFifo' = Tail(rxFifo)
        /\ UNCHANGED <<got, size, hpc, hsent, file>>
        /\ \/ image' = Append(image, Head(rxFifo)) /\ pc' = "payload"
           \/ pc' = "overwritten"
    BY <1>20 DEF ReadPayload, RXFE, ReadDR, host
  <2>2. CASE pc' = "payload"
    <3>1. image' \o rxFifo' = image \o rxFifo
      BY <1>2, <2>1, <2>2, Move
    <3> QED
      BY <1>1, <2>1, <2>2, <3>1 DEF Sending
  <2>3. CASE pc' = "overwritten"
    BY <1>1, <2>1, <2>3 DEF Sending
  <2> QED
    BY <2>1, <2>2, <2>3
<1>21. CASE PayloadDone /\ UNCHANGED <<host, env>>
  BY <1>1, <1>21 DEF Sending, LoaderInv, host, PayloadDone, uart
<1>22. CASE LoadedDone /\ UNCHANGED <<host, env>>
  BY <1>1, <1>22 DEF Sending, LoaderInv, host, LoadedDone, uart
<1>23. CASE EnterKernel /\ UNCHANGED <<host, env>>
  BY <1>1, <1>23 DEF Sending, LoaderInv, host, EnterKernel, uart
<1>24. CASE TransmitByte
  BY <1>1, <1>24 DEF Sending, LoaderInv, host, TransmitByte, Transmit, loader
<1>25. CASE HostWaitRequest /\ UNCHANGED <<loader, env>>
  BY <1>1, <1>25 DEF HostWaitRequest
<1>26. CASE HostSendSize /\ UNCHANGED <<loader, env>>
  BY <1>1, <1>26 DEF HostSendSize
<1>27. CASE HostWaitOk /\ UNCHANGED <<loader, env>>
  BY <1>1, <1>27 DEF HostWaitOk
<1>28. CASE HostSendFile /\ UNCHANGED <<loader, env>>
  <2>1. /\ hpc = "file" /\ hsent < Len(file) /\ Accepts /\ Receive(file[hsent + 1])
        /\ hsent' = hsent + 1 /\ UNCHANGED <<file, hpc, pc, image, got, size>>
    BY <1>1, <1>28 DEF HostSendFile, loader
  <2>2. rxFifo' = Append(rxFifo, file[hsent + 1])
    BY <2>1 DEF Receive
  <2>3. file[hsent + 1] \in Byte /\ hsent + 1 <= Len(file)
    BY <1>2, <2>1
  <2>4. SubSeq(file, 1, hsent + 1) = Append(SubSeq(file, 1, hsent), file[hsent + 1])
    BY <1>2, <2>1, PrefixAppend
  <2>5. image \o Append(rxFifo, file[hsent + 1]) = Append(image \o rxFifo, file[hsent + 1])
    BY <1>2, <2>3, Join
  <2>6. pc # "overwritten" => image' \o rxFifo' = SubSeq(file', 1, hsent')
    BY <1>1, <2>1, <2>2, <2>4, <2>5 DEF Sending
  <2> QED
    BY <1>1, <2>1, <2>3, <2>6 DEF Sending
<1>29. CASE HostDone /\ UNCHANGED <<loader, env>>
  BY <1>1, <1>29 DEF Sending, LoaderInv, host, HostDone, uart, loader
<1>30. CASE Noise
  BY <1>1, <1>30 DEF Noise
<1>31. CASE Reset
  BY <1>1, <1>31 DEF Reset, Requested
<1>32. CASE UNCHANGED vars
  BY <1>1, <1>32 DEF Sending, LoaderInv, host, vars, uart, loader
<1> QED
  BY <1>11, <1>12, <1>13, <1>14, <1>15, <1>16, <1>17, <1>18, <1>19, <1>20, <1>21, <1>22, <1>23, <1>24, <1>25, <1>26, <1>27, <1>28, <1>29, <1>30, <1>31, <1>32 DEF Next, Board, Host

-----------------------------------------------------------------------------
(* The inductive invariant.                                                *)

\* The inductive invariant.
IInv == TypeInv /\ LoaderInv /\ StreamInv /\ Phases

\* Every step keeps the board and the host in step.
LEMMA PhasesStep ==
    ASSUME TypeInv, LoaderInv, Phases, [Next]_vars
    PROVE  Phases'
<1> SUFFICES ASSUME ~torn'
             PROVE  Phases'
  BY DEF Phases
<1>1. ~torn
  <2>1. torn' \in {torn, torn \/ Requested}
    BY DEF Next, Board, TransmitByte, Host, Noise, Reset, env, vars
  <2> QED
    BY <2>1 DEF TypeInv, HistoryType
<1>2. CASE hpc = "wait_request"
  BY <1>1, <1>2, BeforeStep DEF Phases
<1>3. CASE hpc = "size"
  BY <1>1, <1>3, AskedStep DEF Phases, Answered
<1>4. CASE hpc = "wait_ok" /\ Asked /\ got + Len(rxFifo) = 4
  BY <1>1, <1>4, SizeSentStep DEF Phases, Answered
<1>5. CASE hpc = "wait_ok" /\ OkComing
  <2>1. hsent = 0
    BY <1>1, <1>5 DEF Phases, Answered
  <2> QED
    BY <1>5, <2>1, OkStep DEF Phases, Answered
<1>6. CASE hpc \in {"file", "terminal"}
  BY <1>1, <1>6, SendingStep DEF Phases
<1> QED
  BY <1>1, <1>2, <1>3, <1>4, <1>5, <1>6 DEF Phases, Answered, TypeInv, HostType

\* The invariant holds when the board is switched on, with whatever the UART
\* was left with.
LEMMA InitHolds == Init => IInv
<1> SUFFICES ASSUME Init PROVE IInv
  OBVIOUS
<1>1. /\ txFifo \in Seq(Text) /\ txFifo \in Seq(Char) /\ file \in Files
  BY ConstantTypes, ChainloaderAssumption DEF Init
<1>2. RxDepth \in Nat
  BY Pl011Assumption
<1>3. TypeInv
  <2>1. UartType
    BY <1>1, <1>2 DEF Init, UartType
  <2>2. BoardType
    BY DEF Init, BoardType
  <2>3. HostType
    BY <1>1 DEF Init, HostType
  <2>4. HistoryType
    <3>1. epoch[1] = 0 /\ epoch[2] = 0 /\ epoch \in Nat \X Nat
      BY DEF Init
    <3>2. Len(written) \in Nat /\ Len(wire) \in Nat
      BY <1>1 DEF Init
    <3>3. resets \in Nat /\ torn \in BOOLEAN
      BY DEF Init
    <3> QED
      BY <3>1, <3>2, <3>3 DEF HistoryType
  <2> QED
    BY <2>1, <2>2, <2>3, <2>4 DEF TypeInv
<1>4. LoaderInv
  BY DEF Init, LoaderInv, Starting
<1>5. Line = txFifo
  BY <1>1, ConcatEmptySeq DEF Init, Line
<1>6. StreamInv
  <2>1. Sent = txFifo
    BY <1>1, SubSeqFull DEF Init, Sent
  <2>2. Delivered = <<>>
    BY SubSeqEmpty DEF Init, Delivered
  <2> QED
    BY <1>1, <2>1, <2>2, ConcatEmptySeq DEF StreamInv
<1>7. OneRequest
  <2>1. ASSUME NEW i \in 1..Len(Line)-2, Triple(Line, i) PROVE FALSE
    <3>1. txFifo[i] \in Text /\ i \in i..i+2
      BY <1>1, <1>5
    <3>2. txFifo[i] = ETX
      BY <1>5, <2>1, <3>1 DEF Triple
    <3> QED
      BY <3>1, <3>2, ChainloaderAssumption
  <2> QED
    BY <2>1 DEF OneRequest
<1>8. Phases
  BY <1>7 DEF Init, Phases, Before, Matched, Led, Starting
<1> QED
  BY <1>3, <1>4, <1>6, <1>8 DEF IInv

\* Every step keeps the invariant.
LEMMA IInvInductive == IInv /\ [Next]_vars => IInv'
<1> SUFFICES ASSUME IInv, [Next]_vars PROVE IInv'
  OBVIOUS
<1>1. TypeInv /\ LoaderInv /\ StreamInv /\ Phases
  BY DEF IInv
<1>2. TypeInv'
  BY <1>1, UartTypeStep, BoardTypeStep, HostTypeStep, HistoryTypeStep DEF TypeInv
<1>3. LoaderInv' /\ StreamInv' /\ Phases'
  BY <1>1, LoaderStep, StreamInvStep, PhasesStep
<1> QED
  BY <1>2, <1>3 DEF IInv

\* The invariant holds in every behaviour.
LEMMA Invariance == Spec => []IInv
<1>1. Init => IInv
  BY InitHolds
<1>2. IInv /\ [Next]_vars => IInv'
  BY IInvInductive
<1> QED
  BY <1>1, <1>2, PTL DEF Spec

-----------------------------------------------------------------------------

\* The state of the loader, the UART and the host has its type, and run has at
\* each of its steps what it assumes there: among others that the UART is on
\* before the first character and drained before it is switched.
THEOREM ChainloaderTypes == Spec => [](TypeInv /\ LoaderInv)
<1>1. IInv => TypeInv /\ LoaderInv
  BY DEF IInv
<1> QED
  BY <1>1, Invariance, PTL

\* For every file, every banner and every amount of noise, the host answers only
\* a request the board made behind clear_rx, the file starts only when the size
\* is read, and the host always gets its "OK" - unless the board is reset under
\* the upload.
THEOREM NeitherGetsAhead == Spec => []HandshakeInStep
<1>1. IInv => HandshakeInStep
  <2> SUFFICES ASSUME IInv, ~torn PROVE HandshakeInStep
    BY DEF HandshakeInStep
  <2>1. Phases /\ hpc \in {"wait_request", "size", "wait_ok", "file", "terminal", "failed"}
    BY DEF IInv, TypeInv, HostType
  <2> QED
    BY <2>1 DEF Phases, HandshakeInStep, Asked, AllAsked, Answered, OkComing, Sending
<1> QED
  BY <1>1, Invariance, PTL

\* Every byte of the size and of the file that the host sent is in the FIFO or
\* taken, once and in its place, unless the board is reset under the upload: the
\* receive loop of run drops none.
THEOREM NoByteDropped == Spec => []NothingInBetween
<1>1. IInv => NothingInBetween
  BY DEF IInv, Phases, Sending, NothingInBetween
<1> QED
  BY <1>1, Invariance, PTL

\* The kernel that run jumps to is the file, byte for byte, unless the board was
\* reset under the upload; the UART is idle by then, and without a reset all that
\* was written has arrived.
THEOREM KernelIsTheFile == Spec => []PayloadIntact
<1>1. IInv => PayloadIntact
  <2> SUFFICES ASSUME IInv, pc = "kernel" PROVE PayloadIntact
    BY DEF PayloadIntact
  <2>1. TypeInv /\ LoaderInv /\ StreamInv /\ Phases
    BY DEF IInv
  <2>2. txFifo = <<>>
    BY <2>1 DEF LoaderInv
  <2>3. ASSUME resets = 0 PROVE wire = written
    <3>1. epoch[1] = 0 /\ epoch[2] = 0
      BY <2>1, <2>3 DEF LoaderInv
    <3>2. Sent = written /\ Delivered = wire /\ wire \in Seq(Char)
      BY <2>1, <3>1, StreamType, SubSeqFull DEF Sent, Delivered
    <3>3. wire \o <<>> = wire
      BY <3>2, ConcatEmptySeq
    <3> QED
      BY <2>1, <2>2, <3>2, <3>3 DEF StreamInv
  <2>4. ASSUME ~torn PROVE image = file /\ rxFifo = <<>>
    <3>1. /\ file \in Seq(Byte) /\ image \in Seq(Byte) /\ rxFifo \in Seq(Byte)
          /\ Len(file) \in Nat /\ Len(image) \in Nat /\ Len(rxFifo) \in Nat
          /\ hsent \in Nat
      <4>1. file \in Files /\ hsent \in Nat /\ image \in Seq(Byte) /\ rxFifo \in Seq(Byte)
        BY <2>1 DEF TypeInv, UartType, BoardType, HostType
      <4>2. file \in Seq(Byte) /\ Len(file) \in Nat
        BY <4>1, ConstantTypes
      <4> QED
        BY <4>1, <4>2
    <3>2. CASE hpc = "wait_ok"
      <4>1. size = 0 /\ size = Len(file) /\ image = <<>> /\ rxFifo = <<>>
        BY <2>1, <2>4, <3>2 DEF Phases, Answered, OkComing, Asked, AllAsked
      <4>2. file = <<>>
        BY <3>1, <4>1
      <4> QED
        BY <4>1, <4>2
    <3>3. CASE hpc \in {"file", "terminal"}
      <4>1. /\ Len(image) = Len(file) /\ hsent <= Len(file)
            /\ image \o rxFifo = SubSeq(file, 1, hsent)
        BY <2>1, <2>4, <3>3 DEF Phases, Sending
      <4>2. Len(image) + Len(rxFifo) = hsent
        <5>1. Len(image \o rxFifo) = Len(image) + Len(rxFifo)
          BY <3>1, ConcatProperties
        <5>2. Len(SubSeq(file, 1, hsent)) = hsent
          BY <3>1, <4>1
        <5> QED
          BY <4>1, <5>1, <5>2
      <4>3. Len(rxFifo) = 0 /\ hsent = Len(file)
        BY <3>1, <4>1, <4>2
      <4>4. rxFifo = <<>>
        BY <3>1, <4>3
      <4>5. image \o rxFifo = image /\ SubSeq(file, 1, Len(file)) = file
        BY <3>1, <4>4, ConcatEmptySeq, SubSeqFull
      <4> QED
        BY <4>1, <4>3, <4>4, <4>5
    <3> QED
      BY <2>1, <2>4, <3>2, <3>3
      DEF Phases, Before, Starting, Asked, AllAsked, TypeInv, HostType
  <2> QED
    BY <2>2, <2>3, <2>4 DEF PayloadIntact, BUSY, RXFE
<1> QED
  BY <1>1, Invariance, PTL

\* write_byte, the transmit FIFO and the wire implement a reliable stream: every
\* step of the loader is a character sent, a character delivered in order, a
\* reset, or nothing the stream can see.
THEOREM OutputIsAStream == Spec => Stream!Safe
<1>1. Init => Stream!Init
  <2> SUFFICES ASSUME Init PROVE Stream!Init
    OBVIOUS
  <2>1. IInv
    BY InitHolds
  <2>2. Sent \in Seq(Char)
    BY <2>1, StreamType DEF IInv
  <2>3. Delivered = <<>>
    BY SubSeqEmpty DEF Init, Delivered
  <2> QED
    BY <2>2, <2>3 DEF Stream!Init, Sent, Delivered
<1>2. IInv /\ [Next]_vars => [Stream!Next]_(Stream!vars)
  BY StreamSteps DEF IInv
<1> QED
  BY <1>1, <1>2, Invariance, PTL DEF Spec, Stream!Safe

-----------------------------------------------------------------------------
(* The boot code of the chainloader.                                       *)

\* The labels a core may execute.
Labels == {"_start", "dt_copy", "core_check", "bss_init", "relocate",
           "_start_rust", "kernel", "parked", "derailed"}

\* What the registers hold, and the memory behind them.
Kinds == {"dt", "bin", "junk", "zero", "payload"}
Unit == Kinds \X Nat

\* Memory holds one unit at each address.
MemType == mem \in [Addr -> Unit]

\* The registers of the cores.
CoreType ==
    /\ cpc \in [Cores -> Labels]
    /\ x0 \in [Cores -> Nat] /\ x1 \in [Cores -> Nat] /\ x2 \in [Cores -> Nat]
    /\ filled \in 0..PayloadSize

\* What any core copies is never written.
SourceKept ==
    \A c \in Cores : \A i \in 0..DtExtent(c) :
        mem[DtPointer[c] + i] = FirmwareMem[DtPointer[c] + i]

\* The copy is made up to an address.
CopiedTo(x) ==
    \A i \in 0..DtSize-1 : DtStart + i < x => mem[DtStart + i] \in Candidates(i)

\* The registers of the copy loop of the device tree, on every core.
Copying(c) ==
    /\ cpc[c] = "_start" => x0[c] = DtPointer[c]
    /\ cpc[c] = "dt_copy" =>
         /\ x2[c] = DtStart + DtLength(c)
         /\ DtStart <= x1[c] /\ (x1[c] = DtStart \/ x1[c] < x2[c])
         /\ x0[c] + DtStart = x1[c] + DtPointer[c]
         /\ CopiedTo(x1[c])
    /\ cpc[c] \notin {"_start", "dt_copy", "derailed"} => CopiedTo(DtStart + DtLength(c))
    /\ c # BootCore =>
         cpc[c] \in {"_start", "dt_copy", "core_check", "parked", "derailed"}

\* The BSS is cleared, and the loader moved, up to an address.
Zeroed(x) == \A a \in BssStart..BssEnd-1 : a < x => mem[a] = <<"zero", 0>>
MovedTo(x) == \A i \in 0..BinarySize-1 : Link + i < x => mem[Link + i] = <<"bin", i>>

\* The boot core clears, relocates and jumps, in this order.
Booting ==
    LET l == cpc[BootCore] IN
    /\ l \notin {"parked", "derailed"}
    /\ l = "bss_init" =>
         /\ x1[BootCore] = BssEnd /\ BssStart <= x0[BootCore] /\ x0[BootCore] <= BssEnd
         /\ x0[BootCore] % 4 = 0 /\ Zeroed(x0[BootCore])
    /\ l = "relocate" =>
         /\ x2[BootCore] = Link + BinarySize
         /\ Link <= x1[BootCore] /\ x1[BootCore] < x2[BootCore]
         /\ x0[BootCore] + Link = x1[BootCore] + Load
         /\ (x2[BootCore] - x1[BootCore]) % 2 = 0
         /\ MovedTo(x1[BootCore]) /\ Zeroed(BssEnd)
    /\ l \in {"_start_rust", "kernel"} =>
         /\ x0[BootCore] = DtStart
         /\ MovedTo(Link + BinarySize) /\ Zeroed(BssEnd)
    /\ filled > 0 => l \in {"_start_rust", "kernel"}

\* The inductive invariant.
BootInv ==
    /\ MemType /\ CoreType /\ SourceKept /\ \A c \in Cores : Copying(c)
    /\ Booting /\ ExecutesIntactCode

\* The assumptions on the constants, one number at a time.
Layout ==
    /\ BootCore \in Cores /\ DtPointer \in [Cores -> Nat] /\ DtPointer[BootCore] = DtAt
    /\ MemSize \in Nat /\ Load \in Nat /\ Link \in Nat /\ BinarySize \in Nat
    /\ BssStart \in Nat /\ BssEnd \in Nat /\ Parking \in Nat /\ DtAt \in Nat
    /\ DtSize \in Nat /\ PayloadSize \in Nat
    /\ DtSize > 1 /\ 3 <= Parking /\ Parking < BinarySize
    /\ BinarySize % 2 = 0 /\ BssStart % 4 = 0 /\ BssEnd % 4 = 0
    /\ Load + BinarySize <= Link
    /\ Link + BinarySize <= BssStart /\ BssStart <= BssEnd
    /\ BssEnd + DtSize + 1 <= MemSize
    /\ DtAt + DtSize < Load \/ BssEnd + DtSize + 1 <= DtAt
    /\ DtAt + DtSize + 1 <= MemSize
    /\ Load + PayloadSize <= Link

\* Layout is what BootAssumption says.
LEMMA LayoutHolds == Layout
<1>1. /\ MemSize \in Nat /\ Load \in Nat /\ Link \in Nat /\ BinarySize \in Nat
      /\ BssStart \in Nat /\ BssEnd \in Nat /\ Parking \in Nat /\ DtAt \in Nat
      /\ DtSize \in Nat /\ PayloadSize \in Nat
  BY BootAssumption
<1>2. Parking \in 3..BinarySize-1
  BY BootAssumption
<1> QED
  BY <1>1, <1>2, BootAssumption DEF Layout

\* What the firmware leaves.
LEMMA Firmware ==
    ASSUME Layout
    PROVE  /\ FirmwareMem \in [Addr -> Unit]
           /\ \A i \in 0..BinarySize-1 : FirmwareMem[Load + i] = <<"bin", i>>
           /\ FirmwareMem[DtAt + 1] = <<"dt", DtSize>>
<1> DEFINE v(a) ==
        CASE a = DtAt + 1                                -> <<"dt", DtSize>>
          [] a \in DtAt..DtAt + DtSize - 1 /\ a # DtAt + 1 -> <<"dt", a - DtAt>>
          [] a \in Load..Load + BinarySize - 1           -> <<"bin", a - Load>>
          [] OTHER                                       -> <<"junk", a + 4>>
<1>1. FirmwareMem = [a \in Addr |-> v(a)]
  BY DEF FirmwareMem
<1>2. v(DtAt + 1) = <<"dt", DtSize>>
  BY DEF Layout
<1>3. ASSUME NEW a \in DtAt..DtAt + DtSize - 1, a # DtAt + 1
      PROVE  v(a) = <<"dt", a - DtAt>> /\ a - DtAt \in Nat
  BY <1>3 DEF Layout
<1>4. ASSUME NEW a \in Load..Load + BinarySize - 1
      PROVE  v(a) = <<"bin", a - Load>> /\ a - Load \in Nat
  BY DEF Layout
<1>5. ASSUME NEW a \in Addr, a # DtAt + 1, a \notin DtAt..DtAt + DtSize - 1,
             a \notin Load..Load + BinarySize - 1
      PROVE  v(a) = <<"junk", a + 4>> /\ a + 4 \in Nat
  BY <1>5 DEF Layout, Addr
<1> HIDE DEF v
<1>6. \A a \in Addr : v(a) \in Unit
  <2>1. DtSize \in Nat /\ {"dt", "bin", "junk"} \subseteq Kinds
    BY DEF Layout, Kinds
  <2> SUFFICES ASSUME NEW a \in Addr PROVE v(a) \in Kinds \X Nat
    BY DEF Unit
  <2>2. CASE a = DtAt + 1
    BY <1>2, <2>1, <2>2
  <2>3. CASE a # DtAt + 1 /\ a \in DtAt..DtAt + DtSize - 1
    BY <1>3, <2>1, <2>3
  <2>4. CASE a \in Load..Load + BinarySize - 1
    BY <1>4, <2>1, <2>4
  <2>5. CASE /\ a # DtAt + 1 /\ a \notin DtAt..DtAt + DtSize - 1
             /\ a \notin Load..Load + BinarySize - 1
    BY <1>5, <2>1, <2>5
  <2> QED
    BY <2>2, <2>3, <2>4, <2>5
<1>7. FirmwareMem \in [Addr -> Unit]
  BY <1>1, <1>6
<1>8. ASSUME NEW i \in 0..BinarySize-1 PROVE FirmwareMem[Load + i] = <<"bin", i>>
  <2>1. Load + i \in Addr /\ Load + i \in Load..Load + BinarySize - 1 /\ (Load + i) - Load = i
    BY DEF Layout, Addr
  <2> QED
    BY <1>1, <1>4, <2>1
<1>9. DtAt + 1 \in Addr
  BY DEF Layout, Addr
<1> QED
  BY <1>1, <1>2, <1>7, <1>8, <1>9

\* What a core copies as a device tree: what it reads is below the load address
\* or behind every copy, so that nobody writes it, and its copy ends in memory.
LEMMA CoreFits ==
    ASSUME Layout, NEW c \in Cores
    PROVE  /\ DtPointer[c] \in Nat /\ DtLength(c) \in Nat
           /\ DtExtent(c) \in Nat /\ 1 <= DtExtent(c) /\ DtLength(c) <= DtExtent(c)
           /\ BssEnd + DtExtent(c) < MemSize
           /\ \A i \in 0..DtExtent(c) :
                 /\ DtPointer[c] + i \in Addr
                 /\ \/ DtPointer[c] + i < Load
                    \/ \A d \in Cores : BssEnd + DtExtent(d) < DtPointer[c] + i
<1>1. /\ DtPointer[c] \in Nat /\ DtPointer[c] + 1 < MemSize
      /\ DtPointer[c] + DtExtent(c) < MemSize /\ BssEnd + DtExtent(c) < MemSize
      /\ \/ DtPointer[c] + DtExtent(c) < Load
         \/ \A d \in Cores : BssEnd + DtExtent(d) < DtPointer[c]
  BY BootAssumption
<1>2. \A d \in Cores : DtLength(d) \in Nat
  <2> SUFFICES ASSUME NEW d \in Cores PROVE DtLength(d) \in Nat
    OBVIOUS
  <2>1. DtPointer[d] + 1 \in Addr
    <3>1. DtPointer[d] \in Nat /\ DtPointer[d] + 1 < MemSize
      BY BootAssumption
    <3> QED
      BY <3>1 DEF Addr, Layout
  <2>2. FirmwareMem[DtPointer[d] + 1] \in Kinds \X Nat
    BY <2>1, Firmware DEF Unit
  <2> QED
    BY <2>2 DEF DtLength
<1>3. \A d \in Cores : /\ DtExtent(d) \in Nat /\ 1 <= DtExtent(d)
                       /\ DtLength(d) <= DtExtent(d)
  BY <1>2 DEF DtExtent
<1>4. ASSUME NEW i \in 0..DtExtent(c)
      PROVE  /\ DtPointer[c] + i \in Addr
             /\ \/ DtPointer[c] + i < Load
                \/ \A d \in Cores : BssEnd + DtExtent(d) < DtPointer[c] + i
  <2>1. i \in Nat /\ i <= DtExtent(c) /\ DtExtent(c) \in Nat
    BY <1>3
  <2>2. DtPointer[c] + i \in Addr
    BY <1>1, <2>1 DEF Addr, Layout
  <2>3. CASE DtPointer[c] + DtExtent(c) < Load
    BY <1>1, <2>1, <2>2, <2>3 DEF Layout
  <2>4. CASE \A d \in Cores : BssEnd + DtExtent(d) < DtPointer[c]
    <3>1. ASSUME NEW d \in Cores PROVE BssEnd + DtExtent(d) < DtPointer[c] + i
      BY <1>1, <1>3, <2>1, <2>4 DEF Layout
    <3> QED
      BY <2>2, <3>1
  <2> QED
    BY <1>1, <2>3, <2>4
<1> QED
  BY <1>1, <1>2, <1>3, <1>4

\* What a core copies lies away from BSS, relocated loader and payload.
LEMMA SourceAway ==
    ASSUME Layout, NEW d \in Cores, NEW i \in 0..DtExtent(d)
    PROVE  LET e == DtPointer[d] + i
           IN  /\ e \in Addr
               /\ e < BssStart \/ e >= BssEnd
               /\ e < Link \/ e >= Link + BinarySize
               /\ e < Load \/ e >= Load + PayloadSize
<1> DEFINE e == DtPointer[d] + i
<1>1. /\ DtExtent(d) \in Nat /\ e \in Addr
      /\ e < Load \/ BssEnd + DtExtent(d) < e
  BY CoreFits
<1> HIDE DEF e
<1>2. /\ e < BssStart \/ e >= BssEnd
      /\ e < Link \/ e >= Link + BinarySize
      /\ e < Load \/ e >= Load + PayloadSize
  BY <1>1 DEF Addr, Layout
<1> QED
  BY <1>1, <1>2 DEF e

\* The boot core copies the firmware's device tree.
LEMMA BootCoreFits ==
    ASSUME Layout
    PROVE  DtPointer[BootCore] = DtAt /\ DtLength(BootCore) = DtSize
BY Firmware DEF Layout, DtLength

\* What a core reads next is among what any core may put there.
LEMMA CandidateOf ==
    ASSUME NEW c \in Cores, NEW i \in 0..DtExtent(c)
    PROVE  FirmwareMem[DtPointer[c] + i] \in Candidates(i)
BY DEF Candidates

\* What a store of two units changes.
LEMMA StoreEffect ==
    ASSUME MemType, NEW a \in Addr, a + 1 \in Addr, NEW u \in Unit, NEW w \in Unit,
           Store(a, u, w)
    PROVE  /\ MemType'
           /\ (mem')[a] = u /\ (mem')[a + 1] = w
           /\ \A b \in Addr : b # a /\ b # a + 1 => (mem')[b] = mem[b]
<1>1. mem' = [mem EXCEPT ![a] = u, ![a + 1] = w] /\ a # a + 1
  BY DEF Store, Addr
<1> QED
  BY <1>1 DEF MemType

-----------------------------------------------------------------------------
(* Steps.                                                                  *)

\* A core that does not move, and units that are not overwritten.
Same(d) == cpc'[d] = cpc[d] /\ x0'[d] = x0[d] /\ x1'[d] = x1[d] /\ x2'[d] = x2[d]

\* What a step leaves alone: the copy of the device tree, the relocated loader
\* and the BSS, the loader where it was loaded, what the cores copy from.
CopyKept ==
    \A i \in 0..DtSize-1 :
        mem[DtStart + i] \in Candidates(i) => (mem')[DtStart + i] \in Candidates(i)
RestKept ==
    /\ \A a \in BssStart..BssEnd-1 : (mem')[a] = mem[a]
    /\ \A i \in 0..BinarySize-1 : (mem')[Link + i] = mem[Link + i]
CodeKept == \A i \in 0..BinarySize-1 : (mem')[Load + i] = mem[Load + i]
SourceUntouched ==
    \A c \in Cores : \A i \in 0..DtExtent(c) :
        (mem')[DtPointer[c] + i] = mem[DtPointer[c] + i]

\* A core that does not move, while the copy is not damaged.
LEMMA OtherCore ==
    ASSUME NEW d \in Cores, Copying(d), Same(d), CopyKept
    PROVE  Copying(d)'
BY DEF Copying, CopiedTo, Same, CopyKept

\* The boot core does not move, while its work is not damaged.
LEMMA BootElsewhere ==
    ASSUME Booting, Same(BootCore), RestKept, filled' = filled
    PROVE  Booting'
BY DEF Booting, Zeroed, MovedTo, Same, RestKept

\* The invariant holds when the cores arrive.
LEMMA BootInitHolds ==
    ASSUME Layout, BootInit
    PROVE  BootInv
<1>1. MemType
  BY Firmware DEF BootInit, MemType
<1>2. CoreType
  BY DEF BootInit, CoreType, Labels, Layout
<1>3. \A c \in Cores : Copying(c)
  BY DEF BootInit, Copying
<1>4. ExecutesIntactCode
  BY Firmware DEF BootInit, ExecutesIntactCode
<1> QED
  BY <1>1, <1>2, <1>3, <1>4 DEF BootInit, BootInv, SourceKept, Booting, Layout

\* Steps that leave memory alone.
LEMMA MemoryAlone ==
    ASSUME BootInv, UNCHANGED <<mem, filled>>
    PROVE  /\ MemType' /\ SourceKept' /\ ExecutesIntactCode'
           /\ CopyKept /\ RestKept
BY DEF BootInv, MemType, SourceKept, ExecutesIntactCode, CopyKept, RestKept

\* The size of the device tree is read from where x0 points.
LEMMA BoundsStep ==
    ASSUME Layout, BootInv, NEW c \in Cores, DeviceTreeBounds(c)
    PROVE  BootInv'
<1>1. /\ cpc[c] = "_start" /\ x0[c] = DtPointer[c]
  BY DEF DeviceTreeBounds, BootInv, Copying
<1>2. mem[DtPointer[c] + 1][2] = DtLength(c)
  <2>1. 1 \in 0..DtExtent(c)
    BY CoreFits
  <2> QED
    BY <2>1 DEF BootInv, SourceKept, DtLength
<1>3. /\ x1' = [x1 EXCEPT ![c] = DtStart] /\ x2' = [x2 EXCEPT ![c] = DtStart + DtLength(c)]
      /\ cpc' = [cpc EXCEPT ![c] = "dt_copy"] /\ x0' = x0 /\ UNCHANGED <<mem, filled>>
  BY <1>1, <1>2 DEF DeviceTreeBounds, Goto
<1>4. CoreType /\ CoreType'
  <2>1. DtLength(c) \in Nat /\ DtStart \in Nat /\ "dt_copy" \in Labels
    BY CoreFits DEF DtStart, Layout, Labels
  <2>2. DtStart + DtLength(c) \in Nat
    BY <2>1
  <2>3. CoreType
    BY DEF BootInv
  <2> QED
    BY <1>3, <2>1, <2>2, <2>3 DEF CoreType
<1>5. ASSUME NEW d \in Cores PROVE Copying(d)'
  <2>1. CASE d # c
    BY <1>3, <1>4, <2>1, OtherCore, MemoryAlone DEF BootInv, CoreType, Same
  <2>2. CASE d = c
    <3>1. /\ cpc'[c] = "dt_copy" /\ x2'[c] = DtStart + DtLength(c) /\ x1'[c] = DtStart
          /\ x0'[c] = DtPointer[c]
      BY <1>1, <1>3, <1>4 DEF CoreType
    <3>2. CopiedTo(x1[c])'
      <4>1. \A i \in 0..DtSize-1 : ~(DtStart + i < DtStart)
        BY DEF DtStart, Layout
      <4> QED
        BY <3>1, <4>1 DEF CopiedTo
    <3>3. DtStart <= DtStart /\ DtPointer[c] + DtStart = DtStart + DtPointer[c]
      BY CoreFits DEF DtStart, Layout
    <3> QED
      BY <2>2, <3>1, <3>2, <3>3 DEF Copying
  <2> QED
    BY <2>1, <2>2
<1>6. Booting'
  <2>1. CASE c # BootCore
    BY <1>3, <1>4, <2>1, BootElsewhere, MemoryAlone DEF BootInv, CoreType, Same, Layout
  <2>2. CASE c = BootCore
    <3>1. cpc'[BootCore] = "dt_copy" /\ filled' = filled
      BY <1>3, <1>4, <2>2 DEF CoreType
    <3>2. ~(filled > 0)
      BY <1>1, <2>2 DEF BootInv, Booting
    <3> QED
      BY <3>1, <3>2 DEF Booting
  <2> QED
    BY <2>1, <2>2
<1> QED
  BY <1>3, <1>4, <1>5, <1>6, MemoryAlone DEF BootInv

\* A core copies eight bytes, each to where any core would put that byte, and the
\* last of them at most four bytes behind what it takes for the device tree.
LEMMA CopyStep ==
    ASSUME Layout, BootInv, NEW c \in Cores, DeviceTreeCopy(c)
    PROVE  BootInv'
<1> DEFINE a == x1[c]
           b == x0[c]
           n == DtLength(c)
           m == DtExtent(c)
           p == DtPointer[c]
<1>1. /\ cpc[c] = "dt_copy" /\ x2[c] = DtStart + n /\ DtStart <= a
      /\ a = DtStart \/ a < DtStart + n
      /\ b + DtStart = a + p /\ CopiedTo(a)
  BY DEF DeviceTreeCopy, BootInv, Copying
<1>0. /\ a \in Nat /\ b \in Nat /\ n \in Nat /\ m \in Nat /\ p \in Nat
      /\ 1 <= m /\ n <= m /\ BssEnd + m < MemSize
  BY CoreFits DEF BootInv, CoreType
\* How far the copy is: an index of both device trees.
<1>k. PICK k \in 0..m-1 : a = DtStart + k /\ b = p + k
  <2>1. a - DtStart \in 0..m-1
    BY <1>0, <1>1 DEF DtStart, Layout
  <2>2. a = DtStart + (a - DtStart) /\ b = p + (a - DtStart)
    BY <1>0, <1>1 DEF DtStart, Layout
  <2> QED
    BY <2>1, <2>2
<1>r. k \in 0..m /\ k + 1 \in 0..m
  BY <1>0
<1>2. /\ a \in Addr /\ a + 1 \in Addr /\ b \in Addr /\ b + 1 \in Addr
      /\ b + 1 = p + (k + 1)
  <2>1. a \in Addr /\ a + 1 \in Addr
    BY <1>0, <1>k DEF DtStart, Addr, Layout
  <2>2. b + 1 = p + (k + 1)
    BY <1>0, <1>k
  <2>3. p + k \in Addr /\ p + (k + 1) \in Addr
    BY <1>r, CoreFits
  <2> QED
    BY <1>k, <2>1, <2>2, <2>3
<1>s. /\ mem[b] \in Candidates(k) /\ mem[b + 1] \in Candidates(k + 1)
  BY <1>k, <1>r, <1>2, CandidateOf DEF BootInv, SourceKept
<1>3. /\ Store(a, mem[b], mem[b + 1])
      /\ x0' = [x0 EXCEPT ![c] = b + 2] /\ x1' = [x1 EXCEPT ![c] = a + 2] /\ x2' = x2
      /\ cpc' = [cpc EXCEPT ![c] = IF a + 2 < x2[c] THEN "dt_copy" ELSE "core_check"]
      /\ filled' = filled
  BY DEF DeviceTreeCopy, Goto
<1>4. mem[b] \in Unit /\ mem[b + 1] \in Unit /\ MemType
  BY <1>2 DEF BootInv, MemType
<1>5. /\ MemType' /\ (mem')[a] = mem[b] /\ (mem')[a + 1] = mem[b + 1]
      /\ \A e \in Addr : e # a /\ e # a + 1 => (mem')[e] = mem[e]
  BY <1>2, <1>3, <1>4, StoreEffect
<1>6. CoreType /\ CoreType'
  BY <1>0, <1>3 DEF BootInv, CoreType, Labels
<1> HIDE DEF a, b, n, m, p
<1>7. ASSUME NEW e \in Addr, e < DtStart \/ e > DtStart + m
      PROVE  (mem')[e] = mem[e]
  <2>1. e # a /\ e # a + 1
    BY <1>0, <1>k, <1>7 DEF Addr, DtStart, Layout
  <2> QED
    BY <1>5, <2>1
<1>8. SourceUntouched /\ CodeKept /\ RestKept
  <2>1. ASSUME NEW d \in Cores, NEW i \in 0..DtExtent(d)
        PROVE  (mem')[DtPointer[d] + i] = mem[DtPointer[d] + i]
    <3> DEFINE e == DtPointer[d] + i
    <3>1. e \in Addr /\ (e < Load \/ BssEnd + m < e)
      BY CoreFits DEF m
    <3> HIDE DEF e
    <3>2. e < DtStart \/ e > DtStart + m
      BY <1>0, <3>1 DEF Addr, DtStart, Layout
    <3>3. (mem')[e] = mem[e]
      BY <1>7, <3>1, <3>2
    <3> QED
      BY <3>3 DEF e
  <2>2. \A i \in 0..BinarySize-1 : /\ Load + i \in Addr /\ Load + i < DtStart
                                   /\ Link + i \in Addr /\ Link + i < DtStart
    BY DEF Layout, Addr, DtStart
  <2>3. \A e \in BssStart..BssEnd-1 : e \in Addr /\ e < DtStart
    BY DEF Layout, Addr, DtStart
  <2> QED
    BY <1>7, <2>1, <2>2, <2>3 DEF SourceUntouched, CodeKept, RestKept
<1>9. ASSUME NEW i \in 0..DtSize-1, DtStart + i = a \/ DtStart + i = a + 1
      PROVE  (mem')[DtStart + i] \in Candidates(i)
  <2>1. CASE DtStart + i = a
    <3>1. k = i
      BY <1>k, <2>1 DEF DtStart, Layout
    <3> QED
      BY <1>5, <1>s, <2>1, <3>1
  <2>2. CASE DtStart + i = a + 1
    <3>1. k + 1 = i
      BY <1>k, <2>2 DEF DtStart, Layout
    <3> QED
      BY <1>5, <1>s, <2>2, <3>1
  <2> QED
    BY <1>9, <2>1, <2>2
<1>10. \A i \in 0..DtSize-1 : DtStart + i \in Addr
  BY DEF DtStart, Layout, Addr
<1>11. CopyKept
  BY <1>5, <1>9, <1>10 DEF CopyKept
<1>12. ASSUME NEW i \in 0..DtSize-1, DtStart + i < a + 2
       PROVE  (mem')[DtStart + i] \in Candidates(i)
  <2>1. DtStart + i < a \/ DtStart + i = a \/ DtStart + i = a + 1
    BY <1>0, <1>12 DEF DtStart, Layout
  <2> QED
    BY <1>1, <1>9, <1>11, <2>1 DEF CopiedTo, CopyKept
<1>13. ASSUME NEW d \in Cores PROVE Copying(d)'
  <2>1. CASE d # c
    BY <1>3, <1>6, <1>11, <2>1, OtherCore DEF BootInv, CoreType, Same
  <2>2. CASE d = c
    <3>1. /\ x2'[c] = DtStart + n /\ x1'[c] = a + 2 /\ x0'[c] = b + 2
          /\ cpc'[c] = IF a + 2 < DtStart + n THEN "dt_copy" ELSE "core_check"
      BY <1>1, <1>3, <1>6 DEF CoreType
    <3>2. CASE a + 2 < DtStart + n
      <4>1. /\ DtStart <= a + 2 /\ (b + 2) + DtStart = (a + 2) + p
        BY <1>0, <1>1 DEF DtStart, Layout
      <4>2. CopiedTo(x1[c])'
        BY <1>12, <3>1 DEF CopiedTo
      <4> QED
        BY <2>2, <3>1, <3>2, <4>1, <4>2 DEF Copying, n, p
    <3>3. CASE ~(a + 2 < DtStart + n)
      <4>1. \A i \in 0..DtSize-1 : DtStart + i < DtStart + n => DtStart + i < a + 2
        BY <1>0, <3>3 DEF DtStart, Layout
      <4>2. CopiedTo(DtStart + n)'
        BY <1>12, <4>1 DEF CopiedTo
      <4> QED
        BY <2>2, <3>1, <3>3, <4>2 DEF Copying, n
    <3> QED
      BY <3>2, <3>3
  <2> QED
    BY <2>1, <2>2
<1>14. Booting'
  <2>1. CASE c # BootCore
    BY <1>3, <1>6, <1>8, <2>1, BootElsewhere DEF BootInv, CoreType, Same, Layout
  <2>2. CASE c = BootCore
    <3>1. cpc'[BootCore] \in {"dt_copy", "core_check"} /\ filled' = filled
      BY <1>3, <1>6, <2>2 DEF CoreType
    <3>2. ~(filled > 0)
      BY <1>1, <2>2 DEF BootInv, Booting
    <3> QED
      BY <3>1, <3>2 DEF Booting
  <2> QED
    BY <2>1, <2>2
<1>15. SourceKept' /\ ExecutesIntactCode'
  BY <1>3, <1>8 DEF BootInv, SourceKept, SourceUntouched, ExecutesIntactCode, CodeKept
<1> QED
  BY <1>5, <1>6, <1>13, <1>14, <1>15 DEF BootInv

\* The boot core goes on, the others park.
LEMMA CheckStep ==
    ASSUME Layout, BootInv, NEW c \in Cores, CoreCheck(c)
    PROVE  BootInv'
<1>1. /\ cpc[c] = "core_check" /\ CopiedTo(DtStart + DtLength(c)) /\ UNCHANGED <<mem, filled>>
      /\ x2' = x2
  BY DEF CoreCheck, BootInv, Copying
<1>2. /\ x0' = [x0 EXCEPT ![c] = IF c = BootCore THEN BssStart ELSE @]
      /\ x1' = [x1 EXCEPT ![c] = IF c = BootCore THEN BssEnd ELSE @]
      /\ cpc' = [cpc EXCEPT ![c] = IF c = BootCore THEN "bss_init" ELSE "parked"]
  BY DEF CoreCheck, Goto, BootInv, CoreType
<1>3. CoreType /\ CoreType'
  BY <1>1, <1>2 DEF BootInv, CoreType, Labels, Layout
<1>4. ASSUME NEW d \in Cores PROVE Copying(d)'
  <2>1. CASE d # c
    BY <1>1, <1>2, <1>3, <2>1, OtherCore, MemoryAlone DEF BootInv, CoreType, Same
  <2>2. CASE d = c
    <3>1. cpc'[c] = IF c = BootCore THEN "bss_init" ELSE "parked"
      BY <1>2, <1>3 DEF CoreType
    <3>2. CopiedTo(DtStart + DtLength(c))'
      BY <1>1 DEF CopiedTo
    <3> QED
      BY <2>2, <3>1, <3>2 DEF Copying
  <2> QED
    BY <2>1, <2>2
<1>5. Booting'
  <2>1. CASE c # BootCore
    BY <1>1, <1>2, <1>3, <2>1, BootElsewhere, MemoryAlone DEF BootInv, CoreType, Same, Layout
  <2>2. CASE c = BootCore
    <3>1. cpc'[BootCore] = "bss_init" /\ x0'[BootCore] = BssStart /\ x1'[BootCore] = BssEnd
      BY <1>2, <1>3, <2>2 DEF CoreType
    <3>2. ~(filled' > 0)
      BY <1>1, <2>2 DEF BootInv, Booting
    <3>3. \A a \in BssStart..BssEnd-1 : ~(a < BssStart)
      BY DEF Layout
    <3> QED
      BY <3>1, <3>2, <3>3 DEF Booting, Zeroed, Layout
  <2> QED
    BY <2>1, <2>2
<1> QED
  BY <1>1, <1>3, <1>4, <1>5, MemoryAlone DEF BootInv

\* Only the boot core gets behind the check.
LEMMA OnlyBoot ==
    ASSUME BootInv, NEW c \in Cores,
           cpc[c] \in {"bss_init", "relocate", "_start_rust", "kernel"}
    PROVE  c = BootCore
BY DEF BootInv, Copying

\* The boot core clears sixteen bytes of the BSS, and nothing else.
LEMMA BssInitStep ==
    ASSUME Layout, BootInv, NEW c \in Cores, BssInit(c)
    PROVE  BootInv'
<1>1. c = BootCore /\ cpc[c] = "bss_init"
  BY OnlyBoot DEF BssInit
<1>2. PICK a \in Nat : a = x0[c]
  BY DEF BootInv, CoreType
<1>3. /\ x1[c] = BssEnd /\ BssStart <= a /\ a <= BssEnd /\ a % 4 = 0 /\ Zeroed(a)
      /\ CopiedTo(DtStart + DtLength(c)) /\ ~(filled > 0)
  BY <1>1, <1>2 DEF BootInv, Booting, Copying
<1>4. a + 3 < BssEnd /\ (a + 4) % 4 = 0
  BY <1>1, <1>2, <1>3 DEF BssInit, Layout
<1>5. /\ mem' = [e \in Addr |-> IF e \in a..a + 3 THEN <<"zero", 0>> ELSE mem[e]]
      /\ x0' = [x0 EXCEPT ![c] = a + 4] /\ UNCHANGED <<cpc, x1, x2, filled>>
  BY <1>2 DEF BssInit
<1>6. CoreType /\ CoreType'
  BY <1>5 DEF BootInv, CoreType
<1>7. /\ \A e \in Addr : e \in a..a + 3 => (mem')[e] = <<"zero", 0>>
      /\ \A e \in Addr : e \notin a..a + 3 => (mem')[e] = mem[e]
  BY <1>5
<1>8. MemType'
  <2>1. <<"zero", 0>> \in Unit
    BY DEF Unit, Kinds
  <2>2. \A e \in Addr : (IF e \in a..a + 3 THEN <<"zero", 0>> ELSE mem[e]) \in Unit
    BY <2>1 DEF BootInv, MemType
  <2> QED
    BY <1>5, <2>2 DEF MemType
<1>9. ASSUME NEW e \in Addr, e < BssStart \/ e >= BssEnd
      PROVE  (mem')[e] = mem[e]
  BY <1>3, <1>4, <1>7, <1>9 DEF Layout, Addr
<1>10. SourceUntouched /\ CodeKept /\ CopyKept
  <2>0. ASSUME NEW d \in Cores, NEW i \in 0..DtExtent(d)
        PROVE  /\ DtPointer[d] + i \in Addr
               /\ DtPointer[d] + i < BssStart \/ DtPointer[d] + i >= BssEnd
    BY SourceAway
  <2>1. \A i \in 0..DtSize-1 : /\ DtStart + i \in Addr /\ DtStart + i >= BssEnd
    BY DEF Layout, Addr, DtStart
  <2>2. \A i \in 0..BinarySize-1 : Load + i \in Addr /\ Load + i < BssStart
    BY DEF Layout, Addr
  <2> QED
    BY <1>9, <2>0, <2>1, <2>2 DEF SourceUntouched, CodeKept, CopyKept
<1>11. Zeroed(a + 4)'
  <2>1. ASSUME NEW e \in BssStart..BssEnd-1, e < a + 4
        PROVE  (mem')[e] = <<"zero", 0>>
    <3>1. e \in Addr
      BY DEF Addr, Layout
    <3>2. CASE e \in a..a + 3
      BY <1>7, <3>1, <3>2
    <3>3. CASE e \notin a..a + 3
      <4>1. e < a
        BY <1>2, <2>1, <3>3 DEF Layout
      <4> QED
        BY <1>3, <1>7, <3>1, <3>3, <4>1 DEF Zeroed
    <3> QED
      BY <3>2, <3>3
  <2> QED
    BY <2>1 DEF Zeroed
<1>12. ASSUME NEW d \in Cores PROVE Copying(d)'
  <2>1. CASE d # c
    BY <1>5, <1>6, <1>10, <2>1, OtherCore DEF BootInv, CoreType, Same
  <2>2. CASE d = c
    <3>1. CopiedTo(DtStart + DtLength(c))'
      BY <1>3, <1>10 DEF CopiedTo, CopyKept
    <3> QED
      BY <1>1, <1>5, <2>2, <3>1 DEF Copying
  <2> QED
    BY <2>1, <2>2
<1>13. Booting'
  <2>1. cpc'[BootCore] = "bss_init" /\ x0'[BootCore] = a + 4 /\ x1'[BootCore] = BssEnd
    BY <1>1, <1>3, <1>5, <1>6 DEF CoreType
  <2>2. BssStart <= a + 4 /\ a + 4 <= BssEnd /\ filled' = filled
    BY <1>3, <1>4, <1>5 DEF Layout
  <2> QED
    BY <1>3, <1>4, <1>11, <2>1, <2>2 DEF Booting
<1>14. SourceKept' /\ ExecutesIntactCode'
  BY <1>5, <1>10 DEF BootInv, SourceKept, SourceUntouched, ExecutesIntactCode, CodeKept
<1> QED
  BY <1>6, <1>8, <1>12, <1>13, <1>14 DEF BootInv

\* The BSS is clear; the relocation begins.
LEMMA BssDoneStep ==
    ASSUME Layout, BootInv, NEW c \in Cores, BssDone(c)
    PROVE  BootInv'
<1>1. c = BootCore /\ cpc[c] = "bss_init"
  BY OnlyBoot DEF BssDone
<1>2. /\ x0[c] = BssEnd /\ Zeroed(BssEnd) /\ CopiedTo(DtStart + DtLength(c)) /\ ~(filled > 0)
  BY <1>1 DEF BootInv, Booting, Copying, BssDone
<1>3. /\ x0' = [x0 EXCEPT ![c] = Load] /\ x1' = [x1 EXCEPT ![c] = Link]
      /\ x2' = [x2 EXCEPT ![c] = Link + BinarySize]
      /\ cpc' = [cpc EXCEPT ![c] = "relocate"] /\ UNCHANGED <<mem, filled>>
  BY DEF BssDone, Goto
<1>4. CoreType /\ CoreType'
  BY <1>3 DEF BootInv, CoreType, Labels, Layout
<1>5. /\ cpc'[c] = "relocate" /\ x0'[c] = Load /\ x1'[c] = Link
      /\ x2'[c] = Link + BinarySize
  BY <1>3, <1>4 DEF CoreType
<1>6. ASSUME NEW d \in Cores PROVE Copying(d)'
  <2>1. CASE d # c
    BY <1>3, <1>4, <2>1, OtherCore, MemoryAlone DEF BootInv, CoreType, Same
  <2>2. CASE d = c
    BY <1>1, <1>2, <1>3, <1>5, <2>2 DEF Copying, CopiedTo
  <2> QED
    BY <2>1, <2>2
<1>7. Booting'
  <2>1. \A i \in 0..BinarySize-1 : ~(Link + i < Link)
    BY DEF Layout
  <2>2. /\ Link < Link + BinarySize /\ ((Link + BinarySize) - Link) % 2 = 0
        /\ Load + Link = Link + Load
    BY DEF Layout
  <2>3. MovedTo(Link)' /\ Zeroed(BssEnd)'
    BY <1>2, <1>3, <2>1 DEF MovedTo, Zeroed
  <2>4. ~(filled' > 0) /\ Link <= Link
    BY <1>2, <1>3 DEF Layout
  <2> QED
    BY <1>1, <1>5, <2>2, <2>3, <2>4 DEF Booting
<1> QED
  BY <1>3, <1>4, <1>6, <1>7, MemoryAlone DEF BootInv

\* The boot core moves eight bytes of the loader, which is still intact.
LEMMA RelocateStep ==
    ASSUME Layout, BootInv, NEW c \in Cores, Relocate(c)
    PROVE  BootInv'
<1>1. c = BootCore /\ cpc[c] = "relocate"
  BY OnlyBoot DEF Relocate
<1>2. PICK a \in Nat : a = x1[c]
  BY DEF BootInv, CoreType
<1>3. PICK b \in Nat : b = x0[c]
  BY DEF BootInv, CoreType
<1>4. /\ x2[c] = Link + BinarySize /\ Link <= a /\ a < Link + BinarySize
      /\ b + Link = a + Load /\ ((Link + BinarySize) - a) % 2 = 0
      /\ MovedTo(a) /\ Zeroed(BssEnd)
      /\ CopiedTo(DtStart + DtLength(c)) /\ ~(filled > 0)
  BY <1>1, <1>2, <1>3 DEF BootInv, Booting, Copying
<1>5. /\ a + 1 < Link + BinarySize /\ ((Link + BinarySize) - (a + 2)) % 2 = 0
      /\ (b + 2) + Link = (a + 2) + Load
  BY <1>4 DEF Layout
<1>6. a \in Addr /\ a + 1 \in Addr /\ b \in Addr /\ b + 1 \in Addr
  BY <1>4, <1>5 DEF Addr, Layout
<1>7. /\ Store(a, mem[b], mem[b + 1])
      /\ x1' = [x1 EXCEPT ![c] = a + 2] /\ x2' = x2 /\ filled' = filled
      /\ x0' = [x0 EXCEPT ![c] = IF a + 2 < Link + BinarySize THEN b + 2 ELSE DtStart]
      /\ cpc' = [cpc EXCEPT ![c] = IF a + 2 < Link + BinarySize THEN "relocate" ELSE "_start_rust"]
  BY <1>1, <1>2, <1>3, <1>4 DEF Relocate, Goto, BootInv, CoreType
<1>8. mem[b] \in Unit /\ mem[b + 1] \in Unit /\ MemType
  BY <1>6 DEF BootInv, MemType
<1>9. /\ MemType' /\ (mem')[a] = mem[b] /\ (mem')[a + 1] = mem[b + 1]
      /\ \A e \in Addr : e # a /\ e # a + 1 => (mem')[e] = mem[e]
  <2>1. PICK u \in Unit : u = mem[b]
    BY <1>8
  <2>2. PICK w \in Unit : w = mem[b + 1]
    BY <1>8
  <2>3. Store(a, u, w) /\ MemType
    BY <1>7, <1>8, <2>1, <2>2
  <2>4. /\ MemType' /\ (mem')[a] = u /\ (mem')[a + 1] = w
        /\ \A e \in Addr : e # a /\ e # a + 1 => (mem')[e] = mem[e]
    BY <1>6, <2>3, StoreEffect
  <2> QED
    BY <2>1, <2>2, <2>4
<1>10. CoreType /\ CoreType'
  BY <1>7 DEF BootInv, CoreType, Labels, DtStart, Layout
<1>11. ASSUME NEW e \in Addr, e < Link \/ e >= Link + BinarySize
       PROVE  (mem')[e] = mem[e]
  BY <1>4, <1>5, <1>9, <1>11 DEF Layout, Addr
<1>12. SourceUntouched /\ CodeKept /\ CopyKept /\ (Zeroed(BssEnd) => Zeroed(BssEnd)')
  <2>0. ASSUME NEW d \in Cores, NEW i \in 0..DtExtent(d)
        PROVE  /\ DtPointer[d] + i \in Addr
               /\ DtPointer[d] + i < Link \/ DtPointer[d] + i >= Link + BinarySize
    BY SourceAway
  <2>1. \A i \in 0..DtSize-1 : /\ DtStart + i \in Addr /\ DtStart + i >= Link + BinarySize
    BY DEF Layout, Addr, DtStart
  <2>2. \A i \in 0..BinarySize-1 : Load + i \in Addr /\ Load + i < Link
    BY DEF Layout, Addr
  <2>3. \A e \in BssStart..BssEnd-1 : e \in Addr /\ e >= Link + BinarySize
    BY DEF Layout, Addr
  <2> QED
    BY <1>11, <2>0, <2>1, <2>2, <2>3 DEF SourceUntouched, CodeKept, CopyKept, Zeroed
<1>13. ASSUME NEW i \in 0..BinarySize-1, Link + i < a + 2
       PROVE  (mem')[Link + i] = <<"bin", i>>
  <2>1. Link + i \in Addr /\ Load + i \in Addr
    BY DEF Layout, Addr
  <2>2. mem[Load + i] = <<"bin", i>>
    BY <1>4 DEF BootInv, ExecutesIntactCode, CoreType
  <2>3. CASE Link + i = a
    <3>1. b = Load + i
      BY <1>4, <2>3 DEF Layout
    <3> QED
      BY <1>9, <2>2, <2>3, <3>1
  <2>4. CASE Link + i = a + 1
    <3>1. b + 1 = Load + i
      BY <1>4, <2>4 DEF Layout
    <3> QED
      BY <1>9, <2>2, <2>4, <3>1
  <2>5. CASE Link + i # a /\ Link + i # a + 1
    <3>1. Link + i < a
      BY <1>13, <2>5 DEF Layout
    <3> QED
      BY <1>4, <1>9, <2>1, <2>5, <3>1 DEF MovedTo
  <2> QED
    BY <2>3, <2>4, <2>5
<1>14. ASSUME NEW d \in Cores PROVE Copying(d)'
  <2>1. CASE d # c
    BY <1>7, <1>10, <1>12, <2>1, OtherCore DEF BootInv, CoreType, Same
  <2>2. CASE d = c
    <3>1. CopiedTo(DtStart + DtLength(c))'
      BY <1>4, <1>12 DEF CopiedTo, CopyKept
    <3>2. cpc'[c] \in {"relocate", "_start_rust"}
      BY <1>7, <1>10 DEF CoreType
    <3> QED
      BY <1>1, <2>2, <3>1, <3>2 DEF Copying
  <2> QED
    BY <2>1, <2>2
<1>15. Booting'
  <2>1. /\ x1'[BootCore] = a + 2 /\ x2'[BootCore] = Link + BinarySize
        /\ x0'[BootCore] = IF a + 2 < Link + BinarySize THEN b + 2 ELSE DtStart
        /\ cpc'[BootCore] = IF a + 2 < Link + BinarySize THEN "relocate" ELSE "_start_rust"
    BY <1>1, <1>4, <1>7, <1>10 DEF CoreType
  <2>2. Zeroed(BssEnd)' /\ filled' = filled
    BY <1>4, <1>7, <1>12
  <2>3. CASE a + 2 < Link + BinarySize
    <3>1. MovedTo(x1[BootCore])'
      BY <1>13, <2>1 DEF MovedTo
    <3>2. Link <= a + 2
      BY <1>4 DEF Layout
    <3> QED
      BY <1>4, <1>5, <2>1, <2>2, <2>3, <3>1, <3>2 DEF Booting
  <2>4. CASE ~(a + 2 < Link + BinarySize)
    <3>1. \A i \in 0..BinarySize-1 : Link + i < a + 2
      BY <2>4 DEF Layout
    <3>2. MovedTo(Link + BinarySize)'
      BY <1>13, <3>1 DEF MovedTo
    <3> QED
      BY <1>4, <2>1, <2>2, <2>4, <3>2 DEF Booting
  <2> QED
    BY <2>3, <2>4
<1>16. SourceKept' /\ ExecutesIntactCode'
  BY <1>7, <1>12 DEF BootInv, SourceKept, SourceUntouched, ExecutesIntactCode, CodeKept
<1> QED
  BY <1>9, <1>10, <1>14, <1>15, <1>16 DEF BootInv

\* The payload falls on the old place of the loader, and on nothing else.
LEMMA WriteStep ==
    ASSUME Layout, BootInv, NEW c \in Cores, WritePayload(c)
    PROVE  BootInv'
<1>1. c = BootCore /\ cpc[c] = "_start_rust" /\ filled < PayloadSize
  BY OnlyBoot DEF WritePayload
<1>2. PICK a \in Nat : a = Load + filled
  BY DEF BootInv, CoreType, Layout
<1>3. filled \in Nat /\ filled <= PayloadSize /\ a \in Addr /\ Load <= a /\ a < Load + PayloadSize
  BY <1>1, <1>2 DEF BootInv, CoreType, Layout, Addr
<1>4. /\ mem' = [mem EXCEPT ![a] = <<"payload", filled>>] /\ filled' = filled + 1
      /\ UNCHANGED <<cpc, x0, x1, x2>>
  BY <1>2 DEF WritePayload, core
<1>5. MemType'
  <2>1. <<"payload", filled>> \in Unit
    BY <1>3 DEF Unit, Kinds
  <2> QED
    BY <1>4, <2>1 DEF BootInv, MemType
<1>6. CoreType /\ CoreType'
  BY <1>1, <1>3, <1>4 DEF BootInv, CoreType, Layout
<1>7. ASSUME NEW e \in Addr, e < Load \/ e >= Load + PayloadSize
      PROVE  (mem')[e] = mem[e]
  BY <1>3, <1>4, <1>7 DEF Layout, Addr, BootInv, MemType
<1>8. SourceUntouched /\ CopyKept /\ RestKept
  <2>0. ASSUME NEW d \in Cores, NEW i \in 0..DtExtent(d)
        PROVE  /\ DtPointer[d] + i \in Addr
               /\ DtPointer[d] + i < Load \/ DtPointer[d] + i >= Load + PayloadSize
    BY SourceAway
  <2>1. \A i \in 0..DtSize-1 : /\ DtStart + i \in Addr /\ DtStart + i >= Load + PayloadSize
    BY DEF Layout, Addr, DtStart
  <2>2. \A i \in 0..BinarySize-1 : Link + i \in Addr /\ Link + i >= Load + PayloadSize
    BY DEF Layout, Addr
  <2>3. \A e \in BssStart..BssEnd-1 : e \in Addr /\ e >= Load + PayloadSize
    BY DEF Layout, Addr
  <2> QED
    BY <1>7, <2>0, <2>1, <2>2, <2>3 DEF SourceUntouched, CopyKept, RestKept
<1>9. ASSUME NEW d \in Cores PROVE Copying(d)'
  BY <1>4, <1>8, OtherCore DEF BootInv, Same
<1>10. Booting'
  BY <1>1, <1>4, <1>8 DEF BootInv, Booting, Zeroed, MovedTo, RestKept
<1>11. SourceKept'
  BY <1>8 DEF BootInv, SourceKept, SourceUntouched
<1>12. ExecutesIntactCode'
  <2>1. filled' # 0
    BY <1>3, <1>4
  <2> QED
    BY <2>1 DEF ExecutesIntactCode
<1> QED
  BY <1>5, <1>6, <1>9, <1>10, <1>11, <1>12 DEF BootInv

\* The kernel is entered.
LEMMA EnterStep ==
    ASSUME Layout, BootInv, NEW c \in Cores, JumpToKernel(c)
    PROVE  BootInv'
<1>1. c = BootCore /\ cpc[c] = "_start_rust"
  BY OnlyBoot DEF JumpToKernel
<1>2. cpc' = [cpc EXCEPT ![c] = "kernel"] /\ UNCHANGED <<mem, x0, x1, x2, filled>>
  BY DEF JumpToKernel, Goto
<1>3. CoreType /\ CoreType'
  BY <1>2 DEF BootInv, CoreType, Labels
<1>4. cpc'[c] = "kernel"
  BY <1>2, <1>3 DEF CoreType
<1>5. ASSUME NEW d \in Cores PROVE Copying(d)'
  <2>1. CASE d # c
    BY <1>2, <1>3, <2>1, OtherCore, MemoryAlone DEF BootInv, CoreType, Same
  <2>2. CASE d = c
    BY <1>1, <1>2, <1>4, <2>2 DEF BootInv, Copying, CopiedTo
  <2> QED
    BY <2>1, <2>2
<1>6. Booting'
  BY <1>1, <1>2, <1>4 DEF BootInv, Booting, Zeroed, MovedTo
<1> QED
  BY <1>2, <1>3, <1>5, <1>6, MemoryAlone DEF BootInv

\* The boot core finds its code until it branches to the relocated loader.
LEMMA DerailStep ==
    ASSUME Layout, BootInv, NEW c \in Cores, Derail(c)
    PROVE  BootInv'
<1>1. cpc' = [cpc EXCEPT ![c] = "derailed"] /\ UNCHANGED <<mem, x0, x1, x2, filled>>
  BY DEF Derail, Goto
<1>2. CoreType /\ CoreType'
  BY <1>1 DEF BootInv, CoreType, Labels
<1>3. c # BootCore
  <2> SUFFICES ASSUME c = BootCore PROVE CodeThere(c)
    BY DEF Derail
  <2>1. cpc[c] \in {"_start", "dt_copy", "core_check", "parked"} => filled = 0 /\ cpc[c] # "parked"
    BY <1>2 DEF BootInv, Booting, CoreType, Layout
  <2>2. CASE cpc[c] \notin {"_start", "dt_copy", "core_check"}
    BY <2>1, <2>2 DEF CodeThere, Offset
  <2>3. CASE cpc[c] \in {"_start", "dt_copy", "core_check"}
    <3>1. \A i \in 0..BinarySize-1 : mem[Load + i] = <<"bin", i>>
      BY <2>1, <2>3 DEF BootInv, ExecutesIntactCode
    <3>2. Offset[cpc[c]] \in {0, 1, 2}
      BY <2>3 DEF Offset
    <3>3. Offset[cpc[c]] \in 0..BinarySize-1
      BY <3>2 DEF Layout
    <3> QED
      BY <3>1, <3>3 DEF CodeThere
  <2> QED
    BY <2>2, <2>3
<1>4. cpc'[c] = "derailed"
  BY <1>1, <1>2 DEF CoreType
<1>5. ASSUME NEW d \in Cores PROVE Copying(d)'
  <2>1. CASE d # c
    BY <1>1, <1>2, <2>1, OtherCore, MemoryAlone DEF BootInv, CoreType, Same
  <2>2. CASE d = c
    BY <1>4, <2>2 DEF Copying
  <2> QED
    BY <2>1, <2>2
<1>6. Booting'
  BY <1>1, <1>2, <1>3, BootElsewhere, MemoryAlone DEF BootInv, CoreType, Same, Layout
<1> QED
  BY <1>1, <1>2, <1>5, <1>6, MemoryAlone DEF BootInv

\* Every step keeps the invariant.
LEMMA BootNextStep ==
    ASSUME Layout, BootInv, [BootNext]_bootVars
    PROVE  BootInv'
<1>1. ASSUME NEW c \in Cores, Step(c) PROVE BootInv'
  BY <1>1, BoundsStep, CopyStep, CheckStep, BssInitStep, BssDoneStep, RelocateStep,
     WriteStep, EnterStep, DerailStep DEF Step
<1>2. CASE UNCHANGED bootVars
  <2>1. UNCHANGED <<mem, cpc, x0, x1, x2, filled>>
    BY <1>2 DEF bootVars, core
  <2>2. MemType' /\ CoreType' /\ SourceKept' /\ ExecutesIntactCode'
    BY <2>1 DEF BootInv, MemType, CoreType, SourceKept, ExecutesIntactCode
  <2>3. (\A c \in Cores : Copying(c))'
    BY <2>1 DEF BootInv, Copying, CopiedTo
  <2>4. Booting'
    BY <2>1 DEF BootInv, Booting, Zeroed, MovedTo
  <2> QED
    BY <2>2, <2>3, <2>4 DEF BootInv
<1> QED
  BY <1>1, <1>2 DEF BootNext

\* The invariant holds in every behaviour, however the cores are interleaved.
THEOREM BootInvariance == BootSpec => []BootInv
<1>1. BootInit => BootInv
  BY LayoutHolds, BootInitHolds
<1>2. BootInv /\ [BootNext]_bootVars => BootInv'
  BY LayoutHolds, BootNextStep
<1> QED
  BY <1>1, <1>2, PTL DEF BootSpec

\* The boot core always finds the instructions of the loader where it executes
\* them, and never parks, wherever x0 of the other cores points.
THEOREM BootCoreOnCourse == BootSpec => [](cpc[BootCore] \notin {"parked", "derailed"})
<1>1. BootInv => cpc[BootCore] \notin {"parked", "derailed"}
  BY DEF BootInv, Booting
<1> QED
  BY <1>1, BootInvariance, PTL

\* For every layout of memory, every number of cores, every size of the device
\* tree and whatever the other cores have in x0: each unit of the copy that the
\* relocated loader and the kernel find is that unit of what some core copied.
\* BSS, binary and payload do not damage it.
THEOREM CopySafe == BootSpec => []CopyOfSources
<1>1. BootInv => CopyOfSources
  <2> SUFFICES ASSUME BootInv, Relocated(BootCore) PROVE CopyOfSources
    BY DEF CopyOfSources
  <2>1. x0[BootCore] = DtStart /\ CopiedTo(DtStart + DtSize)
    BY LayoutHolds, BootCoreFits DEF BootInv, Booting, Copying, Relocated, Layout
  <2>2. \A i \in 0..DtSize-1 : DtStart + i < DtStart + DtSize
    BY LayoutHolds DEF Layout, DtStart
  <2> QED
    BY <2>1, <2>2 DEF CopyOfSources, CopiedTo
<1> QED
  BY <1>1, BootInvariance, PTL

\* Where every core that gets to the loader has the firmware's device tree in x0,
\* which is always so if only the boot core gets there, the copy is the device
\* tree.  The code does not see to that: with another x0 on another core it does
\* not hold; what holds then is CopyOfSources.
THEOREM DeviceTreeSafe ==
    ASSUME \A c \in Cores : DtPointer[c] = DtAt
    PROVE  BootSpec => []DeviceTreePreserved
<1>1. CopyOfSources => DeviceTreePreserved
  <2>1. \A i \in 0..DtSize-1 : Candidates(i) \subseteq {FirmwareMem[DtAt + i]}
    BY DEF Candidates
  <2> QED
    BY <2>1 DEF CopyOfSources, DeviceTreePreserved
<1> QED
  BY <1>1, CopySafe, PTL

\* The loader that the boot core branches to is the one that was loaded, its BSS
\* is zero, and the payload never reaches either.
THEOREM LoaderSafe == BootSpec => []LoaderRelocated
<1>1. BootInv => LoaderRelocated
  <2> SUFFICES ASSUME BootInv, Relocated(BootCore) PROVE LoaderRelocated
    BY DEF LoaderRelocated
  <2>1. MovedTo(Link + BinarySize) /\ Zeroed(BssEnd)
    BY DEF BootInv, Booting, Relocated
  <2>2. \A i \in 0..BinarySize-1 : Link + i < Link + BinarySize
    BY LayoutHolds DEF Layout
  <2>3. \A a \in BssStart..BssEnd-1 : a < BssEnd
    BY LayoutHolds DEF Layout
  <2> QED
    BY <2>1, <2>2, <2>3 DEF LoaderRelocated, MovedTo, Zeroed
<1> QED
  BY <1>1, BootInvariance, PTL

\* Until the first byte of the payload is written no core executes a changed
\* instruction, wherever x0 of any of them points.
THEOREM CodeSafe == BootSpec => []ExecutesIntactCode
<1>1. BootInv => ExecutesIntactCode
  BY DEF BootInv
<1> QED
  BY <1>1, BootInvariance, PTL
=============================================================================
