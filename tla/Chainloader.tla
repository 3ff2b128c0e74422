----------------------------- MODULE Chainloader ----------------------------
(***************************************************************************)
(* The upload of a kernel over the serial line: chainloader.rs on the      *)
(* board, the host tool (MiniPush) at the other end, and the UART between  *)
(* them.  The host is external: it waits for three consecutive ETX, sends  *)
(* the size as four little-endian bytes, waits for "OK", sends the file    *)
(* and turns into a terminal.  The board may be reset at any time without  *)
(* the host being told.                                                    *)
(*                                                                         *)
(* A byte has Base values (256 in the code).                               *)
(***************************************************************************)
EXTENDS Pl011

CONSTANTS Base,
          Files,        \* what the host may be asked to upload
          Gap,          \* bytes from the load address to the relocated loader
                        \* and the used end of its stack
          Banner, Loaded,   \* the texts of write_str
          Text,         \* the characters they are made of, without LF
          CR, LF, ETX, O, K,
          Residues,     \* what the firmware may have left in the TX FIFO
          MaxNoise,     \* bound: stray bytes before the request
          MaxResets     \* bound: resets of the board

Byte == 0..Base-1
Char == Text \cup {CR, LF, ETX, O, K}

ASSUME ChainloaderAssumption ==
    /\ Base \in Nat /\ Base > 1
    /\ Files \subseteq Seq(Byte)
    /\ \A f \in Files : Len(f) < Base * Base * Base * Base
    /\ Gap \in Nat
    /\ Banner \in Seq(Text \cup {LF}) /\ Banner # <<>>
    /\ Loaded \in Seq(Text \cup {LF})
    /\ CR \notin Text /\ LF \notin Text /\ ETX \notin Text
    /\ LF # CR /\ ETX # CR /\ ETX # LF /\ O # ETX /\ K # ETX /\ O # LF /\ K # LF
    /\ Residues \subseteq Seq(Text) /\ \A r \in Residues : Len(r) <= TxDepth
    /\ MaxNoise \in Nat /\ MaxResets \in Nat
    /\ RxDepth >= 4

VARIABLES
    pc,         \* where run is
    out,        \* bytes write_str has left
    crDone,     \* the CR in front of the LF at the head of out is written
    got,        \* size bytes read
    size,       \* the size assembled so far
    image,      \* the bytes written at PAYLOAD_LOAD_ADDR, offset by offset
    file,       \* host: the file to upload
    hpc,        \* host: where the tool is
    seen,       \* host: characters of the wire it has read
    match,      \* host: consecutive characters of what it waits for
    hsent,      \* host: bytes of the size or of the file it has sent
    noise, resets,
    torn,       \* history: the board was reset under an upload
    epoch       \* history: lengths of written and wire at the last reset

loader == <<pc, out, crDone, got, size, image>>
host   == <<file, hpc, seen, match, hsent>>
env    == <<noise, resets, torn, epoch>>
vars   == <<uart, loader, host, env>>

Weight(i) == CASE i = 0 -> 1 [] i = 1 -> Base
               [] i = 2 -> Base * Base [] i = 3 -> Base * Base * Base
Digit(n, i) == (n \div Weight(i)) % Base

Init ==
    /\ enabled \in BOOLEAN /\ txFifo \in Residues
    /\ ~enabled => txFifo = <<>>
    /\ rxFifo = <<>> /\ overrun = FALSE
    /\ written = txFifo /\ wire = <<>> /\ lost = <<>>
    /\ pc = "init_flush" /\ out = <<>> /\ crDone = FALSE
    /\ got = 0 /\ size = 0 /\ image = <<>>
    /\ file \in Files /\ hpc = "wait_request"
    /\ seen = 0 /\ match = 0 /\ hsent = 0
    /\ noise = 0 /\ resets = 0 /\ torn = FALSE /\ epoch = <<0, 0>>

-----------------------------------------------------------------------------
(* The board: run, step by step.                                           *)

InitFlush ==
    /\ pc = "init_flush" /\ ~BUSY
    /\ pc' = "init_off"
    /\ UNCHANGED <<uart, out, crDone, got, size, image>>

InitOff ==
    /\ pc = "init_off"
    /\ TurnOff
    /\ pc' = "init_on"
    /\ UNCHANGED <<out, crDone, got, size, image>>

InitOn ==
    /\ pc = "init_on"
    /\ TurnOn
    /\ pc' = "banner" /\ out' = Banner
    /\ UNCHANGED <<crDone, got, size, image>>

\* Fault variant: write_byte does not look at TXFF.
WriteByte_NoWait ==
    /\ out # <<>>
    /\ IF Head(out) = LF /\ ~crDone
       THEN WriteDR(CR) /\ crDone' = TRUE /\ out' = out
       ELSE WriteDR(Head(out)) /\ crDone' = FALSE /\ out' = Tail(out)
    /\ UNCHANGED <<pc, got, size, image>>

\* write_byte, with the CR write_str puts in front of an LF.
WriteByte ==
    /\ out # <<>> /\ ~TXFF
    /\ IF Head(out) = LF /\ ~crDone
       THEN WriteDR(CR) /\ crDone' = TRUE /\ out' = out
       ELSE WriteDR(Head(out)) /\ crDone' = FALSE /\ out' = Tail(out)
    /\ UNCHANGED <<pc, got, size, image>>

\* Fault variant: the request is sent before clear_rx.
BannerDone_RequestFirst ==
    /\ pc = "banner" /\ out = <<>>
    /\ pc' = "clear" /\ out' = <<ETX, ETX, ETX>>
    /\ UNCHANGED <<uart, crDone, got, size, image>>

BannerDone ==
    /\ pc = "banner" /\ out = <<>>
    /\ pc' = "clear"
    /\ UNCHANGED <<uart, out, crDone, got, size, image>>

ClearRx ==
    /\ pc = "clear"
    /\ IF RXFE
       THEN pc' = "request" /\ out' = <<ETX, ETX, ETX>> /\ UNCHANGED uart
       ELSE ReadDR /\ UNCHANGED <<pc, out>>
    /\ UNCHANGED <<crDone, got, size, image>>

RequestDone ==
    /\ pc = "request" /\ out = <<>>
    /\ pc' = "size"
    /\ UNCHANGED <<uart, out, crDone, got, size, image>>

ReadSize ==
    /\ pc = "size" /\ ~RXFE
    /\ ReadDR
    /\ size' = size + Head(rxFifo) * Weight(got)
    /\ got' = got + 1
    /\ IF got = 3 THEN pc' = "ok" /\ out' = <<O, K>> ELSE UNCHANGED <<pc, out>>
    /\ UNCHANGED <<crDone, image>>

OkDone ==
    /\ pc = "ok" /\ out = <<>>
    /\ pc' = "payload"
    /\ UNCHANGED <<uart, out, crDone, got, size, image>>

\* Fault variant: every byte goes to the load address itself.
ReadPayload_NoOffset ==
    /\ pc = "payload" /\ Len(image) < size /\ ~RXFE
    /\ ReadDR
    /\ image' = <<Head(rxFifo)>>
    /\ UNCHANGED <<pc, out, crDone, got, size>>

\* One turn of the copy loop.  Past Gap bytes the loop writes over the loader
\* that executes it; what happens from there on is not modelled.
ReadPayload ==
    /\ pc = "payload" /\ Len(image) < size /\ ~RXFE
    /\ ReadDR
    /\ IF Len(image) < Gap
       THEN image' = Append(image, Head(rxFifo)) /\ pc' = pc
       ELSE pc' = "overwritten" /\ UNCHANGED image
    /\ UNCHANGED <<out, crDone, got, size>>

\* Fault variants: the loop ends one byte early, or expects one more.
PayloadDone_Early ==
    /\ pc = "payload" /\ Len(image) + 1 >= size
    /\ pc' = "loaded" /\ out' = Loaded
    /\ UNCHANGED <<uart, crDone, got, size, image>>

PayloadDone_Inclusive ==
    /\ pc = "payload" /\ Len(image) = size + 1
    /\ pc' = "loaded" /\ out' = Loaded
    /\ UNCHANGED <<uart, crDone, got, size, image>>

PayloadDone ==
    /\ pc = "payload" /\ Len(image) = size
    /\ pc' = "loaded" /\ out' = Loaded
    /\ UNCHANGED <<uart, crDone, got, size, image>>

LoadedDone ==
    /\ pc = "loaded" /\ out = <<>>
    /\ pc' = "flush"
    /\ UNCHANGED <<uart, out, crDone, got, size, image>>

\* The last character is on the wire: enter the kernel.
EnterKernel ==
    /\ pc = "flush" /\ ~BUSY
    /\ pc' = "kernel"
    /\ UNCHANGED <<uart, out, crDone, got, size, image>>

Board ==
    /\ \/ InitFlush \/ InitOff \/ InitOn \/ WriteByte \/ BannerDone \/ ClearRx
       \/ RequestDone \/ ReadSize \/ OkDone \/ ReadPayload \/ PayloadDone
       \/ LoadedDone \/ EnterKernel
    /\ UNCHANGED <<host, env>>

TransmitByte == Transmit /\ UNCHANGED <<loader, host, env>>

-----------------------------------------------------------------------------
(* The host tool (external).                                               *)

HostWaitRequest ==
    /\ hpc = "wait_request" /\ seen < Len(wire)
    /\ seen' = seen + 1
    /\ LET n == IF wire[seen + 1] = ETX THEN match + 1 ELSE 0
       IN  IF n = 3 THEN hpc' = "size" /\ match' = 0
                    ELSE hpc' = hpc    /\ match' = n
    /\ UNCHANGED <<uart, file, hsent>>

HostSendSize ==
    /\ hpc = "size"
    /\ Receive(Digit(Len(file), hsent))
    /\ IF hsent = 3 THEN hpc' = "wait_ok" /\ hsent' = 0
                    ELSE hpc' = hpc       /\ hsent' = hsent + 1
    /\ UNCHANGED <<file, seen, match>>

HostWaitOk ==
    /\ hpc = "wait_ok" /\ seen < Len(wire)
    /\ seen' = seen + 1
    /\ LET c == wire[seen + 1]
       IN  CASE match = 0 /\ c = O -> match' = 1 /\ hpc' = hpc
             [] match = 1 /\ c = K -> match' = 0 /\ hpc' = "file"
             [] OTHER              -> match' = 0 /\ hpc' = "failed"
    /\ UNCHANGED <<uart, file, hsent>>

\* The board takes a byte from the receive FIFO in much less than the time a
\* byte needs on the line, so a byte of the file arrives only when the loop
\* is less than a FIFO behind; a board that was reset is not waited for.
HostSendFile ==
    /\ hpc = "file" /\ hsent < Len(file)
    /\ ~torn => Accepts
    /\ Receive(file[hsent + 1])
    /\ hsent' = hsent + 1
    /\ UNCHANGED <<file, hpc, seen, match>>

HostDone ==
    /\ hpc = "file" /\ hsent = Len(file)
    /\ hpc' = "terminal"
    /\ UNCHANGED <<uart, file, seen, match, hsent>>

Host ==
    /\ \/ HostWaitRequest \/ HostSendSize \/ HostWaitOk \/ HostSendFile
       \/ HostDone
    /\ UNCHANGED <<loader, env>>

-----------------------------------------------------------------------------
(* The environment: stray bytes on the line, and the reset button.         *)

Noise ==
    /\ noise < MaxNoise
    /\ pc \in {"init_flush", "init_off", "init_on", "banner"}
    /\ hpc = "wait_request"
    /\ \E b \in Byte : Receive(b)
    /\ noise' = noise + 1
    /\ UNCHANGED <<loader, host, resets, torn, epoch>>

\* The host has been asked, or will find the request on the line.
Requested ==
    \/ hpc # "wait_request"
    \/ Len(wire) >= 3 /\ SubSeq(wire, Len(wire) - 2, Len(wire)) = <<ETX, ETX, ETX>>

\* What is in the FIFOs is gone; the host is not told.
Reset ==
    /\ resets < MaxResets
    /\ resets' = resets + 1
    /\ torn' = (torn \/ Requested)
    /\ epoch' = <<Len(written), Len(wire)>>
    /\ pc' = "init_flush" /\ out' = <<>> /\ crDone' = FALSE
    /\ got' = 0 /\ size' = 0 /\ image' = <<>>
    /\ enabled' = FALSE /\ txFifo' = <<>> /\ rxFifo' = <<>>
    /\ lost' = lost \o txFifo
    /\ UNCHANGED <<written, wire, overrun, host, noise>>

Next == Board \/ TransmitByte \/ Host \/ Noise \/ Reset

Spec ==
    /\ Init /\ [][Next]_vars
    /\ WF_vars(Board) /\ WF_vars(TransmitByte) /\ WF_vars(Host)
-----------------------------------------------------------------------------
(* Properties.                                                             *)

\* The kernel that is entered is the file the host was asked to upload,
\* whatever was on the line before the request, unless the board was reset
\* under a running upload.  The UART is quiet by then, and what the loader had
\* to say is all on the wire: the kernel's own init cuts nothing off.
PayloadIntact ==
    pc = "kernel" =>
        /\ ~torn => image = file /\ RXFE
        /\ ~BUSY /\ (resets = 0 => wire = written)

\* Neither side gets ahead of the other: the host answers a request only when
\* the board is past clear_rx, so that clear_rx never eats a byte of the
\* protocol, and the file starts only when the size has been read.
HandshakeInStep ==
    ~torn =>
        /\ hpc # "wait_request" =>
               pc \notin {"init_flush", "init_off", "init_on", "banner", "clear"}
        /\ hpc \in {"file", "terminal"} => got = 4
        /\ hpc # "failed"

\* Every byte the host sent of the size is in the FIFO or read, and every
\* byte of the file is in the FIFO or in memory: none is dropped, none is
\* taken twice.
NothingInBetween ==
    ~torn =>
        /\ hpc = "size" => got + Len(rxFifo) = hsent
        /\ hpc = "file" /\ pc # "overwritten" =>
               image \o rxFifo = SubSeq(file, 1, hsent)

\* What the loader writes since the last reset is delivered as module
\* ReliableStream promises: a reset loses what is queued, and nothing else does.
Stream == INSTANCE ReliableStream WITH
              sent      <- SubSeq(written, epoch[1] + 1, Len(written)),
              delivered <- SubSeq(wire, epoch[2] + 1, Len(wire))
StreamSpec == Stream!Spec

\* Every upload ends in the kernel, unless the file reaches the loader or the
\* board was reset under it.
EventuallyBoots == <>(pc = "kernel" \/ torn \/ Len(file) > Gap)
=============================================================================
