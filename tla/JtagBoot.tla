------------------------------ MODULE JtagBoot ------------------------------
(***************************************************************************)
(* X1_JTAG_boot: the small kernel that sets up UART and pins, prints one   *)
(* line and parks its core for the debugger.  It has no exception vectors, *)
(* no MMU, a write_str that does not flush, a panic guard made of a load   *)
(* and a store, and locks (NullLock) that lock nothing out.                *)
(*                                                                         *)
(* Every core that is released has a program counter, and a text it is     *)
(* printing.  A panic abandons what its core was doing, closures under a   *)
(* lock included; Gpio and Pl011 are the hardware.                         *)
(***************************************************************************)
EXTENDS Pl011, Baudrate, SequencesExt

CONSTANTS
    Cores, BootCore,
    Boards, OtherPins, SetUp, MaxAge,   \* as in Gpio
    PowerOnPins,        \* functions and pulls of the pins at power-up
    Residues,           \* what the chainloader may have left in the TX FIFO
    Message, PanicInfo, \* what kernel_main and panic print
    Char, CR, LF,
    NANOSEC_PER_SEC, DELAY,
    NUM_DRIVERS,
    MaxPanics           \* bound: panics in a behaviour

ASSUME JtagAssumption ==
    /\ BootCore \in Cores
    /\ {CR, LF} \subseteq Char /\ CR # LF
    /\ {Message, PanicInfo} \cup Residues \subseteq Seq(Char)
    /\ NUM_DRIVERS \in Nat \ {0, 1} /\ MaxPanics \in Nat

Text == [message |-> Message, report |-> PanicInfo]

-----------------------------------------------------------------------------
(* The timer.  The boot code never stores CNTFRQ_EL0 to the static.        *)

ARCH_TIMER_COUNTER_FREQUENCY == 1

DurationOf(counter_value, f) ==
    (counter_value \div f) * NANOSEC_PER_SEC
        + ((counter_value % f) * NANOSEC_PER_SEC) \div f

CounterValueOf(d, f) ==
    IF d < DurationOf(1, f) THEN 0 ELSE (d * f) \div NANOSEC_PER_SEC

\* How many counts spin_for(DELAY) lasts.
SpinFor == CounterValueOf(DELAY, ARCH_TIMER_COUNTER_FREQUENCY)

-----------------------------------------------------------------------------

VARIABLES
    pc, str,        \* of each core: its place, and the characters left to print
    bss,            \* statics, not zero before boot.s has cleared them
    console,
    latched,        \* divisor the UART runs with
    board,
    gpioPc, gpfsel1, gppud, gppudclk0, settled, pull, age, before,  \* of Gpio
    panics,
    texts           \* history: the texts begun

pins   == <<gpioPc, gpfsel1, gppud, gppudclk0, settled, pull, age, before>>
thread == <<pc, str>>
shared == <<bss, console, latched>>
ghost  == <<board, panics, texts>>
vars   == <<uart, thread, shared, pins, ghost>>

\* The GPIO driver is the kernel's, with the delay of this kernel's timer.
G == INSTANCE Gpio WITH program <- "kernel", pc <- gpioPc,
                        Delay <- SpinFor, ShortDelay <- SpinFor

Statics == [panicInProgress : BOOLEAN, initDone : BOOLEAN, next_index : Nat]
Zeroed  == [panicInProgress |-> FALSE, initDone |-> FALSE, next_index |-> 0]
Garbage == [panicInProgress |-> TRUE, initDone |-> TRUE, next_index |-> NUM_DRIVERS]

Init ==
    /\ pc = [c \in Cores |-> "_start"] /\ str = [c \in Cores |-> <<>>]
    /\ bss \in {Zeroed, Garbage} /\ console = "null" /\ latched = <<0, 0>>
    /\ board \in Boards
    \* The UART of the debug header is set up by the firmware.
    /\ enabled \in BOOLEAN /\ (board = "rpi5_early" => enabled)
    /\ txFifo \in Residues /\ (~enabled => txFifo = <<>>)
    /\ rxFifo = <<>> /\ wire = <<>> /\ lost = <<>> /\ overrun = FALSE
    /\ written = <<>>
    /\ gpioPc = "idle" /\ before \in PowerOnPins
    /\ gpfsel1 = before[1] /\ pull = before[2]
    /\ gppud = "off" /\ gppudclk0 = {} /\ settled = FALSE /\ age = 0
    /\ panics = 0 /\ texts = <<>>

Step(c, from, to) == pc[c] = from /\ pc' = [pc EXCEPT ![c] = to]

-----------------------------------------------------------------------------
(* boot.s: one core goes on, and clears .bss.                              *)

\* Fault variant: the core is not looked at.
CoreCheck_None(c) ==
    /\ Step(c, "_start", "bss")
    /\ UNCHANGED <<uart, str, shared, pins, ghost>>

CoreCheck(c) ==
    /\ Step(c, "_start", IF c = BootCore THEN "bss" ELSE "parked")
    /\ UNCHANGED <<uart, str, shared, pins, ghost>>

BssInit(c) ==
    /\ Step(c, "bss", "register")
    /\ bss' = Zeroed
    /\ UNCHANGED <<uart, str, console, latched, pins, ghost>>

-----------------------------------------------------------------------------
(* kernel_init: register both drivers, then init and callback of each.     *)

\* A second call is an error and a full table an index out of bounds.
Registrable == ~bss.initDone /\ bss.next_index + 2 <= NUM_DRIVERS

RegisterDrivers(c) ==
    /\ Step(c, "register", IF Registrable THEN "uart_flush" ELSE "panic_load")
    /\ IF Registrable
       THEN /\ bss' = [bss EXCEPT !.next_index = @ + 2, !.initDone = TRUE]
            /\ panics' = panics
       ELSE bss' = bss /\ panics' = panics + 1
    /\ UNCHANGED <<uart, str, console, latched, pins, board, texts>>

\* Fault variant: init does not wait for BUSY.
InitFlush_NoWait(c) ==
    /\ Step(c, "uart_flush",
            IF board = "rpi5_early" THEN "post_uart" ELSE "uart_off")
    /\ UNCHANGED <<uart, str, shared, pins, ghost>>

InitFlush(c) ==
    /\ ~BUSY
    /\ Step(c, "uart_flush",
            IF board = "rpi5_early" THEN "post_uart" ELSE "uart_off")
    /\ UNCHANGED <<uart, str, shared, pins, ghost>>

InitOff(c) ==
    /\ Step(c, "uart_off", "uart_baud")
    /\ TurnOff
    /\ UNCHANGED <<str, shared, pins, ghost>>

InitBaud(c) ==
    /\ Step(c, "uart_baud", "uart_on")
    /\ latched' = Divisor(48000000, 115200)
    /\ UNCHANGED <<uart, str, bss, console, pins, ghost>>

InitOn(c) ==
    /\ Step(c, "uart_on", "post_uart")
    /\ TurnOn
    /\ UNCHANGED <<str, shared, pins, ghost>>

PostInitUart(c) ==
    /\ Step(c, "post_uart", "post_gpio")
    /\ console' = "uart"
    /\ UNCHANGED <<uart, str, bss, latched, pins, ghost>>

\* Fault variant: the descriptor of the GPIO driver has no callback.
PostInitGpio_None(c) ==
    /\ Step(c, "post_gpio", "main")
    /\ UNCHANGED <<uart, str, shared, pins, ghost>>

PostInitGpio(c) ==
    /\ Step(c, "post_gpio", "gpio")
    /\ gpioPc' = "select"
    /\ UNCHANGED <<uart, str, shared, gpfsel1, gppud, gppudclk0, settled, pull,
                   age, before, ghost>>

MapPl011Uart(c) ==
    /\ G!MapPl011Uart
    /\ Step(c, "gpio", IF gpioPc' = "done" THEN "main" ELSE "gpio")
    /\ UNCHANGED <<uart, str, shared, panics, texts>>

-----------------------------------------------------------------------------
(* A text goes to the console character by character.  Behind it, both in  *)
(* kernel_main and in panic, is wait_forever.                              *)

Println(c, from, t) ==
    /\ Step(c, from, IF console = "null" THEN "parked" ELSE "write")
    /\ str' = [str EXCEPT ![c] = IF console = "null" THEN <<>> ELSE Text[t]]
    /\ texts' = Append(texts, t)
    /\ UNCHANGED <<uart, shared, pins, board, panics>>

KernelMain(c) == Println(c, "main", "message")

\* At its end write_str does not flush.
WriteReturns(c) ==
    /\ str[c] = <<>>
    /\ Step(c, "write", "parked")
    /\ UNCHANGED <<uart, str, shared, pins, ghost>>

\* Fault variant: the wait is for a full FIFO.
WaitForSlot_Inverted(c) ==
    /\ str[c] # <<>> /\ TXFF
    /\ Step(c, "write", IF Head(str[c]) = LF THEN "put_cr" ELSE "put")
    /\ UNCHANGED <<uart, str, shared, pins, ghost>>

WaitForSlot(c) ==
    /\ str[c] # <<>> /\ ~TXFF
    /\ Step(c, "write", IF Head(str[c]) = LF THEN "put_cr" ELSE "put")
    /\ UNCHANGED <<uart, str, shared, pins, ghost>>

PutCr(c) ==
    /\ Step(c, "put_cr", "put")
    /\ WriteDR(CR)
    /\ UNCHANGED <<str, shared, pins, ghost>>

Put(c) ==
    /\ Step(c, "put", "write")
    /\ WriteDR(Head(str[c]))
    /\ str' = [str EXCEPT ![c] = Tail(@)]
    /\ UNCHANGED <<shared, pins, ghost>>

-----------------------------------------------------------------------------
(* The panic handler.                                                      *)

\* Any line of Rust may panic, the handler's own println! too; between guard and
\* println! it only converts a time, without a check, and matches a location.
Abandoned == {"register", "uart_flush", "uart_off", "uart_baud", "uart_on",
              "post_uart", "post_gpio", "gpio", "main", "write", "put_cr", "put"}

Panics(c) ==
    /\ panics < MaxPanics
    /\ \E place \in Abandoned : Step(c, place, "panic_load")
    /\ panics' = panics + 1
    /\ UNCHANGED <<uart, str, shared, pins, board, texts>>

\* Fault variant: the guard does not stop a second panic.
PanicLoad_NoStop(c) ==
    /\ Step(c, "panic_load",
            IF bss.panicInProgress THEN "panic_print" ELSE "panic_store")
    /\ UNCHANGED <<uart, str, shared, pins, ghost>>

PanicLoad(c) ==
    /\ Step(c, "panic_load",
            IF bss.panicInProgress THEN "parked" ELSE "panic_store")
    /\ UNCHANGED <<uart, str, shared, pins, ghost>>

PanicStore(c) ==
    /\ Step(c, "panic_store", "panic_print")
    /\ bss' = [bss EXCEPT !.panicInProgress = TRUE]
    /\ UNCHANGED <<uart, str, console, latched, pins, ghost>>

PanicPrint(c) == Println(c, "panic_print", "report")

-----------------------------------------------------------------------------

Kernel(c) ==
    \/ CoreCheck(c) \/ BssInit(c) \/ RegisterDrivers(c)
    \/ InitFlush(c) \/ InitOff(c) \/ InitBaud(c) \/ InitOn(c)
    \/ PostInitUart(c) \/ PostInitGpio(c) \/ MapPl011Uart(c)
    \/ KernelMain(c) \/ WriteReturns(c) \/ WaitForSlot(c) \/ PutCr(c) \/ Put(c)
    \/ PanicLoad(c) \/ PanicStore(c) \/ PanicPrint(c)

TransmitChar == Transmit /\ UNCHANGED <<thread, shared, pins, ghost>>

\* Time matters while the pulls are being set only.
Tick == /\ gpioPc \notin {"idle", "done"}
        /\ G!TimePasses
        /\ UNCHANGED <<uart, thread, shared, panics, texts>>

Next == TransmitChar \/ Tick \/ \E c \in Cores : Kernel(c) \/ Panics(c)

\* Every core runs, the transmitter goes on sending, and time passes.
Spec == /\ Init /\ [][Next]_vars
        /\ \A c \in Cores : WF_vars(Kernel(c))
        /\ WF_vars(TransmitChar) /\ WF_vars(Tick)

-----------------------------------------------------------------------------
(* Properties.                                                             *)

\* Places, statics and histories hold values of their types.
Place == Abandoned \cup
         {"_start", "bss", "parked", "panic_load", "panic_store", "panic_print"}
TypeOK ==
    /\ pc \in [Cores -> Place]
    /\ bss \in Statics
    /\ panics \in Nat
    /\ texts \in Seq({"message", "report"})

\* panic_wait.rs:13, "Stop immediately if called a second time", with a guard
\* of two instructions: whatever panics where, one report is begun - and with
\* it the first panic is the one reported, not none.
ReportAt(i) == i \in 1..Len(texts) /\ texts[i] = "report"
OneReport ==
    /\ \A i, j \in 1..Len(texts) : ReportAt(i) /\ ReportAt(j) => i = j
    /\ panics > 0 /\ (\A c \in Cores : pc[c] = "parked")
         => \E i \in 1..Len(texts) : ReportAt(i)

\* synchronization.rs:38, "only be used as long as it is safe to do so": a
\* closure under the lock of the UART is entered a second time only by the
\* panic of its own core, and the one that was cut off never goes on.  What is
\* written to the UART is the message up to the cut, then the report.
Reach(s, i) == i + Cardinality({j \in 1..i : s[j] = LF})
Crlf(s) ==
    [n \in 1..Reach(s, Len(s)) |->
        IF \E i \in 1..Len(s) : Reach(s, i) = n
        THEN s[CHOOSE i \in 1..Len(s) : Reach(s, i) = n] ELSE CR]
TextsInOrder ==
    \E n \in 0..Len(written) :
        /\ IsPrefix(SubSeq(written, 1, n), Crlf(Message))
        /\ IsPrefix(SubSeq(written, n + 1, Len(written)), Crlf(PanicInfo))

\* What the chainloader left in the FIFO survives the init of this kernel, and
\* of its own texts no more than line feeds go missing, flush or no flush.
OnlyLineFeedsLost == \A i \in 1..Len(lost) : lost[i] = LF

\* main.rs:138, "println! is usable from here on": the message is handed to a
\* UART that is on, at the rate of the chainloader, and has its pins.
LineReady ==
    \A c \in Cores : pc[c] \in {"put_cr", "put"} /\ texts = <<"message">> =>
        /\ enabled /\ \A p \in {14, 15} : gpfsel1[p] = "alt0"
        /\ board # "rpi5_early" => latched = ChainloaderDivisor

\* All cores end parked, and although none of them waits for it, the message
\* has then left the UART, unless a panic came in between.
Printable(s) == SelectSeq(s, LAMBDA c : c # LF)
ComesToRest ==
    <>[](/\ \A c \in Cores : pc[c] = "parked"
         /\ txFifo = <<>>
         /\ panics = 0 => IsSuffix(Printable(Crlf(Message)), Printable(wire)))

\* bcm2xxx_gpio.rs:141, "Disable pull-up/down on pins 14 and 15", with waits of
\* 1 us between the steps (148) by a timer whose frequency "boot assembly code
\* overwrites" (time.rs:40).
PullsDisabled == G!PullsDisabled
=============================================================================
