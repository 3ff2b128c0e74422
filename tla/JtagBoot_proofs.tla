--------------------------- MODULE JtagBoot_proofs ---------------------------
(***************************************************************************)
(* The load and the store that guard the panic of X1_JTAG_boot are enough, *)
(* for every number of cores, drivers, panics and texts: only the boot     *)
(* core gets past the core check, so nothing comes between the two.  And   *)
(* the line the kernel prints goes to a UART that is on, at the right rate *)
(* and on its pins, loses at most line feeds of it, and carries the        *)
(* message up to a panic and the report behind it, never a mixture.        *)
(***************************************************************************)
EXTENDS JtagBoot, FiniteSetTheorems, SequenceTheorems, TLAPS

\* No other core than the boot core leaves boot.s.
OthersParked == \A c \in Cores \ {BootCore} : pc[c] \in {"_start", "parked"}

Begun == \E i \in 1..Len(texts) : ReportAt(i)

\* How far the boot core is, what the guard says, and whether there is a report.
Guarded ==
    LET p == pc[BootCore] IN
    /\ p \in {"_start", "bss"} => panics = 0 /\ texts = <<>>
    /\ p \notin {"_start", "bss"} =>
          /\ bss.panicInProgress \/ p \in {"panic_load", "panic_store"} => panics > 0
          /\ p = "panic_print" => bss.panicInProgress
          /\ p = "panic_store" => ~bss.panicInProgress
          /\ Begun <=> bss.panicInProgress /\ p # "panic_print"
          /\ panics > 0 => bss.panicInProgress \/ p \in {"panic_load", "panic_store"}

AtMostOne == \A i, j \in 1..Len(texts) : ReportAt(i) /\ ReportAt(j) => i = j

IInv == TypeOK /\ OthersParked /\ Guarded /\ AtMostOne
-----------------------------------------------------------------------------

\* A text that is begun behind the others is a report if it is one.
LEMMA Append_ReportAt ==
    ASSUME texts \in Seq({"message", "report"}), NEW t \in {"message", "report"},
           texts' = Append(texts, t)
    PROVE  /\ texts' \in Seq({"message", "report"})
           /\ Begun' <=> Begun \/ t = "report"
           /\ AtMostOne /\ (t = "report" => ~Begun) => AtMostOne'
<1>1. /\ texts' \in Seq({"message", "report"})
      /\ Len(texts') = Len(texts) + 1
      /\ \A i \in 1..Len(texts) : texts'[i] = texts[i]
      /\ texts'[Len(texts) + 1] = t
  OBVIOUS
<1>2. Len(texts) \in Nat
  OBVIOUS
<1>3. Begun' <=> Begun \/ t = "report"
  BY <1>1, <1>2 DEF Begun, ReportAt
<1>4. AtMostOne /\ (t = "report" => ~Begun) => AtMostOne'
  BY <1>1, <1>2 DEF AtMostOne, Begun, ReportAt
<1> QED BY <1>1, <1>3, <1>4

\* The initial states, whatever .bss holds.
LEMMA InitIInv == Init => IInv
<1> SUFFICES ASSUME Init PROVE IInv
  OBVIOUS
<1>1. pc = [c \in Cores |-> "_start"] /\ panics = 0 /\ texts = <<>>
  BY DEF Init
<1>2. bss \in Statics
  <2>1. Zeroed \in Statics
    BY DEF Statics, Zeroed
  <2>2. NUM_DRIVERS \in Nat
    BY JtagAssumption
  <2>3. Garbage \in Statics
    BY <2>2 DEF Statics, Garbage
  <2> QED BY <2>1, <2>3 DEF Init
<1>3. TypeOK
  BY <1>1, <1>2 DEF TypeOK, Place
<1>4. OthersParked /\ Guarded
  BY <1>1, JtagAssumption DEF OthersParked, Guarded
<1>5. AtMostOne
  BY <1>1 DEF AtMostOne, ReportAt
<1> QED BY <1>3, <1>4, <1>5 DEF IInv

\* A step outside boot.s and outside the panic handler, by whatever core.
LEMMA Ordinary ==
    ASSUME IInv, NEW c \in Cores, NEW from \in Abandoned,
           NEW to \in Abandoned \cup {"parked"}, Step(c, from, to),
           bss' \in Statics, bss'.panicInProgress = bss.panicInProgress,
           UNCHANGED <<panics, texts>>
    PROVE  IInv'
<1>1. c = BootCore
  BY DEF IInv, OthersParked, Step, Abandoned
<1>2. pc' = [pc EXCEPT ![BootCore] = to] /\ pc[BootCore] = from /\ BootCore \in Cores
  BY <1>1, JtagAssumption DEF Step
<1>3. TypeOK'
  BY <1>2 DEF IInv, TypeOK, Place
<1>4. OthersParked'
  BY <1>2 DEF IInv, TypeOK, OthersParked
<1>5. pc'[BootCore] = to
  BY <1>2 DEF IInv, TypeOK
<1>6. Begun' <=> Begun
  BY DEF Begun, ReportAt
<1>7. Guarded'
  BY <1>2, <1>5, <1>6 DEF IInv, Guarded, Abandoned
<1>8. AtMostOne'
  BY DEF IInv, AtMostOne, ReportAt
<1> QED BY <1>3, <1>4, <1>7, <1>8 DEF IInv

\* The steps of boot.s.
LEMMA BootSteps ==
    ASSUME IInv, NEW c \in Cores, CoreCheck(c) \/ BssInit(c)
    PROVE  IInv'
<1>1. CASE CoreCheck(c)
  <2>1. TypeOK'
    BY <1>1 DEF CoreCheck, Step, shared, ghost, IInv, TypeOK, Place, Abandoned
  <2>2. OthersParked'
    BY <1>1 DEF CoreCheck, Step, IInv, TypeOK, OthersParked
  <2>3. Guarded'
    <3>1. CASE c = BootCore
      BY <1>1, <3>1 DEF CoreCheck, Step, shared, ghost, IInv, TypeOK, Guarded
    <3>2. CASE c # BootCore
      <4>1. pc'[BootCore] = pc[BootCore]
        BY <1>1, <3>2 DEF CoreCheck, Step, IInv, TypeOK
      <4> QED BY <1>1, <4>1 DEF CoreCheck, shared, ghost, IInv, Guarded, Begun, ReportAt
    <3> QED BY <3>1, <3>2
  <2>4. AtMostOne'
    BY <1>1 DEF CoreCheck, ghost, IInv, AtMostOne, ReportAt
  <2> QED BY <2>1, <2>2, <2>3, <2>4 DEF IInv
<1>2. CASE BssInit(c)
  <2>1. c = BootCore /\ pc[BootCore] = "bss" /\ pc' = [pc EXCEPT ![BootCore] = "register"]
    BY <1>2 DEF BssInit, Step, IInv, OthersParked
  <2>2. bss' = Zeroed /\ UNCHANGED <<panics, texts>>
    BY <1>2 DEF BssInit, ghost
  <2>3. TypeOK'
    BY <2>1, <2>2 DEF IInv, TypeOK, Place, Abandoned, Statics, Zeroed
  <2>4. OthersParked'
    BY <2>1 DEF IInv, TypeOK, OthersParked
  <2>5. Guarded'
    <3>1. pc'[BootCore] = "register"
      BY <2>1, JtagAssumption DEF IInv, TypeOK
    <3>2. panics' = 0 /\ texts' = <<>>
      BY <2>1, <2>2 DEF IInv, Guarded
    <3>3. ~Begun' /\ ~bss'.panicInProgress
      BY <2>2, <3>2 DEF Begun, ReportAt, Zeroed
    <3> QED BY <3>1, <3>2, <3>3 DEF Guarded
  <2>6. AtMostOne'
    BY <2>2 DEF IInv, AtMostOne, ReportAt
  <2> QED BY <2>3, <2>4, <2>5, <2>6 DEF IInv
<1> QED BY <1>1, <1>2

\* A panic, and its guard.
LEMMA PanicSteps ==
    ASSUME IInv, NEW c \in Cores,
           Panics(c) \/ PanicLoad(c) \/ PanicStore(c)
    PROVE  IInv'
<1>1. c = BootCore /\ pc[BootCore] \in Abandoned \cup {"panic_load", "panic_store"}
  BY DEF Panics, PanicLoad, PanicStore, Step, IInv, OthersParked, Abandoned
<1>2. PICK to \in {"panic_load", "panic_store", "panic_print", "parked"} :
         pc' = [pc EXCEPT ![BootCore] = to]
  BY <1>1 DEF Panics, PanicLoad, PanicStore, Step
<1>3. pc'[BootCore] = to
  BY <1>2, JtagAssumption DEF IInv, TypeOK
<1>4. texts' = texts /\ bss' \in Statics /\ panics' \in Nat
  <2>1. texts' = texts /\ panics' \in {panics, panics + 1}
    BY DEF Panics, PanicLoad, PanicStore, ghost
  <2>2. bss' \in {bss, [bss EXCEPT !.panicInProgress = TRUE]}
    BY DEF Panics, PanicLoad, PanicStore, shared
  <2>3. [bss EXCEPT !.panicInProgress = TRUE] \in Statics
    BY DEF IInv, TypeOK, Statics
  <2>4. bss \in Statics /\ panics \in Nat
    BY DEF IInv, TypeOK
  <2>5. bss' \in Statics
    BY <2>2, <2>3, <2>4
  <2> QED BY <2>1, <2>4, <2>5
<1>5. TypeOK'
  BY <1>2, <1>4 DEF IInv, TypeOK, Place
<1>6. OthersParked'
  BY <1>2 DEF IInv, TypeOK, OthersParked
<1>7. Begun' <=> Begun
  BY <1>4 DEF Begun, ReportAt
<1>8. Guarded'
  <2>1. CASE Panics(c)
    <3>1. to = "panic_load" /\ bss' = bss /\ panics' = panics + 1 /\ pc[BootCore] \in Abandoned
      BY <1>1, <1>3, <2>1, JtagAssumption DEF Panics, Step, shared, IInv, TypeOK
    <3> QED BY <1>3, <1>7, <3>1 DEF IInv, TypeOK, Guarded, Abandoned
  <2>2. CASE PanicLoad(c)
    <3>1. /\ to = IF bss.panicInProgress THEN "parked" ELSE "panic_store"
          /\ bss' = bss /\ panics' = panics /\ pc[BootCore] = "panic_load"
      BY <1>1, <1>3, <2>2, JtagAssumption DEF PanicLoad, Step, shared, ghost, IInv, TypeOK
    <3> QED BY <1>3, <1>7, <3>1 DEF IInv, TypeOK, Guarded
  <2>3. CASE PanicStore(c)
    <3>1. /\ to = "panic_print" /\ bss' = [bss EXCEPT !.panicInProgress = TRUE]
          /\ panics' = panics /\ pc[BootCore] = "panic_store"
      BY <1>1, <1>3, <2>3, JtagAssumption DEF PanicStore, Step, ghost, IInv, TypeOK
    <3>2. bss'.panicInProgress
      BY <3>1 DEF IInv, TypeOK, Statics
    <3> QED BY <1>3, <1>7, <3>1, <3>2 DEF IInv, TypeOK, Guarded
  <2> QED BY <2>1, <2>2, <2>3
<1>9. AtMostOne'
  BY <1>4 DEF IInv, AtMostOne, ReportAt
<1> QED BY <1>5, <1>6, <1>8, <1>9 DEF IInv

\* println!, from kernel_main or from the panic handler.
LEMMA PrintlnSteps ==
    ASSUME IInv, NEW c \in Cores, KernelMain(c) \/ PanicPrint(c)
    PROVE  IInv'
<1>1. PICK from \in {"main", "panic_print"}, t \in {"message", "report"} :
        /\ Println(c, from, t)
        /\ t = "report" <=> from = "panic_print"
  BY DEF KernelMain, PanicPrint
<1>2. PICK to \in {"parked", "write"} : Step(c, from, to)
  BY <1>1 DEF Println
<1>3. c = BootCore
  BY <1>2 DEF IInv, OthersParked, Step
<1>4. pc' = [pc EXCEPT ![BootCore] = to] /\ pc[BootCore] = from /\ BootCore \in Cores
  BY <1>2, <1>3 DEF Step
<1>5. pc'[BootCore] = to
  BY <1>4 DEF IInv, TypeOK
<1>6. texts' = Append(texts, t) /\ bss' = bss /\ panics' = panics
  BY <1>1 DEF Println, shared
<1>7. t = "report" => ~Begun
  BY <1>1, <1>4 DEF IInv, Guarded
<1>8. texts \in Seq({"message", "report"})
  BY DEF IInv, TypeOK
<1>9. /\ texts' \in Seq({"message", "report"})
      /\ Begun' <=> Begun \/ t = "report"
      /\ AtMostOne'
  BY <1>6, <1>7, <1>8, Append_ReportAt DEF IInv
<1>10. TypeOK'
  BY <1>4, <1>6, <1>9 DEF IInv, TypeOK, Place, Abandoned
<1>11. OthersParked'
  BY <1>4 DEF IInv, TypeOK, OthersParked
<1>12. Guarded'
  <2>1. to \notin {"_start", "bss", "panic_print", "panic_store", "panic_load"}
    OBVIOUS
  <2>2. from \notin {"_start", "bss", "panic_store", "panic_load"}
    OBVIOUS
  <2> QED BY <1>1, <1>4, <1>5, <1>6, <1>9, <2>1, <2>2 DEF IInv, Guarded
<1> QED BY <1>9, <1>10, <1>11, <1>12 DEF IInv

\* kernel_init registers the drivers, or panics.
LEMMA RegisterStep ==
    ASSUME IInv, NEW c \in Cores, RegisterDrivers(c)
    PROVE  IInv'
<1>1. CASE Registrable
  <2>1. Step(c, "register", "uart_flush") /\ UNCHANGED <<panics, texts>>
    BY <1>1 DEF RegisterDrivers
  <2>2. bss' = [bss EXCEPT !.next_index = bss.next_index + 2, !.initDone = TRUE]
    BY <1>1 DEF RegisterDrivers
  <2>3. bss \in Statics /\ bss.next_index \in Nat
    BY DEF IInv, TypeOK, Statics
  <2>4. bss' = [panicInProgress |-> bss.panicInProgress,
                initDone |-> TRUE, next_index |-> bss.next_index + 2]
    <3>1. bss = [panicInProgress |-> bss.panicInProgress,
                 initDone |-> bss.initDone, next_index |-> bss.next_index]
      BY <2>3, Zenon DEF Statics
    <3> QED BY <2>2, <3>1
  <2>5. bss' \in Statics
    BY <2>3, <2>4 DEF Statics
  <2>6. bss'.panicInProgress = bss.panicInProgress
    BY <2>4, Zenon
  <2> QED BY <2>1, <2>5, <2>6, Ordinary DEF Abandoned
<1>2. CASE ~Registrable
  <2>1. /\ Step(c, "register", "panic_load")
        /\ bss' = bss /\ texts' = texts /\ panics' = panics + 1
    BY <1>2 DEF RegisterDrivers
  <2>2. c = BootCore
    BY <2>1 DEF IInv, OthersParked, Step
  <2>3. /\ pc[BootCore] = "register" /\ BootCore \in Cores
        /\ pc' = [pc EXCEPT ![BootCore] = "panic_load"]
    BY <2>1, <2>2 DEF Step
  <2>4. pc'[BootCore] = "panic_load"
    BY <2>3 DEF IInv, TypeOK
  <2>5. TypeOK'
    BY <2>1, <2>3 DEF IInv, TypeOK, Place
  <2>6. OthersParked'
    BY <2>3 DEF IInv, TypeOK, OthersParked
  <2>7. (Begun' <=> Begun) /\ (AtMostOne' <=> AtMostOne)
    BY <2>1 DEF Begun, AtMostOne, ReportAt
  <2>8. Guarded'
    BY <2>1, <2>3, <2>4, <2>7 DEF IInv, TypeOK, Guarded
  <2> QED BY <2>5, <2>6, <2>7, <2>8 DEF IInv
<1> QED BY <1>1, <1>2

\* Every step of the kernel, of the hardware, or of neither.
LEMMA StepIInv == IInv /\ [Next]_vars => IInv'
<1> SUFFICES ASSUME IInv, [Next]_vars PROVE IInv'
  OBVIOUS
<1>1. ASSUME UNCHANGED <<pc, bss, panics, texts>> PROVE IInv'
  BY <1>1 DEF IInv, TypeOK, OthersParked, Guarded, AtMostOne, Begun, ReportAt
<1>2. CASE TransmitChar \/ Tick \/ UNCHANGED vars
  BY <1>1, <1>2 DEF TransmitChar, Tick, vars, thread, shared, ghost
<1>3. ASSUME NEW c \in Cores, Kernel(c) \/ Panics(c) PROVE IInv'
  <2>1. CASE CoreCheck(c) \/ BssInit(c)
    BY <2>1, BootSteps
  <2>2. CASE RegisterDrivers(c)
    BY <2>2, RegisterStep
  <2>3. CASE Panics(c) \/ PanicLoad(c) \/ PanicStore(c)
    BY <2>3, PanicSteps
  <2>4. CASE KernelMain(c) \/ PanicPrint(c)
    BY <2>4, PrintlnSteps
  <2>5. ASSUME NEW from \in Abandoned, NEW to \in Abandoned \cup {"parked"},
               Step(c, from, to), UNCHANGED <<bss, panics, texts>>
        PROVE  IInv'
    BY <2>5, Ordinary DEF IInv, TypeOK
  <2>6. CASE InitFlush(c)
    BY <2>5, <2>6 DEF InitFlush, Abandoned, shared, ghost
  <2>7. CASE InitOff(c) \/ InitBaud(c) \/ InitOn(c)
    BY <2>5, <2>7 DEF InitOff, InitBaud, InitOn, Abandoned, shared, ghost
  <2>8. CASE PostInitUart(c) \/ PostInitGpio(c)
    BY <2>5, <2>8 DEF PostInitUart, PostInitGpio, Abandoned, shared, ghost
  <2>9. CASE MapPl011Uart(c)
    BY <2>5, <2>9 DEF MapPl011Uart, Abandoned, shared
  <2>10. CASE WriteReturns(c) \/ WaitForSlot(c) \/ PutCr(c) \/ Put(c)
    BY <2>5, <2>10 DEF WriteReturns, WaitForSlot, PutCr, Put, Abandoned, shared, ghost
  <2> QED BY <1>3, <2>1, <2>2, <2>3, <2>4, <2>6, <2>7, <2>8, <2>9, <2>10 DEF Kernel
<1> QED BY <1>2, <1>3 DEF Next

\* At rest, a panic has been reported.
LEMMA IInvOneReport == IInv => OneReport
<1> SUFFICES ASSUME IInv PROVE OneReport
  OBVIOUS
<1>1. ASSUME panics > 0, pc[BootCore] = "parked" PROVE Begun
  BY <1>1 DEF IInv, Guarded
<1> QED BY <1>1, JtagAssumption DEF OneReport, IInv, AtMostOne, Begun

\* Places, statics and histories keep their types.
THEOREM TypeCorrect == Spec => []TypeOK
<1>1. IInv => TypeOK
  BY DEF IInv
<1> QED BY <1>1, InitIInv, StepIInv, PTL DEF Spec

\* Whatever panics, and how often, on however many cores: at most one report is
\* begun, and when all cores are parked one has been, although the guard of
\* panic_wait.rs is a load and a store.
THEOREM OneReportBegun == Spec => []OneReport
<1>1. Init => IInv
  BY InitIInv
<1>2. IInv /\ [Next]_vars => IInv'
  BY StepIInv
<1>3. IInv => OneReport
  BY IInvOneReport
<1> QED BY <1>1, <1>2, <1>3, PTL DEF Spec

-----------------------------------------------------------------------------
(* The line itself: what is lost, and what is ready when it is printed.    *)

\* What is sent, lost and left to print are characters; a wait for the bit TXFF
\* finds a slot that is still there at the next write.
Sending ==
    LET p == pc[BootCore]
        s == str[BootCore]
    IN  /\ str \in [Cores -> Seq(Char)]
        /\ txFifo \in Seq(Char) /\ lost \in Seq({LF})
        /\ p = "uart_off" => txFifo = <<>>
        /\ p \in {"put_cr", "put"} => s # <<>>
        /\ p = "put_cr" => Head(s) = LF /\ Len(txFifo) < TxDepth
        /\ p = "put" /\ Head(s) # LF => Len(txFifo) < TxDepth

Early == {"_start", "bss", "register", "uart_flush", "uart_off", "uart_baud",
          "uart_on", "post_uart"}

\* The console is the UART only once that is on, and nothing turns it off then.
Registered ==
    LET p == pc[BootCore]
    IN  /\ console \in {"null", "uart"}
        /\ p \in Early => console = "null"
        /\ console = "uart" \/ p = "post_uart" \/ board = "rpi5_early" => enabled
        /\ p \in {"uart_off", "uart_baud", "uart_on"} => board # "rpi5_early"
        /\ p \in {"write", "put_cr", "put"} => console = "uart"

RateSet == board # "rpi5_early" => latched = ChainloaderDivisor
PinsSet == gpfsel1[14] = "alt0" /\ gpfsel1[15] = "alt0"
Message1st == texts # <<>> /\ texts[1] = "message"

\* The message is the first text only when the drivers are through.
Prepared ==
    LET p == pc[BootCore]
    IN  /\ p \in Early \cup {"post_gpio", "gpio", "main"} => texts = <<>>
        /\ p \in {"uart_on"} => latched = ChainloaderDivisor
        /\ p \in {"post_uart", "post_gpio", "gpio", "main"} \/ Message1st => RateSet
        /\ gpioPc \notin {"idle", "select"} \/ Message1st => PinsSet
        /\ p = "main" => gpioPc = "done"

LineInv == Sending /\ Registered /\ Prepared

\* A step that is neither that of a core in boot.s nor of a parked one is the
\* boot core's.
LEMMA BootCoreSteps ==
    ASSUME IInv, NEW c \in Cores, NEW from \in Place \ {"_start", "parked"}, NEW to,
           Step(c, from, to)
    PROVE  c = BootCore /\ pc[BootCore] = from /\ pc'[BootCore] = to
<1>1. c = BootCore
  BY DEF IInv, OthersParked, Step
<1> QED BY <1>1, JtagAssumption DEF IInv, TypeOK, Step

\* What is appended to a sequence is its last element.
LEMMA Appended ==
    ASSUME NEW S, NEW s \in Seq(S), NEW e \in S
    PROVE  Append(s, e) \in Seq(S) /\ Append(s, e) # <<>> /\ Len(s) \in Nat
           /\ (s # <<>> => Append(s, e)[1] = s[1]) /\ (s = <<>> => Append(s, e)[1] = e)
<1>1. /\ Append(s, e) \in Seq(S) /\ Len(s) \in Nat
      /\ Len(Append(s, e)) = Len(s) + 1
      /\ \A i \in 1..Len(s) : Append(s, e)[i] = s[i]
      /\ Append(s, e)[Len(s) + 1] = e
  OBVIOUS
<1>2. s # <<>> => 1 \in 1..Len(s)
  BY <1>1
<1>3. s = <<>> => Len(s) = 0
  OBVIOUS
<1>4. Append(s, e) # <<>>
  BY <1>1
<1> QED BY <1>1, <1>2, <1>3, <1>4

\* A write to DR loses its character only when the FIFO is full.
LEMMA WriteDRLoses ==
    ASSUME txFifo \in Seq(Char), lost \in Seq({LF}), enabled, NEW ch \in Char,
           ch # LF => Len(txFifo) < TxDepth, WriteDR(ch)
    PROVE  txFifo' \in Seq(Char) /\ lost' \in Seq({LF}) /\ enabled' = enabled
<1>1. CASE enabled /\ ~TXFF
  BY <1>1, Appended DEF WriteDR
<1>2. CASE TXFF
  <2>1. Len(txFifo) \in Nat /\ TxDepth \in Nat
    BY Pl011Assumption
  <2>2. ch = LF
    BY <1>2, <2>1 DEF TXFF
  <2>3. txFifo' = txFifo /\ lost' = Append(lost, LF) /\ enabled' = enabled
    BY <1>2, <2>2 DEF WriteDR
  <2> QED BY <2>3, Appended
<1> QED BY <1>1, <1>2

\* The transmitter only makes room.
LEMMA TransmitMakesRoom ==
    ASSUME txFifo \in Seq(Char), Transmit
    PROVE  /\ txFifo' \in Seq(Char) /\ txFifo # <<>>
           /\ (Len(txFifo) < TxDepth => Len(txFifo') < TxDepth)
           /\ UNCHANGED <<lost, enabled>>
<1>1. txFifo # <<>> /\ txFifo' = Tail(txFifo) /\ UNCHANGED <<lost, enabled>>
  BY DEF Transmit, BUSY
<1>2. Tail(txFifo) \in Seq(Char) /\ Len(Tail(txFifo)) = Len(txFifo) - 1 /\ Len(txFifo) \in Nat
  BY <1>1
<1> QED BY <1>1, <1>2, Pl011Assumption

\* Power-up, with whatever the chainloader left in the FIFO.
LEMMA InitLineInv == Init => LineInv
<1> SUFFICES ASSUME Init PROVE LineInv
  OBVIOUS
<1>1. pc[BootCore] = "_start" /\ str = [c \in Cores |-> <<>>] /\ texts = <<>>
  BY JtagAssumption DEF Init
<1>2. txFifo \in Seq(Char) /\ lost \in Seq({LF}) /\ str \in [Cores -> Seq(Char)]
  BY <1>1, JtagAssumption DEF Init
<1>3. Sending
  BY <1>1, <1>2 DEF Sending
<1>4. Registered
  BY <1>1 DEF Init, Registered
<1>5. Prepared
  BY <1>1 DEF Init, Prepared, Message1st, Early
<1> QED BY <1>3, <1>4, <1>5 DEF LineInv

\* The chainloader's divisor, for 48 MHz and 115200 baud.
LEMMA SameDivisor == Divisor(48000000, 115200) = ChainloaderDivisor
<1>1. DivX1000(48000000, 115200) = 26041
  <2>1. 48000000 \div 16 = 3000000 /\ 48000000 % 16 = 0
    OBVIOUS
  <2>2. 3000000 \div 115200 = 26 /\ 3000000 % 115200 = 4800
    OBVIOUS
  <2>3. (0 * 1000) \div 16 = 0 /\ (4800 * 1000 + 0) \div 115200 = 41
    OBVIOUS
  <2> QED BY <2>1, <2>2, <2>3 DEF DivX1000
<1>2. 26041 \div 1000 = 26 /\ ((26041 % 1000) * 64 + 500) \div 1000 = 3
  OBVIOUS
<1>3. 26 % 65536 = 26 /\ 3 % 64 = 3
  OBVIOUS
<1> QED BY <1>1, <1>2, <1>3 DEF Divisor, ChainloaderDivisor

\* The steps of the boot core that touch neither text nor pins.
LEMMA LineBoot ==
    ASSUME IInv, LineInv, NEW c \in Cores,
           CoreCheck(c) \/ BssInit(c) \/ RegisterDrivers(c)
    PROVE  LineInv'
<1>1. UNCHANGED <<str, txFifo, lost, enabled, console, latched, board, gpfsel1, gpioPc, texts>>
  BY DEF CoreCheck, BssInit, RegisterDrivers, uart, pins, shared, ghost
<1>2. \/ pc'[BootCore] = pc[BootCore]
      \/ pc[BootCore] = "_start" /\ pc'[BootCore] \in {"bss", "parked"}
      \/ pc[BootCore] = "bss" /\ pc'[BootCore] = "register"
      \/ pc[BootCore] = "register" /\ pc'[BootCore] \in {"uart_flush", "panic_load"}
  <2>1. CASE CoreCheck(c)
    BY <2>1, JtagAssumption DEF CoreCheck, Step, IInv, TypeOK
  <2>2. CASE BssInit(c)
    BY <2>2, BootCoreSteps DEF BssInit, Place
  <2>3. CASE RegisterDrivers(c)
    BY <2>3, BootCoreSteps DEF RegisterDrivers, Place, Abandoned
  <2> QED BY <2>1, <2>2, <2>3
<1>3. Sending'
  BY <1>1, <1>2 DEF LineInv, Sending
<1>4. Registered'
  BY <1>1, <1>2 DEF LineInv, Registered, Early
<1>5. Prepared'
  BY <1>1, <1>2 DEF LineInv, Prepared, Early, Message1st, RateSet, PinsSet
<1> QED BY <1>3, <1>4, <1>5 DEF LineInv

\* The steps of init, in which the UART is off.
LEMMA LineInit ==
    ASSUME IInv, LineInv, NEW c \in Cores,
           InitFlush(c) \/ InitOff(c) \/ InitBaud(c) \/ InitOn(c)
    PROVE  LineInv'
<1>1. UNCHANGED <<str, console, board, gpfsel1, gpioPc, texts>>
  BY DEF InitFlush, InitOff, InitBaud, InitOn, pins, shared, ghost
<1>2. CASE InitFlush(c)
  <2>1. /\ pc[BootCore] = "uart_flush" /\ txFifo = <<>>
        /\ pc'[BootCore] = IF board = "rpi5_early" THEN "post_uart" ELSE "uart_off"
        /\ UNCHANGED <<txFifo, lost, enabled, latched>>
    BY <1>2, BootCoreSteps DEF InitFlush, BUSY, uart, shared, Place, Abandoned
  <2>2. Sending'
    BY <1>1, <2>1 DEF LineInv, Sending
  <2>3. Registered'
    BY <1>1, <2>1 DEF LineInv, Registered, Early
  <2>4. Prepared'
    BY <1>1, <2>1 DEF LineInv, Prepared, Early, Message1st, RateSet, PinsSet
  <2> QED BY <2>2, <2>3, <2>4 DEF LineInv
<1>3. CASE InitOff(c)
  <2>1. pc[BootCore] = "uart_off" /\ pc'[BootCore] = "uart_baud" /\ TurnOff /\ latched' = latched
    BY <1>3, BootCoreSteps DEF InitOff, shared, Place, Abandoned
  <2>2. txFifo = <<>> /\ txFifo' = <<>> /\ lost' = lost /\ enabled' = FALSE
    BY <2>1 DEF LineInv, Sending, TurnOff, BUSY
  <2>3. Sending'
    BY <1>1, <2>1, <2>2 DEF LineInv, Sending
  <2>4. Registered'
    BY <1>1, <2>1, <2>2 DEF LineInv, Registered, Early
  <2>5. Prepared'
    BY <1>1, <2>1, <2>2 DEF LineInv, Prepared, Early, Message1st, RateSet, PinsSet
  <2> QED BY <2>3, <2>4, <2>5 DEF LineInv
<1>4. CASE InitBaud(c)
  <2>1. /\ pc[BootCore] = "uart_baud" /\ pc'[BootCore] = "uart_on"
        /\ latched' = ChainloaderDivisor /\ UNCHANGED <<txFifo, lost, enabled>>
    BY <1>4, BootCoreSteps, SameDivisor DEF InitBaud, uart, Place, Abandoned
  <2>2. Sending'
    BY <1>1, <2>1 DEF LineInv, Sending
  <2>3. Registered'
    BY <1>1, <2>1 DEF LineInv, Registered, Early
  <2>4. Prepared'
    BY <1>1, <2>1 DEF LineInv, Prepared, Early, Message1st, RateSet, PinsSet
  <2> QED BY <2>2, <2>3, <2>4 DEF LineInv
<1>5. CASE InitOn(c)
  <2>1. /\ pc[BootCore] = "uart_on" /\ pc'[BootCore] = "post_uart"
        /\ enabled' = TRUE /\ UNCHANGED <<txFifo, lost, latched>>
    BY <1>5, BootCoreSteps DEF InitOn, TurnOn, shared, Place, Abandoned
  <2>2. Sending'
    BY <1>1, <2>1 DEF LineInv, Sending
  <2>3. Registered'
    BY <1>1, <2>1 DEF LineInv, Registered, Early
  <2>4. Prepared'
    BY <1>1, <2>1 DEF LineInv, Prepared, Early, Message1st, RateSet, PinsSet
  <2> QED BY <2>2, <2>3, <2>4 DEF LineInv
<1> QED BY <1>2, <1>3, <1>4, <1>5

\* The callbacks: the console becomes the UART, then the pins are mapped.
LEMMA LineCallbacks ==
    ASSUME IInv, LineInv, NEW c \in Cores,
           PostInitUart(c) \/ PostInitGpio(c) \/ MapPl011Uart(c)
    PROVE  LineInv'
<1>1. UNCHANGED <<str, txFifo, lost, enabled, latched, texts>>
  BY DEF PostInitUart, PostInitGpio, MapPl011Uart, uart, shared, ghost
<1>2. CASE PostInitUart(c)
  <2>1. /\ pc[BootCore] = "post_uart" /\ pc'[BootCore] = "post_gpio"
        /\ console' = "uart" /\ UNCHANGED <<board, gpfsel1, gpioPc>>
    BY <1>2, BootCoreSteps DEF PostInitUart, pins, ghost, Place, Abandoned
  <2>2. Sending'
    BY <1>1, <2>1 DEF LineInv, Sending
  <2>3. Registered'
    BY <1>1, <2>1 DEF LineInv, Registered, Early
  <2>4. Prepared'
    BY <1>1, <2>1 DEF LineInv, Prepared, Early, Message1st, RateSet, PinsSet
  <2> QED BY <2>2, <2>3, <2>4 DEF LineInv
<1>3. CASE PostInitGpio(c)
  <2>1. /\ pc[BootCore] = "post_gpio" /\ pc'[BootCore] = "gpio" /\ gpioPc' = "select"
        /\ UNCHANGED <<console, board, gpfsel1>>
    BY <1>3, BootCoreSteps DEF PostInitGpio, shared, ghost, Place, Abandoned
  <2>2. Sending'
    BY <1>1, <2>1 DEF LineInv, Sending
  <2>3. Registered'
    BY <1>1, <2>1 DEF LineInv, Registered, Early
  <2>4. Prepared'
    BY <1>1, <2>1 DEF LineInv, Prepared, Early, Message1st, RateSet, PinsSet
  <2> QED BY <2>2, <2>3, <2>4 DEF LineInv
<1>4. CASE MapPl011Uart(c)
  <2>1. /\ pc[BootCore] = "gpio" /\ UNCHANGED <<console, board>>
        /\ pc'[BootCore] = IF gpioPc' = "done" THEN "main" ELSE "gpio"
    BY <1>4, BootCoreSteps
    DEF MapPl011Uart, shared, Place, Abandoned, G!MapPl011Uart, G!SelectFunctions,
        G!WritePulls, G!WritePud, G!AssertClock, G!RemovePud, G!RemoveClock, G!setting
  <2>2. PinsSet' /\ gpioPc' # "idle"
    <3>1. CASE G!SelectFunctions
      <4>1. gpfsel1' = [p \in G!Pins |-> IF p \in G!UartPins THEN "alt0" ELSE gpfsel1[p]]
            /\ gpioPc' \in {"pud", "pulls"}
        BY <3>1 DEF G!SelectFunctions
      <4>2. {14, 15} \subseteq G!Pins /\ {14, 15} = G!UartPins
        BY DEF G!Pins, G!UartPins
      <4> QED BY <4>1, <4>2 DEF PinsSet
    <3>2. CASE \/ G!WritePulls \/ G!WritePud \/ G!AssertClock \/ G!RemovePud \/ G!RemoveClock
      <4>1. /\ gpioPc \in {"pulls", "pud", "clock", "remove_pud", "remove_clock"}
            /\ gpfsel1' = gpfsel1
            /\ gpioPc' \in {"clock", "remove_pud", "remove_clock", "done"}
        BY <3>2 DEF G!WritePulls, G!WritePud, G!AssertClock, G!RemovePud, G!RemoveClock
      <4> QED BY <4>1 DEF LineInv, Prepared, PinsSet
    <3> QED BY <1>4, <3>1, <3>2 DEF MapPl011Uart, G!MapPl011Uart
  <2>3. Sending'
    BY <1>1, <2>1 DEF LineInv, Sending
  <2>4. Registered'
    BY <1>1, <2>1 DEF LineInv, Registered, Early
  <2>5. Prepared'
    BY <1>1, <2>1, <2>2 DEF LineInv, Prepared, Early, Message1st, RateSet
  <2> QED BY <2>3, <2>4, <2>5 DEF LineInv
<1> QED BY <1>2, <1>3, <1>4

\* A text is begun: the message behind the drivers, the report wherever.
LEMMA LinePrintln ==
    ASSUME IInv, LineInv, NEW c \in Cores, KernelMain(c) \/ PanicPrint(c)
    PROVE  LineInv'
<1>1. PICK from \in {"main", "panic_print"}, t \in {"message", "report"} :
        /\ Println(c, from, t)
        /\ t = "message" => from = "main"
  BY DEF KernelMain, PanicPrint
<1>2. /\ pc[BootCore] = from /\ c = BootCore
      /\ pc'[BootCore] = IF console = "null" THEN "parked" ELSE "write"
  BY <1>1, BootCoreSteps DEF Println, Place, Abandoned
<1>3. /\ UNCHANGED <<txFifo, lost, enabled, console, latched, board, gpfsel1, gpioPc>>
      /\ texts' = Append(texts, t)
      /\ str' = [str EXCEPT ![c] = IF console = "null" THEN <<>> ELSE Text[t]]
  BY <1>1 DEF Println, uart, shared, pins
<1>4. Sending'
  <2>1. Text[t] \in Seq(Char) /\ <<>> \in Seq(Char)
    BY JtagAssumption DEF Text
  <2>2. str' \in [Cores -> Seq(Char)]
    BY <1>3, <2>1 DEF LineInv, Sending
  <2> QED BY <1>2, <1>3, <2>2 DEF LineInv, Sending
<1>5. Registered'
  BY <1>2, <1>3 DEF LineInv, Registered, Early
<1>6. Message1st' => Message1st \/ from = "main"
  <2>1. texts \in Seq({"message", "report"})
    BY DEF IInv, TypeOK
  <2> QED BY <1>1, <1>3, <2>1, Appended DEF Message1st
<1>7. Prepared'
  BY <1>2, <1>3, <1>6 DEF LineInv, Prepared, Early, RateSet, PinsSet
<1> QED BY <1>4, <1>5, <1>7 DEF LineInv

\* The steps of write_str and write_char.
LEMMA LineWrite ==
    ASSUME IInv, LineInv, NEW c \in Cores,
           WriteReturns(c) \/ WaitForSlot(c) \/ PutCr(c) \/ Put(c)
    PROVE  LineInv'
<1>1. /\ UNCHANGED <<console, latched, board, gpfsel1, gpioPc, texts>>
      /\ c = BootCore /\ pc[BootCore] \in {"write", "put_cr", "put"}
      /\ pc'[BootCore] \in {"write", "put_cr", "put", "parked"}
  BY BootCoreSteps
  DEF WriteReturns, WaitForSlot, PutCr, Put, pins, shared, ghost, Place, Abandoned
<1>2. /\ str \in [Cores -> Seq(Char)] /\ str[BootCore] \in Seq(Char)
      /\ txFifo \in Seq(Char) /\ lost \in Seq({LF}) /\ enabled
  BY <1>1, JtagAssumption DEF LineInv, Sending, Registered
<1>3. ASSUME enabled' = enabled PROVE Registered' /\ Prepared'
  BY <1>1, <1>3 DEF LineInv, Registered, Prepared, Early, Message1st, RateSet, PinsSet
<1>4. CASE WriteReturns(c)
  <2>1. pc'[BootCore] = "parked" /\ UNCHANGED <<str, txFifo, lost, enabled>>
    BY <1>4, BootCoreSteps DEF WriteReturns, uart, Place, Abandoned
  <2>2. Sending'
    BY <2>1 DEF LineInv, Sending
  <2> QED BY <1>3, <2>1, <2>2 DEF LineInv
<1>5. CASE WaitForSlot(c)
  <2>1. /\ pc'[BootCore] = IF Head(str[BootCore]) = LF THEN "put_cr" ELSE "put"
        /\ str[BootCore] # <<>> /\ ~TXFF /\ UNCHANGED <<str, txFifo, lost, enabled>>
    BY <1>1, <1>5, BootCoreSteps DEF WaitForSlot, uart, Place, Abandoned
  <2>2. Len(txFifo) < TxDepth
    BY <1>2, <2>1, Pl011Assumption DEF TXFF
  <2>3. Sending'
    BY <2>1, <2>2 DEF LineInv, Sending
  <2> QED BY <1>3, <2>1, <2>3 DEF LineInv
<1>6. CASE PutCr(c)
  <2>1. pc[BootCore] = "put_cr" /\ pc'[BootCore] = "put" /\ WriteDR(CR) /\ str' = str
    BY <1>6, BootCoreSteps DEF PutCr, Place, Abandoned
  <2>2. str[BootCore] # <<>> /\ Head(str[BootCore]) = LF /\ Len(txFifo) < TxDepth
    BY <2>1 DEF LineInv, Sending
  <2>3. txFifo' \in Seq(Char) /\ lost' \in Seq({LF}) /\ enabled' = enabled
    BY <1>2, <2>1, <2>2, WriteDRLoses, JtagAssumption
  <2>4. Sending'
    BY <1>2, <2>1, <2>2, <2>3 DEF Sending
  <2> QED BY <1>3, <2>3, <2>4 DEF LineInv
<1>7. CASE Put(c)
  <2>1. /\ pc[BootCore] = "put" /\ pc'[BootCore] = "write" /\ WriteDR(Head(str[BootCore]))
        /\ str' = [str EXCEPT ![BootCore] = Tail(str[BootCore])]
    BY <1>1, <1>7, BootCoreSteps DEF Put, Place, Abandoned
  <2>2. /\ str[BootCore] # <<>>
        /\ Head(str[BootCore]) # LF => Len(txFifo) < TxDepth
    BY <2>1 DEF LineInv, Sending
  <2>3. Head(str[BootCore]) \in Char /\ Tail(str[BootCore]) \in Seq(Char)
    BY <1>2, <2>2
  <2>4. txFifo' \in Seq(Char) /\ lost' \in Seq({LF}) /\ enabled' = enabled
    BY <1>2, <2>1, <2>2, <2>3, WriteDRLoses
  <2>5. Sending'
    BY <1>2, <2>1, <2>3, <2>4 DEF Sending
  <2> QED BY <1>3, <2>4, <2>5 DEF LineInv
<1> QED BY <1>4, <1>5, <1>6, <1>7

\* A panic and its guard abandon what is being done, and change none of it.
LEMMA LinePanic ==
    ASSUME IInv, LineInv, NEW c \in Cores,
           Panics(c) \/ PanicLoad(c) \/ PanicStore(c)
    PROVE  LineInv'
<1>1. UNCHANGED <<str, txFifo, lost, enabled, console, latched, board, gpfsel1, gpioPc, texts>>
  BY DEF Panics, PanicLoad, PanicStore, uart, pins, shared, ghost
<1>2. pc'[BootCore] \in {"panic_load", "panic_store", "panic_print", "parked"}
  BY BootCoreSteps DEF Panics, PanicLoad, PanicStore, Place, Abandoned
<1>3. Sending'
  BY <1>1, <1>2 DEF LineInv, Sending
<1>4. Registered'
  BY <1>1, <1>2 DEF LineInv, Registered, Early
<1>5. Prepared'
  BY <1>1, <1>2 DEF LineInv, Prepared, Early, Message1st, RateSet, PinsSet
<1> QED BY <1>3, <1>4, <1>5 DEF LineInv

\* The transmitter and time.
LEMMA LineHardware ==
    ASSUME IInv, LineInv, TransmitChar \/ Tick \/ UNCHANGED vars
    PROVE  LineInv'
<1>1. UNCHANGED <<pc, str, lost, enabled, console, latched, board, gpfsel1, gpioPc, texts>>
  BY DEF TransmitChar, Transmit, Tick, vars, uart, thread, pins, shared, ghost,
         G!TimePasses, G!setting
<1>2. Registered' /\ Prepared'
  BY <1>1 DEF LineInv, Registered, Prepared, Early, Message1st, RateSet, PinsSet
<1>3. CASE TransmitChar
  <2>1. txFifo' \in Seq(Char) /\ txFifo # <<>>
        /\ (Len(txFifo) < TxDepth => Len(txFifo') < TxDepth)
    BY <1>3, TransmitMakesRoom DEF TransmitChar, LineInv, Sending
  <2>2. Sending'
    BY <1>1, <2>1 DEF LineInv, Sending
  <2> QED BY <1>2, <2>2 DEF LineInv
<1>4. CASE Tick \/ UNCHANGED vars
  <2>1. txFifo' = txFifo
    BY <1>4 DEF Tick, vars, uart
  <2>2. Sending'
    BY <1>1, <2>1 DEF LineInv, Sending
  <2> QED BY <1>2, <2>2 DEF LineInv
<1> QED BY <1>3, <1>4

\* Every step, on top of what the guard of the panic has shown.
LEMMA StepLineInv == IInv /\ LineInv /\ [Next]_vars => LineInv'
<1> SUFFICES ASSUME IInv, LineInv, [Next]_vars PROVE LineInv'
  OBVIOUS
<1>1. CASE TransmitChar \/ Tick \/ UNCHANGED vars
  BY <1>1, LineHardware
<1>2. ASSUME NEW c \in Cores, Kernel(c) \/ Panics(c) PROVE LineInv'
  BY <1>2, LineBoot, LineInit, LineCallbacks, LinePrintln, LineWrite, LinePanic DEF Kernel
<1> QED BY <1>1, <1>2 DEF Next

\* A message in progress is that of a kernel with all its drivers.
LEMMA LineInvProperties == IInv /\ LineInv => OnlyLineFeedsLost /\ LineReady
<1> SUFFICES ASSUME IInv, LineInv PROVE OnlyLineFeedsLost /\ LineReady
  OBVIOUS
<1>1. OnlyLineFeedsLost
  BY DEF LineInv, Sending, OnlyLineFeedsLost
<1>2. LineReady
  <2> SUFFICES ASSUME NEW c \in Cores, pc[c] \in {"put_cr", "put"}, texts = <<"message">>
               PROVE  enabled /\ PinsSet /\ RateSet
    BY DEF LineReady, PinsSet, RateSet
  <2>1. c = BootCore
    BY DEF IInv, OthersParked
  <2>2. Message1st
    BY DEF Message1st
  <2> QED BY <2>1, <2>2 DEF LineInv, Registered, Prepared
<1> QED BY <1>1, <1>2

\* The two invariants together, in every reachable state.
THEOREM Invariance == Spec => [](IInv /\ LineInv)
<1>1. Init => IInv /\ LineInv
  BY InitIInv, InitLineInv
<1>2. IInv /\ LineInv /\ [Next]_vars => (IInv /\ LineInv)'
  BY StepIInv, StepLineInv
<1> QED BY <1>1, <1>2, PTL DEF Spec

\* The driver without a flush loses nothing but line feeds either, for every
\* depth of the FIFO, every residue and every text, wherever panics strike
\* (write_char 281-293, init 230-258).
THEOREM NothingButLineFeedsLost == Spec => []OnlyLineFeedsLost
BY Invariance, LineInvProperties, PTL

\* What is printed behind kernel_init finds a UART that is on, at the rate of
\* the chainloader, and mapped to its pins, whatever the pins were set to before
\* (main.rs 130-149).
THEOREM LineIsReady == Spec => []LineReady
BY Invariance, LineInvProperties, PTL

-----------------------------------------------------------------------------
(* The order of the texts.                                                 *)

\* The line feeds among the first i characters of s.
Lfs(s, i) == {j \in 1..i : s[j] = LF}

\* Reach is a number that grows with i, by one more for a line feed.
LEMMA ReachGrows ==
    ASSUME NEW s, NEW i \in Nat, NEW k \in Nat, i <= k
    PROVE  /\ Reach(s, i) \in Nat /\ Reach(s, k) \in Nat
           /\ Reach(s, i) + (k - i) <= Reach(s, k)
<1>1. ASSUME NEW n \in Nat PROVE IsFiniteSet(Lfs(s, n)) /\ Cardinality(Lfs(s, n)) \in Nat
  <2>1. Lfs(s, n) \in SUBSET (1..n) /\ IsFiniteSet(1..n)
    BY FS_Interval DEF Lfs
  <2> QED
    BY <2>1, FS_Subset, FS_CardinalityType
<1>2. Lfs(s, i) \in SUBSET Lfs(s, k)
  BY DEF Lfs
<1>3. Cardinality(Lfs(s, i)) <= Cardinality(Lfs(s, k))
  BY <1>1, <1>2, FS_Subset
<1>4. Reach(s, i) = i + Cardinality(Lfs(s, i)) /\ Reach(s, k) = k + Cardinality(Lfs(s, k))
  BY DEF Reach, Lfs
<1> QED
  BY <1>1, <1>3, <1>4

\* One more character reaches one further, a line feed two.
LEMMA ReachStep ==
    ASSUME NEW s, NEW i \in Nat \ {0}
    PROVE  Reach(s, i) = Reach(s, i - 1) + (IF s[i] = LF THEN 2 ELSE 1) /\ Reach(s, 0) = 0
<1>1. i - 1 \in Nat
  OBVIOUS
<1>2. IsFiniteSet(Lfs(s, i - 1)) /\ Cardinality(Lfs(s, i - 1)) \in Nat
  <2>1. Lfs(s, i - 1) \in SUBSET (1..(i - 1)) /\ IsFiniteSet(1..(i - 1))
    BY <1>1, FS_Interval DEF Lfs
  <2> QED
    BY <2>1, FS_Subset, FS_CardinalityType
<1>3. Reach(s, i) = i + Cardinality(Lfs(s, i)) /\ Reach(s, i - 1) = (i - 1) + Cardinality(Lfs(s, i - 1))
  BY DEF Reach, Lfs
<1>0. Reach(s, 0) = 0
  <2>1. Lfs(s, 0) = {} /\ Reach(s, 0) = 0 + Cardinality(Lfs(s, 0))
    BY DEF Reach, Lfs
  <2> QED
    BY <2>1, FS_EmptySet
<1>4. CASE s[i] = LF
  <2>1. Lfs(s, i) = Lfs(s, i - 1) \cup {i} /\ i \notin Lfs(s, i - 1)
    BY <1>4 DEF Lfs
  <2>2. Cardinality(Lfs(s, i)) = Cardinality(Lfs(s, i - 1)) + 1
    BY <1>2, <2>1, FS_AddElement
  <2> QED
    BY <1>2, <1>3, <1>4, <2>2, <1>0
<1>5. CASE s[i] # LF
  <2>1. Lfs(s, i) = Lfs(s, i - 1)
    BY <1>5 DEF Lfs
  <2> QED
    BY <1>2, <1>3, <1>5, <2>1, <1>0
<1> QED
  BY <1>4, <1>5

\* The CRLF form has each character where Reach says, and a carriage return
\* before each line feed.
LEMMA CrlfProperties ==
    ASSUME NEW s \in Seq(Char)
    PROVE  /\ Crlf(s) \in Seq(Char) /\ Len(Crlf(s)) = Reach(s, Len(s))
           /\ \A i \in 1..Len(s) :
                 /\ Reach(s, i) \in 1..Len(Crlf(s)) /\ Crlf(s)[Reach(s, i)] = s[i]
                 /\ s[i] = LF => Reach(s, i) - 1 \in 1..Len(Crlf(s))
                                 /\ Crlf(s)[Reach(s, i) - 1] = CR
<1> DEFINE l == Len(s)
<1>1. l \in Nat /\ Reach(s, l) \in Nat /\ CR \in Char
  BY ReachGrows, JtagAssumption
<1>2. ASSUME NEW n \in 1..Reach(s, l)
      PROVE  (IF \E i \in 1..l : Reach(s, i) = n
              THEN s[CHOOSE i \in 1..l : Reach(s, i) = n] ELSE CR) \in Char
  <2>1. CASE \E i \in 1..l : Reach(s, i) = n
    <3>1. (CHOOSE i \in 1..l : Reach(s, i) = n) \in 1..l
      BY <2>1
    <3> QED
      BY <2>1, <3>1
  <2> QED
    BY <1>1, <2>1
<1>3. /\ Crlf(s) \in [1..Reach(s, l) -> Char] /\ Crlf(s) \in Seq(Char)
      /\ Len(Crlf(s)) = Reach(s, l)
      /\ \A n \in 1..Reach(s, l) :
            Crlf(s)[n] = IF \E i \in 1..l : Reach(s, i) = n
                         THEN s[CHOOSE i \in 1..l : Reach(s, i) = n] ELSE CR
  <2>1. Crlf(s) \in [1..Reach(s, l) -> Char]
    BY <1>2 DEF Crlf
  <2>2. Crlf(s) \in Seq(Char) /\ Len(Crlf(s)) = Reach(s, l)
    BY <1>1, <2>1
  <2> QED
    BY <2>1, <2>2 DEF Crlf
<1>4. ASSUME NEW i \in 1..l, NEW k \in 1..l, Reach(s, i) = Reach(s, k) PROVE i = k
  <2>1. i \in Nat /\ k \in Nat
    OBVIOUS
  <2>2. CASE i <= k
    BY <1>4, <2>1, <2>2, ReachGrows
  <2>3. CASE k <= i
    BY <1>4, <2>1, <2>3, ReachGrows
  <2> QED
    BY <2>1, <2>2, <2>3
<1> HIDE DEF l
<1>5. ASSUME NEW i \in 1..l
      PROVE  /\ Reach(s, i) \in 1..Reach(s, l) /\ Crlf(s)[Reach(s, i)] = s[i]
             /\ s[i] = LF => Reach(s, i) - 1 \in 1..Reach(s, l)
                             /\ Crlf(s)[Reach(s, i) - 1] = CR
  <2>1. i \in Nat \ {0} /\ i <= l /\ i - 1 \in Nat
    BY <1>1
  <2>2. PICK r \in Nat, q \in Nat :
          /\ r = Reach(s, i) /\ q = Reach(s, i - 1)
          /\ r = q + (IF s[i] = LF THEN 2 ELSE 1) /\ r <= Reach(s, l)
    <3>1. Reach(s, i) \in Nat /\ Reach(s, i) + (l - i) <= Reach(s, l)
      BY <1>1, <2>1, ReachGrows
    <3>2. Reach(s, i - 1) \in Nat
      BY <2>1, ReachGrows
    <3>3. Reach(s, i) <= Reach(s, l)
      BY <1>1, <2>1, <3>1
    <3> QED
      BY <2>1, <3>1, <3>2, <3>3, ReachStep
  <2>3. r \in 1..Reach(s, l)
    BY <1>1, <2>2
  <2>4. Crlf(s)[r] = s[i]
    <3>1. \E k \in 1..l : Reach(s, k) = r
      BY <2>2
    <3>2. (CHOOSE k \in 1..l : Reach(s, k) = r) = i
      BY <1>4, <2>2, <3>1
    <3> QED
      BY <1>3, <2>3, <3>1, <3>2
  <2>5. ASSUME s[i] = LF PROVE r - 1 \in 1..Reach(s, l) /\ Crlf(s)[r - 1] = CR
    <3>1. r = q + 2 /\ r - 1 \in 1..Reach(s, l)
      BY <1>1, <2>2, <2>3, <2>5
    <3>2. ASSUME NEW k \in 1..l PROVE Reach(s, k) # r - 1
      <4>1. k \in Nat /\ (k <= i - 1 \/ i <= k)
        BY <2>1
      <4>2. CASE k <= i - 1
        <5>1. Reach(s, k) + ((i - 1) - k) <= q /\ Reach(s, k) \in Nat
          BY <2>1, <2>2, <4>1, <4>2, ReachGrows
        <5>2. Reach(s, k) <= q
          BY <2>1, <2>2, <4>1, <4>2, <5>1
        <5> QED
          BY <2>2, <3>1, <5>1, <5>2
      <4>3. CASE i <= k
        <5>1. r + (k - i) <= Reach(s, k) /\ Reach(s, k) \in Nat
          BY <2>1, <2>2, <4>1, <4>3, ReachGrows
        <5>2. r <= Reach(s, k)
          BY <2>1, <2>2, <4>1, <4>3, <5>1
        <5> QED
          BY <2>2, <5>1, <5>2
      <4> QED
        BY <4>1, <4>2, <4>3
    <3> QED
      BY <1>3, <3>1, <3>2
  <2> QED
    BY <2>2, <2>3, <2>4, <2>5
<1> QED
  BY <1>3, <1>5 DEF l

\* w from behind b up to e is the beginning of text t, with its newlines
\* converted.
PartOf(w, b, e, t) ==
    /\ e - b <= Len(Crlf(t))
    /\ \A j \in 1..(e - b) : w[b + j] = Crlf(t)[j]

\* A text t begun behind b has s left to write, and of the first line feed of s
\* h characters are out.
LeftOf(s, t, k) == Len(s) = Len(t) - k /\ \A i \in 1..Len(s) : s[i] = t[k + i]
Progress(s, h, w, b, t) ==
    \E k \in 0..Len(t) : LeftOf(s, t, k) /\ Len(w) = b + Reach(t, k) + h

\* An empty part is the beginning of every text.
LEMMA EmptyPart ==
    ASSUME NEW w, NEW n \in Nat, NEW t \in Seq(Char)
    PROVE  PartOf(w, n, n, t)
<1>1. n - n = 0 /\ 1..0 = {} /\ Len(Crlf(t)) \in Nat
  BY CrlfProperties, LenProperties
<1> QED
  BY <1>1 DEF PartOf

\* What was written stays what it was.
LEMMA PartKept ==
    ASSUME NEW w \in Seq(Char), NEW c \in Char, NEW b \in Nat, NEW e \in 0..Len(w),
           NEW t, PartOf(w, b, e, t)
    PROVE  PartOf(Append(w, c), b, e, t)
<1>1. \A i \in 1..Len(w) : Append(w, c)[i] = w[i]
  BY AppendProperties
<1>2. ASSUME NEW j \in 1..(e - b) PROVE Append(w, c)[b + j] = w[b + j]
  <2>1. Len(w) \in Nat /\ e \in Nat /\ e <= Len(w)
    BY LenProperties
  <2>2. b + j \in 1..Len(w)
    BY <2>1
  <2> QED
    BY <1>1, <2>2
<1> QED
  BY <1>2 DEF PartOf

\* A part goes on with the next character of its text.
LEMMA PartGrows ==
    ASSUME NEW w \in Seq(Char), NEW c \in Char, NEW b \in Nat, NEW t, b <= Len(w),
           PartOf(w, b, Len(w), t), Len(w) - b + 1 \in 1..Len(Crlf(t)),
           Crlf(t)[Len(w) - b + 1] = c
    PROVE  PartOf(Append(w, c), b, Len(w) + 1, t)
<1> DEFINE x == Append(w, c)
<1>1. PICK m \in Nat : m = Len(w)
  BY LenProperties
<1>2. (\A i \in 1..m : x[i] = w[i]) /\ x[m + 1] = c
  BY <1>1
<1> HIDE DEF x
<1>3. (m + 1) - b = (m - b) + 1 /\ m - b \in Nat /\ (m - b) + 1 <= Len(Crlf(t))
  BY <1>1
<1>4. ASSUME NEW j \in 1..((m + 1) - b) PROVE x[b + j] = Crlf(t)[j]
  <2>1. CASE j = (m - b) + 1
    <3>1. b + j = m + 1
      BY <1>3, <2>1
    <3> QED
      BY <1>1, <1>2, <2>1, <3>1
  <2>2. CASE j # (m - b) + 1
    <3>1. j \in 1..(m - b) /\ b + j \in 1..m
      BY <1>3, <2>2
    <3> QED
      BY <1>1, <1>2, <3>1 DEF PartOf
  <2> QED
    BY <2>1, <2>2
<1>5. PartOf(x, b, m + 1, t)
  BY <1>3, <1>4 DEF PartOf
<1> QED
  BY <1>1, <1>5 DEF x

\* The carriage return of a line feed.
LEMMA CrWritten ==
    ASSUME NEW w \in Seq(Char), NEW b \in Nat, b <= Len(w), NEW t \in Seq(Char),
           NEW s \in Seq(Char), s # <<>>, Head(s) = LF,
           PartOf(w, b, Len(w), t), Progress(s, 0, w, b, t)
    PROVE  /\ PartOf(Append(w, CR), b, Len(w) + 1, t)
           /\ Progress(s, 1, Append(w, CR), b, t)
<1>1. PICK m \in Nat : m = Len(w)
  BY LenProperties
<1>2. PICK k \in 0..Len(t) : LeftOf(s, t, k) /\ m = b + Reach(t, k) + 0
  BY <1>1 DEF Progress
<1>3. /\ Len(t) \in Nat /\ k \in Nat /\ Len(s) \in Nat \ {0} /\ Head(s) = s[1]
      /\ Len(Append(w, CR)) = m + 1 /\ CR \in Char
  BY <1>1, JtagAssumption
<1>4. k + 1 \in 1..Len(t) /\ t[k + 1] = LF
  BY <1>2, <1>3 DEF LeftOf
<1>5. PICK r \in Nat : r = Reach(t, k)
  BY <1>3, ReachGrows
<1>6. Reach(t, k + 1) = r + 2
  <2>1. (k + 1) - 1 = k /\ k + 1 \in Nat \ {0}
    BY <1>3
  <2> QED
    BY <1>4, <1>5, <2>1, ReachStep
<1>7. Crlf(t)[r + 1] = CR /\ r + 1 \in 1..Len(Crlf(t))
  <2>1. (r + 2) - 1 = r + 1
    OBVIOUS
  <2> QED
    BY <1>4, <1>6, <2>1, CrlfProperties
<1>8. m - b + 1 = r + 1 /\ m = b + r + 0 /\ m + 1 = b + r + 1
  BY <1>2, <1>5
<1>9. PartOf(Append(w, CR), b, m + 1, t)
  BY <1>1, <1>3, <1>7, <1>8, PartGrows
<1>10. Len(Append(w, CR)) = b + Reach(t, k) + 1
  BY <1>3, <1>5, <1>8
<1> QED
  BY <1>1, <1>2, <1>9, <1>10 DEF Progress

\* A character, or the line feed behind its carriage return.
LEMMA CharWritten ==
    ASSUME NEW w \in Seq(Char), NEW b \in Nat, b <= Len(w), NEW t \in Seq(Char),
           NEW s \in Seq(Char), s # <<>>, NEW h, h = IF Head(s) = LF THEN 1 ELSE 0,
           PartOf(w, b, Len(w), t), Progress(s, h, w, b, t)
    PROVE  /\ PartOf(Append(w, Head(s)), b, Len(w) + 1, t)
           /\ Progress(Tail(s), 0, Append(w, Head(s)), b, t)
<1>1. PICK m \in Nat : m = Len(w)
  BY LenProperties
<1>2. PICK k \in 0..Len(t) : LeftOf(s, t, k) /\ m = b + Reach(t, k) + h
  BY <1>1 DEF Progress
<1>3. /\ Len(t) \in Nat /\ k \in Nat /\ Len(s) \in Nat \ {0} /\ Head(s) = s[1]
      /\ Head(s) \in Char /\ Len(Append(w, Head(s))) = m + 1
      /\ Len(Tail(s)) = Len(s) - 1 /\ \A i \in 1..Len(Tail(s)) : Tail(s)[i] = s[i + 1]
  BY <1>1
<1>4. k + 1 \in 1..Len(t) /\ t[k + 1] = Head(s)
  BY <1>2, <1>3 DEF LeftOf
<1>5. PICK r \in Nat : r = Reach(t, k)
  BY <1>3, ReachGrows
<1>6. Reach(t, k + 1) = r + h + 1
  <2>1. (k + 1) - 1 = k /\ k + 1 \in Nat \ {0}
    BY <1>3
  <2>2. Reach(t, k + 1) = r + (IF Head(s) = LF THEN 2 ELSE 1)
    BY <1>4, <1>5, <2>1, ReachStep
  <2> QED
    BY <2>2
<1>7. Crlf(t)[r + h + 1] = Head(s) /\ r + h + 1 \in 1..Len(Crlf(t))
  BY <1>4, <1>6, CrlfProperties
<1>8. m - b + 1 = r + h + 1 /\ m + 1 = b + (r + h + 1) + 0
  BY <1>2, <1>5
<1>9. PartOf(Append(w, Head(s)), b, m + 1, t)
  BY <1>1, <1>3, <1>7, <1>8, PartGrows
<1>10. Len(Append(w, Head(s))) = b + Reach(t, k + 1) + 0
  BY <1>3, <1>6, <1>8
<1>11. LeftOf(Tail(s), t, k + 1)
  <2>1. Len(Tail(s)) = Len(t) - (k + 1)
    BY <1>2, <1>3 DEF LeftOf
  <2>2. ASSUME NEW i \in 1..Len(Tail(s)) PROVE Tail(s)[i] = t[(k + 1) + i]
    <3>1. i + 1 \in 1..Len(s) /\ (k + 1) + i = k + (i + 1)
      BY <1>3
    <3> QED
      BY <1>2, <1>3, <3>1 DEF LeftOf
  <2> QED
    BY <2>1, <2>2 DEF LeftOf
<1>12. k + 1 \in 0..Len(t)
  BY <1>3, <1>4
<1> QED
  BY <1>1, <1>9, <1>10, <1>11, <1>12 DEF Progress

\* A text that is begun is all left.
LEMMA TextBegun ==
    ASSUME NEW w \in Seq(Char), NEW t \in Seq(Char)
    PROVE  Progress(t, 0, w, Len(w), t)
<1>1. Len(t) \in Nat /\ Len(w) \in Nat /\ Reach(t, 0) = 0
  <2>1. 1 \in Nat \ {0}
    OBVIOUS
  <2> QED
    BY <2>1, LenProperties, ReachStep
<1>2. LeftOf(t, t, 0) /\ Len(w) = Len(w) + Reach(t, 0) + 0 /\ 0 \in 0..Len(t)
  BY <1>1 DEF LeftOf
<1> QED
  BY <1>2 DEF Progress

Printing == {"write", "put_cr", "put"}
Half == IF pc[BootCore] = "put" /\ Head(str[BootCore]) = LF THEN 1 ELSE 0

\* What was written is the beginning of the message and, from the report on,
\* the beginning of the report; what is being printed goes on from there.
Ordered ==
    LET p == pc[BootCore]
        s == str[BootCore]
        m == Len(written)
    IN  /\ written \in Seq(Char)
        /\ p \in Early \cup {"post_gpio", "gpio", "main"} => written = <<>>
        /\ \E n \in 0..m :
              /\ PartOf(written, 0, n, Message) /\ PartOf(written, n, m, PanicInfo)
              /\ ~Begun => n = m
              /\ p \in Printing =>
                    IF Begun THEN Progress(s, Half, written, n, PanicInfo)
                             ELSE Progress(s, Half, written, 0, Message)

\* Nothing was written at power-up.
LEMMA InitOrdered == Init => Ordered
<1> SUFFICES ASSUME Init PROVE Ordered
  OBVIOUS
<1>1. written = <<>> /\ pc[BootCore] = "_start"
  BY JtagAssumption DEF Init
<1>2. 0 \in 0..Len(written) /\ Len(written) = 0 /\ written \in Seq(Char)
  BY <1>1
<1>3. PartOf(written, 0, 0, Message) /\ PartOf(written, 0, 0, PanicInfo)
  BY EmptyPart, JtagAssumption
<1> QED
  BY <1>1, <1>2, <1>3 DEF Ordered, Printing

\* A step that writes nothing and begins nothing.
LEMMA QuietOrdered ==
    ASSUME Ordered, written' = written, str'[BootCore] = str[BootCore], Begun' <=> Begun,
           pc'[BootCore] \in Early \cup {"post_gpio", "gpio", "main"} =>
               pc[BootCore] \in Early \cup {"post_gpio", "gpio", "main"},
           pc'[BootCore] \in Printing => pc[BootCore] \in Printing /\ Half' = Half
    PROVE  Ordered'
<1>1. PICK n \in 0..Len(written) :
        /\ PartOf(written, 0, n, Message) /\ PartOf(written, n, Len(written), PanicInfo)
        /\ ~Begun => n = Len(written)
        /\ pc[BootCore] \in Printing =>
              IF Begun THEN Progress(str[BootCore], Half, written, n, PanicInfo)
                       ELSE Progress(str[BootCore], Half, written, 0, Message)
  BY DEF Ordered
<1>2. pc'[BootCore] \in Printing =>
        IF Begun' THEN Progress(str'[BootCore], Half', written', n, PanicInfo)
                  ELSE Progress(str'[BootCore], Half', written', 0, Message)
  BY <1>1
<1>3. written' \in Seq(Char)
      /\ (pc'[BootCore] \in Early \cup {"post_gpio", "gpio", "main"} => written' = <<>>)
  BY DEF Ordered
<1> QED
  BY <1>1, <1>2, <1>3 DEF Ordered

\* println! of the message finds nothing written, that of the report the
\* beginning of the message.
LEMMA PrintlnOrdered ==
    ASSUME IInv, IInv', LineInv, Ordered, NEW c \in Cores, KernelMain(c) \/ PanicPrint(c)
    PROVE  Ordered'
<1>1. PICK from \in {"main", "panic_print"}, t \in {"message", "report"} :
        /\ Println(c, from, t)
        /\ t = "report" <=> from = "panic_print"
  BY DEF KernelMain, PanicPrint
<1>2. /\ c = BootCore /\ pc[BootCore] = from
      /\ pc'[BootCore] = IF console = "null" THEN "parked" ELSE "write"
  BY <1>1, BootCoreSteps DEF Println, Place, Abandoned
<1>3. /\ written' = written /\ texts' = Append(texts, t)
      /\ str' = [str EXCEPT ![BootCore] = IF console = "null" THEN <<>> ELSE Text[t]]
  BY <1>1, <1>2 DEF Println, uart
<1>4. ~Begun /\ (Begun' <=> t = "report")
  <2>1. ~Begun
    <3>1. from = "main" => texts = <<>>
      BY <1>2 DEF LineInv, Prepared
    <3>2. from = "panic_print" => ~Begun
      BY <1>2 DEF IInv, Guarded
    <3> QED
      BY <3>1, <3>2 DEF Begun, ReportAt
  <2>2. Begun' <=> Begun \/ t = "report"
    BY <1>3, Append_ReportAt DEF IInv, TypeOK
  <2> QED
    BY <2>1, <2>2
<1>5. PICK m \in Nat : /\ m = Len(written) /\ written \in Seq(Char)
                       /\ PartOf(written, 0, m, Message) /\ PartOf(written, m, m, PanicInfo)
                       /\ (from = "main" => written = <<>>)
  BY <1>2, <1>4, LenProperties DEF Ordered
<1>6. pc'[BootCore] = "write" => Half' = 0 /\ str'[BootCore] = Text[t]
  BY <1>2, <1>3, JtagAssumption DEF Half, LineInv, Sending
<1>7. pc'[BootCore] \in Printing =>
        IF Begun' THEN Progress(str'[BootCore], Half', written', m, PanicInfo)
                  ELSE Progress(str'[BootCore], Half', written', 0, Message)
  <2> SUFFICES ASSUME pc'[BootCore] = "write"
               PROVE  IF Begun' THEN Progress(str'[BootCore], Half', written', m, PanicInfo)
                                ELSE Progress(str'[BootCore], Half', written', 0, Message)
    BY <1>2 DEF Printing
  <2>1. Half' = 0 /\ str'[BootCore] = Text[t] /\ Message \in Seq(Char) /\ PanicInfo \in Seq(Char)
    BY <1>6, JtagAssumption
  <2>2. CASE t = "report"
    <3>1. str'[BootCore] = PanicInfo /\ Begun'
      BY <1>4, <2>1, <2>2 DEF Text
    <3>2. Progress(PanicInfo, 0, written, m, PanicInfo)
      BY <1>5, <2>1, TextBegun
    <3> QED
      BY <1>3, <2>1, <3>1, <3>2
  <2>3. CASE t = "message"
    <3>1. str'[BootCore] = Message /\ ~Begun' /\ written = <<>> /\ Len(written) = 0
      BY <1>1, <1>4, <1>5, <2>1, <2>3 DEF Text
    <3>2. Progress(Message, 0, written, 0, Message)
      BY <1>5, <2>1, <3>1, TextBegun
    <3> QED
      BY <1>3, <2>1, <3>1, <3>2
  <2> QED
    BY <2>2, <2>3
<1>8. pc'[BootCore] \notin Early \cup {"post_gpio", "gpio", "main"}
  BY <1>2 DEF Early
<1>9. /\ m \in 0..Len(written') /\ m = Len(written') /\ written' \in Seq(Char)
      /\ PartOf(written', 0, m, Message) /\ PartOf(written', m, Len(written'), PanicInfo)
  BY <1>3, <1>5
<1> QED
  BY <1>7, <1>8, <1>9 DEF Ordered

\* A write to DR by the one core that prints.
LEMMA WriteOrdered ==
    ASSUME IInv, LineInv, Ordered, NEW c \in Cores, PutCr(c) \/ Put(c)
    PROVE  Ordered'
<1>1. /\ c = BootCore /\ pc[BootCore] \in {"put_cr", "put"}
      /\ pc'[BootCore] \in {"put", "write"} /\ texts' = texts
      /\ str[BootCore] \in Seq(Char) /\ str[BootCore] # <<>> /\ BootCore \in Cores
      /\ str \in [Cores -> Seq(Char)]
  BY BootCoreSteps, JtagAssumption DEF PutCr, Put, ghost, Place, Abandoned, LineInv, Sending
<1>2. (Begun' <=> Begun) /\ pc'[BootCore] \in Printing /\ pc[BootCore] \in Printing
      /\ pc'[BootCore] \notin Early \cup {"post_gpio", "gpio", "main"}
  BY <1>1 DEF Begun, ReportAt, Printing, Early
<1>3. PICK s \in Seq(Char), w \in Seq(Char), m \in Nat :
        s = str[BootCore] /\ s # <<>> /\ w = written /\ m = Len(w)
  BY <1>1, LenProperties DEF Ordered
<1>4. PICK n \in 0..m :
        /\ PartOf(w, 0, n, Message) /\ PartOf(w, n, m, PanicInfo)
        /\ ~Begun => n = m
        /\ IF Begun THEN Progress(s, Half, w, n, PanicInfo)
                    ELSE Progress(s, Half, w, 0, Message)
  BY <1>2, <1>3 DEF Ordered
<1>5. ASSUME NEW h, NEW s2, NEW ch \in Char, written' = Append(w, ch),
             Half' = h, str'[BootCore] = s2,
             \A b \in 0..m, t \in {Message, PanicInfo} :
                PartOf(w, b, m, t) /\ Progress(s, Half, w, b, t)
                => PartOf(Append(w, ch), b, m + 1, t) /\ Progress(s2, h, Append(w, ch), b, t)
      PROVE  Ordered'
  <2>1. Append(w, ch) \in Seq(Char) /\ Len(Append(w, ch)) = m + 1
    BY <1>3
  <2>2. CASE Begun
    <3>1. n \in 0..m /\ n \in Nat /\ n \in 0..(m + 1)
      BY <1>4
    <3>2. PartOf(Append(w, ch), n, m + 1, PanicInfo)
          /\ Progress(s2, h, Append(w, ch), n, PanicInfo)
      BY <1>4, <1>5, <2>2
    <3>3. PartOf(Append(w, ch), 0, n, Message)
      BY <1>3, <1>4, <3>1, PartKept
    <3> QED
      BY <1>2, <1>5, <2>1, <2>2, <3>1, <3>2, <3>3 DEF Ordered
  <2>3. CASE ~Begun
    <3>1. n = m /\ 0 \in 0..m /\ m + 1 \in 0..(m + 1) /\ m + 1 \in Nat
      BY <1>4, <2>3
    <3>2. PartOf(Append(w, ch), 0, m + 1, Message)
          /\ Progress(s2, h, Append(w, ch), 0, Message)
      BY <1>4, <1>5, <2>3, <3>1
    <3>3. PartOf(Append(w, ch), m + 1, m + 1, PanicInfo)
      BY <3>1, EmptyPart, JtagAssumption
    <3> QED
      BY <1>2, <1>5, <2>1, <2>3, <3>1, <3>2, <3>3 DEF Ordered
  <2> QED
    BY <2>2, <2>3
<1>6. CASE PutCr(c)
  <2>1. /\ pc[BootCore] = "put_cr" /\ pc'[BootCore] = "put" /\ str' = str /\ Head(s) = LF
        /\ written' = Append(w, CR) /\ CR \in Char
    BY <1>3, <1>6, BootCoreSteps, JtagAssumption
    DEF PutCr, WriteDR, Place, Abandoned, LineInv, Sending
  <2>2. Half = 0 /\ Half' = 1
    BY <1>3, <2>1 DEF Half
  <2>3. ASSUME NEW b \in 0..m, NEW t \in {Message, PanicInfo},
               PartOf(w, b, m, t), Progress(s, Half, w, b, t)
        PROVE  PartOf(Append(w, CR), b, m + 1, t) /\ Progress(s, 1, Append(w, CR), b, t)
    BY <1>3, <2>1, <2>2, <2>3, CrWritten, JtagAssumption
  <2> QED
    BY <1>3, <1>5, <2>1, <2>2, <2>3
<1>7. CASE Put(c)
  <2>1. /\ pc[BootCore] = "put" /\ pc'[BootCore] = "write"
        /\ str' = [str EXCEPT ![BootCore] = Tail(s)]
        /\ written' = Append(w, Head(s)) /\ Head(s) \in Char
    BY <1>1, <1>3, <1>7, BootCoreSteps DEF Put, WriteDR, Place, Abandoned
  <2>2. /\ Half = IF Head(s) = LF THEN 1 ELSE 0
        /\ Half' = 0 /\ str'[BootCore] = Tail(s)
    BY <1>1, <1>3, <2>1 DEF Half
  <2>3. ASSUME NEW b \in 0..m, NEW t \in {Message, PanicInfo},
               PartOf(w, b, m, t), Progress(s, Half, w, b, t)
        PROVE  PartOf(Append(w, Head(s)), b, m + 1, t)
               /\ Progress(Tail(s), 0, Append(w, Head(s)), b, t)
    <3>1. b \in Nat /\ b <= Len(w) /\ t \in Seq(Char)
      BY <1>3, JtagAssumption
    <3>2. PartOf(w, b, Len(w), t) /\ Half = IF Head(s) = LF THEN 1 ELSE 0
      BY <1>3, <2>2, <2>3
    <3>3. PICK h : h = Half
      OBVIOUS
    <3>4. PartOf(Append(w, Head(s)), b, Len(w) + 1, t)
          /\ Progress(Tail(s), 0, Append(w, Head(s)), b, t)
      BY <1>3, <2>3, <3>1, <3>2, <3>3, CharWritten
    <3> QED
      BY <1>3, <3>4
  <2>4. PICK ch \in Char : ch = Head(s)
    BY <2>1
  <2>5. PICK s2 : s2 = Tail(s)
    OBVIOUS
  <2>6. written' = Append(w, ch) /\ Half' = 0 /\ str'[BootCore] = s2
    BY <2>1, <2>2, <2>4, <2>5
  <2>7. \A b \in 0..m, t \in {Message, PanicInfo} :
           PartOf(w, b, m, t) /\ Progress(s, Half, w, b, t)
           => PartOf(Append(w, ch), b, m + 1, t) /\ Progress(s2, 0, Append(w, ch), b, t)
    BY <2>3, <2>4, <2>5
  <2> QED
    BY <1>5, <2>6, <2>7
<1> QED
  BY <1>6, <1>7

\* All other steps write nothing, and begin no text.
LEMMA StepOrdered ==
    IInv /\ IInv' /\ LineInv /\ Ordered /\ [Next]_vars => Ordered'
<1> SUFFICES ASSUME IInv, IInv', LineInv, Ordered, [Next]_vars PROVE Ordered'
  OBVIOUS
<1>1. ASSUME UNCHANGED <<pc, str, written, texts>> PROVE Ordered'
  BY <1>1, QuietOrdered DEF Begun, ReportAt, Half
<1>2. CASE TransmitChar \/ Tick \/ UNCHANGED vars
  BY <1>1, <1>2 DEF TransmitChar, Transmit, Tick, vars, uart, thread, ghost
<1>3. ASSUME NEW c \in Cores, Kernel(c) \/ Panics(c) PROVE Ordered'
  <2>1. CASE KernelMain(c) \/ PanicPrint(c)
    BY <2>1, PrintlnOrdered
  <2>2. CASE PutCr(c) \/ Put(c)
    BY <2>2, WriteOrdered
  <2>3. ASSUME UNCHANGED <<str, written, texts>>,
               \/ pc'[BootCore] = pc[BootCore] /\ pc[BootCore] \notin Printing
               \/ /\ pc[BootCore] \in Early \cup {"post_gpio", "gpio", "main"}
                  /\ pc'[BootCore] \notin Printing
               \/ pc'[BootCore] \in {"parked", "panic_load", "panic_store", "panic_print"}
        PROVE  Ordered'
    <3>1. Begun' <=> Begun
      BY <2>3 DEF Begun, ReportAt
    <3>2. /\ written' = written /\ str'[BootCore] = str[BootCore]
          /\ pc'[BootCore] \in Early \cup {"post_gpio", "gpio", "main"} =>
                pc[BootCore] \in Early \cup {"post_gpio", "gpio", "main"}
      BY <2>3 DEF Early
    <3>3. pc'[BootCore] \notin Printing
      BY <2>3 DEF Printing
    <3> QED
      BY <3>1, <3>2, <3>3, QuietOrdered
  <2>4. CASE CoreCheck(c) \/ BssInit(c) \/ RegisterDrivers(c)
    <3>1. UNCHANGED <<str, written, texts>>
      BY <2>4 DEF CoreCheck, BssInit, RegisterDrivers, uart, ghost
    <3>2. CASE c = BootCore
      BY <2>3, <2>4, <3>1, <3>2, JtagAssumption
      DEF CoreCheck, BssInit, RegisterDrivers, Step, IInv, TypeOK, Early, Printing
    <3>3. CASE c # BootCore
      <4>1. pc'[BootCore] = pc[BootCore]
        BY <2>4, <3>3, JtagAssumption
        DEF CoreCheck, BssInit, RegisterDrivers, Step, IInv, TypeOK
      <4> QED
        BY <3>1, <4>1, QuietOrdered DEF Begun, ReportAt, Half
    <3> QED
      BY <3>2, <3>3
  <2>5. CASE InitFlush(c) \/ InitOff(c) \/ InitBaud(c) \/ InitOn(c)
    <3>1. UNCHANGED <<str, written, texts>>
      BY <2>5 DEF InitFlush, InitOff, InitBaud, InitOn, TurnOff, TurnOn, uart, ghost
    <3>2. pc[BootCore] \in Early /\ pc'[BootCore] \in Early
      BY <2>5, BootCoreSteps DEF InitFlush, InitOff, InitBaud, InitOn, Place, Abandoned, Early
    <3> QED
      BY <2>3, <3>1, <3>2 DEF Early, Printing
  <2>6. CASE PostInitUart(c) \/ PostInitGpio(c) \/ MapPl011Uart(c)
    <3>1. UNCHANGED <<str, written, texts>>
      BY <2>6 DEF PostInitUart, PostInitGpio, MapPl011Uart, uart, ghost
    <3>2. /\ pc[BootCore] \in {"post_uart", "post_gpio", "gpio"}
          /\ pc'[BootCore] \in {"post_gpio", "gpio", "main"}
      BY <2>6, BootCoreSteps DEF PostInitUart, PostInitGpio, MapPl011Uart, Place, Abandoned
    <3> QED
      BY <2>3, <3>1, <3>2 DEF Early, Printing
  <2>7. CASE WriteReturns(c) \/ Panics(c) \/ PanicLoad(c) \/ PanicStore(c)
    <3>1. UNCHANGED <<str, written, texts>>
      BY <2>7 DEF WriteReturns, Panics, PanicLoad, PanicStore, uart, ghost
    <3>2. pc'[BootCore] \in {"parked", "panic_load", "panic_store", "panic_print"}
      BY <2>7, BootCoreSteps
      DEF WriteReturns, Panics, PanicLoad, PanicStore, Place, Abandoned
    <3> QED
      BY <2>3, <3>1, <3>2
  <2>8. CASE WaitForSlot(c)
    <3>1. /\ UNCHANGED <<str, written, texts>> /\ pc[BootCore] = "write"
          /\ pc'[BootCore] = IF Head(str[BootCore]) = LF THEN "put_cr" ELSE "put"
      BY <2>8, BootCoreSteps DEF WaitForSlot, uart, ghost, Place, Abandoned
    <3>2. Half' = Half /\ pc[BootCore] \in Printing
      BY <3>1 DEF Half, Printing
    <3> QED
      BY <3>1, <3>2, QuietOrdered DEF Begun, ReportAt, Early
  <2> QED
    BY <1>3, <2>1, <2>2, <2>4, <2>5, <2>6, <2>7, <2>8 DEF Kernel
<1> QED
  BY <1>2, <1>3 DEF Next

\* The beginning of a text is a prefix of its CRLF form.
LEMMA PartIsPrefix ==
    ASSUME NEW w \in Seq(Char), NEW b \in Nat, NEW e \in Nat, b <= e, e <= Len(w),
           NEW t \in Seq(Char), PartOf(w, b, e, t)
    PROVE  IsPrefix(SubSeq(w, b + 1, e), Crlf(t))
<1> DEFINE x == SubSeq(w, b + 1, e)
           y == Crlf(t)
           l == e - b
<1>1. /\ x \in Seq(Char) /\ Len(x) = l /\ l \in Nat
      /\ \A j \in 1..l : x[j] = w[b + j]
  OBVIOUS
<1>2. y \in Seq(Char) /\ Len(y) \in Nat
  BY CrlfProperties, LenProperties
<1>3. l <= Len(y) /\ \A j \in 1..l : w[b + j] = y[j]
  BY DEF PartOf
<1> HIDE DEF x, y, l
<1>4. /\ SubSeq(x, 1, l) \in Seq(Char) /\ Len(SubSeq(x, 1, l)) = l
      /\ \A j \in 1..l : SubSeq(x, 1, l)[j] = x[j]
  BY <1>1
<1>5. /\ SubSeq(y, 1, l) \in Seq(Char) /\ Len(SubSeq(y, 1, l)) = l
      /\ \A j \in 1..l : SubSeq(y, 1, l)[j] = y[j]
  BY <1>1, <1>2, <1>3
<1>6. SubSeq(x, 1, l) = SubSeq(y, 1, l)
  BY <1>1, <1>3, <1>4, <1>5, SeqEqual
<1>7. IsPrefix(x, y)
  BY <1>1, <1>3, <1>6 DEF IsPrefix
<1> QED
  BY <1>7 DEF x, y

\* The locks of this kernel lock nothing out, and still its texts are not
\* mixed: only the boot core prints, and a panic ends what it was printing
\* (synchronization.rs 33-57, panic_wait.rs 32-79).
THEOREM TextsNotMixed == Spec => []TextsInOrder
<1>1. Ordered => TextsInOrder
  <2> SUFFICES ASSUME Ordered PROVE TextsInOrder
    OBVIOUS
  <2>1. PICK m \in Nat : m = Len(written) /\ written \in Seq(Char)
    BY LenProperties DEF Ordered
  <2>2. PICK n \in 0..m : /\ PartOf(written, 0, n, Message)
                          /\ PartOf(written, n, m, PanicInfo)
    BY <2>1 DEF Ordered
  <2>3. n \in Nat /\ n <= m /\ 0 <= n /\ 0 + 1 = 1
    BY <2>2
  <2>4. IsPrefix(SubSeq(written, 0 + 1, n), Crlf(Message))
    BY <2>1, <2>2, <2>3, PartIsPrefix, JtagAssumption
  <2>5. IsPrefix(SubSeq(written, n + 1, m), Crlf(PanicInfo))
    BY <2>1, <2>2, <2>3, PartIsPrefix, JtagAssumption
  <2> QED
    BY <2>1, <2>2, <2>3, <2>4, <2>5 DEF TextsInOrder
<1> QED
  BY <1>1, InitOrdered, Invariance, StepOrdered, PTL DEF Spec
=============================================================================
