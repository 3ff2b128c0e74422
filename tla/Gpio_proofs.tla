---------------------------- MODULE Gpio_proofs ----------------------------
(***************************************************************************)
(* The pins of the UART, for every set of other pins and every set-up time *)
(* of the BCM2837 that both programs wait for: both map exactly the pins   *)
(* of the UART, and the chainloader on every board and the kernel on the   *)
(* BCM2837 disable exactly their pulls.  The kernel on BCM2711 and BCM2712 *)
(* does not (run Gpio_pulls).                                              *)
(***************************************************************************)
EXTENDS Gpio, TLAPS

\* Functions and pulls are those of the pins.
Types ==
    /\ board \in {"rpi3", "rpi4", "rpi5", "rpi5_early"}
    /\ program \in {"chainloader", "kernel"}
    /\ pc \in {"select", "pulls", "pud", "clock", "remove_pud", "remove_clock", "done"}
    /\ gpfsel1 \in [Pins -> Function] /\ pull \in [Pins -> Pull]
    /\ age \in Nat

\* The program that runs maps the pins; the early-uart chainloader does not.
Maps == program = "kernel" \/ board # "rpi5_early"

\* Which way the program goes, and how far the functions of the pins are.
Way ==
    /\ ~Maps => pc = "done"
    /\ pc = "pulls" => board # "rpi3"
    /\ pc \in {"pud", "clock", "remove_pud", "remove_clock"} => board = "rpi3"
    /\ pc # "select" /\ Maps => \A p \in UartPins : gpfsel1[p] = "alt0"
    /\ \A p \in OtherPins : gpfsel1[p] = before[1][p]

\* The protocol of the BCM2837, step by step.
Protocol ==
    /\ pc \in {"clock", "remove_pud"} => gppud = "off"
    /\ pc = "remove_pud" => gppudclk0 = UartPins /\ settled
    /\ pc = "remove_clock" => \A p \in UartPins : pull[p] = "off"
    /\ pc = "done" /\ Maps /\ (board = "rpi3" \/ program = "chainloader")
         => \A p \in UartPins : pull[p] = "off"
    /\ board = "rpi3" \/ program = "chainloader"
         => \A p \in OtherPins : pull[p] = before[2][p]

IInv == Types /\ Way /\ Protocol

LongEnough == SetUp <= ShortDelay /\ SetUp <= Delay
-----------------------------------------------------------------------------

\* The initial states, whatever the firmware has left in the registers.
LEMMA InitIInv == Init => IInv
<1> SUFFICES ASSUME Init PROVE IInv
  OBVIOUS
<1>1. Types
  BY GpioAssumption DEF Init, Types
<1>2. before[1] = gpfsel1 /\ before[2] = pull
  BY DEF Init
<1>3. Way
  BY <1>2 DEF Init, Way, Maps
<1>4. Protocol
  BY <1>2 DEF Init, Protocol, Maps
<1> QED BY <1>1, <1>3, <1>4 DEF IInv

\* The functions of the pins: either program, on every board.
LEMMA SelectStep == IInv /\ SelectFunctions => IInv'
<1> SUFFICES ASSUME IInv, SelectFunctions PROVE IInv'
  OBVIOUS
<1>1. /\ pc = "select" /\ pc' = IF board = "rpi3" THEN "pud" ELSE "pulls"
      /\ gpfsel1' = [p \in Pins |-> IF p \in UartPins THEN "alt0" ELSE gpfsel1[p]]
      /\ UNCHANGED <<board, program, before, gppud, gppudclk0, settled, age, pull>>
  BY DEF SelectFunctions, setting, bcm2837
<1>2. /\ \A p \in UartPins : gpfsel1'[p] = "alt0"
      /\ \A p \in OtherPins : gpfsel1'[p] = gpfsel1[p]
      /\ gpfsel1' \in [Pins -> Function]
  <2>1. UartPins \subseteq Pins /\ OtherPins \subseteq Pins /\ UartPins \cap OtherPins = {}
    BY GpioAssumption DEF Pins
  <2>2. gpfsel1 \in [Pins -> Function] /\ "alt0" \in Function
    BY DEF IInv, Types, Function
  <2> QED BY <1>1, <2>1, <2>2
<1>3. Types'
  BY <1>1, <1>2 DEF IInv, Types
<1>4. Way'
  BY <1>1, <1>2 DEF IInv, Way, Maps
<1>5. Protocol'
  BY <1>1 DEF IInv, Protocol, Maps
<1> QED BY <1>3, <1>4, <1>5 DEF IInv

\* The pull registers of BCM2711 and BCM2712.
LEMMA PullsStep == IInv /\ WritePulls => IInv'
<1> SUFFICES ASSUME IInv, WritePulls PROVE IInv'
  OBVIOUS
<1> DEFINE new(p) == IF program = "kernel" THEN IF p \in UartPins THEN "up" ELSE "off"
                     ELSE IF p \in UartPins THEN "off" ELSE pull[p]
<1>1. /\ pc = "pulls" /\ pc' = "done" /\ pull' = [p \in Pins |-> new(p)]
      /\ UNCHANGED <<board, program, before, gpfsel1, gppud, gppudclk0, settled, age>>
  BY DEF WritePulls, setting, bcm2837
<1>2. UartPins \subseteq Pins /\ OtherPins \subseteq Pins /\ UartPins \cap OtherPins = {}
  BY GpioAssumption DEF Pins
<1>3. pull' \in [Pins -> Pull]
  BY <1>1 DEF IInv, Types, Pull
<1>4. program = "chainloader" => /\ \A p \in UartPins : pull'[p] = "off"
                                 /\ \A p \in OtherPins : pull'[p] = pull[p]
  BY <1>1, <1>2
<1>5. board # "rpi3"
  BY <1>1 DEF IInv, Way
<1>6. Types' /\ Way'
  BY <1>1, <1>3 DEF IInv, Types, Way, Maps
<1>7. Protocol'
  BY <1>1, <1>4, <1>5 DEF IInv, Protocol, Maps
<1> QED BY <1>6, <1>7 DEF IInv

\* The clock comes when the control line has been stable for long enough.
LEMMA ClockSteps == LongEnough /\ IInv /\ (WritePud \/ AssertClock \/ RemoveClock) => IInv'
<1> SUFFICES ASSUME LongEnough, IInv, WritePud \/ AssertClock \/ RemoveClock PROVE IInv'
  OBVIOUS
<1>1. CASE WritePud
  BY <1>1 DEF WritePud, setting, IInv, Types, Way, Protocol, Maps
<1>2. CASE AssertClock
  <2>1. settled'
    <3>1. Waited /\ settled' = (age >= SetUp)
      BY <1>2 DEF AssertClock
    <3>2. age >= SetUp
      BY <3>1, GpioAssumption DEF Waited, LongEnough, IInv, Types
    <3> QED BY <3>1, <3>2
  <2> QED BY <1>2, <2>1 DEF AssertClock, setting, IInv, Types, Way, Protocol, Maps
<1>3. CASE RemoveClock
  BY <1>3 DEF RemoveClock, setting, IInv, Types, Way, Protocol, Maps
<1> QED BY <1>1, <1>2, <1>3

\* The pins have then been clocked for long enough when the control line goes.
LEMMA RemovePudStep == LongEnough /\ IInv /\ RemovePud => IInv'
<1> SUFFICES ASSUME LongEnough, IInv, RemovePud PROVE IInv'
  OBVIOUS
<1>1. /\ pc = "remove_pud" /\ Waited /\ gppud' = "off" /\ age' = 0 /\ pc' = "remove_clock"
      /\ UNCHANGED <<board, program, before, gpfsel1, gppudclk0, settled>>
  BY DEF RemovePud, setting
<1>2. age >= SetUp /\ settled /\ gppud = "off" /\ gppudclk0 = UartPins
  BY <1>1, GpioAssumption DEF Waited, LongEnough, IInv, Types, Protocol
<1>3. PICK taken \in [UartPins -> Pull] :
        /\ taken = [p \in UartPins |-> gppud]
        /\ pull' = [p \in Pins |-> IF p \in gppudclk0 THEN taken[p] ELSE pull[p]]
  BY <1>2 DEF RemovePud
<1>4. UartPins \subseteq Pins /\ OtherPins \subseteq Pins /\ UartPins \cap OtherPins = {}
  BY GpioAssumption DEF Pins
<1>5. /\ \A p \in UartPins : pull'[p] = "off"
      /\ \A p \in OtherPins : pull'[p] = pull[p]
      /\ pull' \in [Pins -> Pull]
  BY <1>2, <1>3, <1>4 DEF IInv, Types, Pull
<1>6. Types' /\ Way'
  BY <1>1, <1>5 DEF IInv, Types, Way, Maps
<1>7. Protocol'
  BY <1>1, <1>5 DEF IInv, Protocol, Maps
<1> QED BY <1>6, <1>7 DEF IInv

\* Every step of either program, of time, or of neither.
LEMMA StepIInv == LongEnough /\ IInv /\ [Next]_vars => IInv'
<1> SUFFICES ASSUME LongEnough, IInv, [Next]_vars PROVE IInv'
  OBVIOUS
<1>1. CASE EnterKernel
  <2>1. /\ program = "chainloader" /\ program' = "kernel" /\ pc' = "select"
        /\ before'[1] = gpfsel1 /\ before'[2] = pull
        /\ UNCHANGED <<board, gpfsel1, gppud, gppudclk0, settled, age, pull>>
    BY <1>1 DEF EnterKernel, bcm2837
  <2> QED BY <2>1 DEF IInv, Types, Way, Protocol, Maps
<1>2. CASE TimePasses
  BY <1>2 DEF TimePasses, setting, IInv, Types, Way, Protocol, Maps
<1>3. CASE UNCHANGED vars
  BY <1>3 DEF vars, setting, bcm2837, IInv, Types, Way, Protocol, Maps
<1> QED BY <1>1, <1>2, <1>3, SelectStep, PullsStep, ClockSteps, RemovePudStep
        DEF Next, MapPl011Uart

\* With waits no shorter than the set-up time of the BCM2837: init_gpio and
\* map_pl011_uart give the UART its pins and leave the function of every other
\* pin alone, on every board; init_gpio, and on the BCM2837 map_pl011_uart, also
\* leave the UART's pins floating and the pulls of the others alone.  Not so
\* the kernel on BCM2711 and BCM2712, about whose pulls this says nothing; and
\* without the assumption about the waits it does not hold (JtagBoot).
THEOREM PinsMappedAndCleared ==
    ASSUME SetUp <= ShortDelay, SetUp <= Delay
    PROVE  Spec => []OnlyUartPinsMapped
<1>1. IInv /\ [Next]_vars => IInv'
  BY StepIInv DEF LongEnough
<1>2. IInv => OnlyUartPinsMapped
  BY DEF IInv, Way, Protocol, Maps, OnlyUartPinsMapped, PullsDisabled, Mapped
<1> QED BY <1>1, <1>2, InitIInv, PTL DEF Spec
=============================================================================
