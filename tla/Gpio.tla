-------------------------------- MODULE Gpio --------------------------------
(***************************************************************************)
(* The pins of the UART: init_gpio of the chainloader, then, in the kernel *)
(* it has loaded, map_pl011_uart of the GPIO driver, on registers that the *)
(* UART's pins 14 and 15 share with other pins.                            *)
(*                                                                         *)
(* On the BCM2837 a pull is set by a protocol: the value goes to GPPUD,    *)
(* must be stable for SetUp, is clocked into the pins of GPPUDCLK0, and    *)
(* must be held for another SetUp.  What a pin takes from a clock that was *)
(* too short is anyone's guess.  The BCM2711 and BCM2712 have a register.  *)
(***************************************************************************)
EXTENDS Naturals

CONSTANTS Boards,       \* of rpi3, rpi4, rpi5 and rpi5_early (early-uart)
          OtherPins,    \* other pins in the same registers
          SetUp,        \* time the BCM2837 needs, before and after the clock
          ShortDelay,   \* what short_delay lasts
          Delay,        \* what spin_for(DELAY) lasts at least
          MaxAge        \* bound: longer times are not told apart

UartPins == {14, 15}
Pins == UartPins \cup OtherPins
Pull == {"off", "up", "down"}
Function == {"input", "output", "alt0"}

ASSUME GpioAssumption ==
    /\ Boards \subseteq {"rpi3", "rpi4", "rpi5", "rpi5_early"}
    /\ UartPins \cap OtherPins = {}
    /\ {SetUp, ShortDelay, Delay, MaxAge} \subseteq Nat
    /\ {SetUp, ShortDelay, Delay} \subseteq 0..MaxAge

VARIABLES
    board, program, pc,
    gpfsel1,    \* the function of each pin
    gppud,      \* BCM2837: the control line to all pins
    gppudclk0,  \* BCM2837: the pins that are being clocked
    settled,    \* BCM2837: the control line was stable before the clock came
    pull,       \* the pull each pin has
    age,        \* time since the last write to gppud or gppudclk0
    before      \* history: functions and pulls when the program started

setting == <<board, program, before>>
bcm2837 == <<gppud, gppudclk0, settled, age>>
vars == <<setting, pc, gpfsel1, bcm2837, pull>>

Init ==
    /\ board \in Boards
    /\ program = "chainloader"
    /\ pc = IF board = "rpi5_early" THEN "done" ELSE "select"
    /\ gpfsel1 \in [Pins -> Function] /\ pull \in [Pins -> Pull]
    /\ gppud \in Pull /\ gppudclk0 = {} /\ settled = FALSE /\ age = 0
    /\ before = <<gpfsel1, pull>>

SelectFunctions ==
    /\ pc = "select"
    /\ gpfsel1' = [p \in Pins |-> IF p \in UartPins THEN "alt0" ELSE gpfsel1[p]]
    /\ pc' = IF board = "rpi3" THEN "pud" ELSE "pulls"
    /\ UNCHANGED <<setting, bcm2837, pull>>

\* BCM2711 and BCM2712.  The chainloader clears the fields of its pins; the
\* driver writes the whole register, with the pull-up in the two fields.
WritePulls ==
    /\ pc = "pulls"
    /\ pull' = [p \in Pins |->
                  IF program = "kernel" THEN IF p \in UartPins THEN "up" ELSE "off"
                  ELSE IF p \in UartPins THEN "off" ELSE pull[p]]
    /\ pc' = "done"
    /\ UNCHANGED <<setting, gpfsel1, bcm2837>>

\* BCM2837, in both programs.
WritePud ==
    /\ pc = "pud"
    /\ gppud' = "off" /\ age' = 0 /\ pc' = "clock"
    /\ UNCHANGED <<setting, gpfsel1, gppudclk0, settled, pull>>

\* short_delay and spin_for(DELAY) are over.
Waited == age >= IF program = "kernel" THEN Delay ELSE ShortDelay

AssertClock ==
    /\ pc = "clock" /\ Waited
    /\ gppudclk0' = UartPins /\ settled' = (age >= SetUp) /\ age' = 0
    /\ pc' = "remove_pud"
    /\ UNCHANGED <<setting, gpfsel1, gppud, pull>>

\* The pins keep what they were clocked with when the control line goes away.
\* Fault variant: there is no second wait.
RemovePud_NoWait ==
    /\ pc = "remove_pud"
    /\ \E taken \in [UartPins -> Pull] :
         /\ settled /\ age >= SetUp => taken = [p \in UartPins |-> gppud]
         /\ pull' = [p \in Pins |-> IF p \in gppudclk0 THEN taken[p] ELSE pull[p]]
    /\ gppud' = "off" /\ age' = 0 /\ pc' = "remove_clock"
    /\ UNCHANGED <<setting, gpfsel1, gppudclk0, settled>>

RemovePud ==
    /\ pc = "remove_pud" /\ Waited
    /\ \E taken \in [UartPins -> Pull] :
         /\ settled /\ age >= SetUp => taken = [p \in UartPins |-> gppud]
         /\ pull' = [p \in Pins |-> IF p \in gppudclk0 THEN taken[p] ELSE pull[p]]
    /\ gppud' = "off" /\ age' = 0 /\ pc' = "remove_clock"
    /\ UNCHANGED <<setting, gpfsel1, gppudclk0, settled>>

RemoveClock ==
    /\ pc = "remove_clock"
    /\ gppudclk0' = {} /\ settled' = FALSE /\ age' = 0 /\ pc' = "done"
    /\ UNCHANGED <<setting, gpfsel1, gppud, pull>>

\* The chainloader has entered the kernel, and the kernel its post_init_gpio.
EnterKernel ==
    /\ program = "chainloader" /\ pc = "done"
    /\ program' = "kernel" /\ pc' = "select" /\ before' = <<gpfsel1, pull>>
    /\ UNCHANGED <<board, gpfsel1, bcm2837, pull>>

TimePasses ==
    /\ age < MaxAge
    /\ age' = age + 1
    /\ UNCHANGED <<setting, pc, gpfsel1, gppud, gppudclk0, settled, pull>>

MapPl011Uart == SelectFunctions \/ WritePulls \/ WritePud \/ AssertClock
                \/ RemovePud \/ RemoveClock
Next == MapPl011Uart \/ EnterKernel \/ TimePasses

Spec == Init /\ [][Next]_vars

-----------------------------------------------------------------------------
(* Properties.                                                             *)

\* Either program has mapped the pins of its UART, and has itself been the
\* one to do so.
Mapped == pc = "done" /\ (program = "kernel" \/ board # "rpi5_early")

\* "Disable pull-up/down on pins 14 and 15": the pins float afterwards.
PullsDisabled == Mapped => \A p \in UartPins : pull[p] = "off"

\* "Disable pull-up/down on pins 14 and 15" (bcm2xxx_gpio.rs:161 and 188), of
\* these and no others: both programs, on every board.  The kernel on BCM2711
\* and BCM2712 does something else.
OnlyTheirPullsDisabled ==
    PullsDisabled /\ (Mapped => \A p \in OtherPins : pull[p] = before[2][p])

\* TX to pin 14, RX to pin 15 (bcm2xxx_gpio.rs:178-181): whatever the registers
\* held and on every board, and the eight other pins of the register go on doing
\* what they did.  As to the pulls, this is about the kernel on the BCM2837,
\* with its protocol, and the chainloader: there the pins float, and no other
\* pin loses its pull.  It says nothing about the pulls of the kernel on BCM2711
\* and BCM2712 (OnlyTheirPullsDisabled).
OnlyUartPinsMapped ==
    /\ \A p \in OtherPins : gpfsel1[p] = before[1][p]
    /\ Mapped => \A p \in UartPins : gpfsel1[p] = "alt0"
    /\ board = "rpi3" \/ program = "chainloader" =>
         PullsDisabled /\ \A p \in OtherPins : pull[p] = before[2][p]
=============================================================================
