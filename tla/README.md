# A TLA+ model of the Raspberry Pi kernel and its chainloader

The repository is a small AArch64 operating system kernel for the Raspberry
Pi 3, 4 and 5, in the tradition of the *Operating System development tutorials
in Rust*, with a chainloader that fetches the kernel over the serial line, QEMU
tests, and an older copy of the kernel for JTAG debugging. This directory
models the parts that run on the board: what they do to memory, to the UART,
to the pins, to the translation tables and to the exception state, in which
order, and what can come in between; and the host program that runs the tests.

`PROJECT.json` has the mapping of every definition to source lines, the runs,
the fault variants of each property, the findings, the hazards and the theorems.

    tlc -workers 2 -config SerialConsole.cfg MCSerialConsole     # model-check
    tlapm KernelBoot_proofs.tla                                  # prove

## Inventory

| Component (`src/kernel/src/...`) | State | Operations | Hard behaviour | What makes it correct |
|---|---|---|---|---|
| PL011 driver, `bsp/device_driver/bcm/bcm2xxx_pl011_uart.rs` | FIFOs, CR, divisor, two counters | init, write_char, write_str, flush, read_char, clear_rx | FIFO limits, polling against hardware that moves on, order of register writes | nothing lost, order kept, right baud rate, each wait ends |
| Main program, `main.rs` | none of its own | kernel_init, kernel_main | order of initialisation | every line visible, only fresh input echoed |
| Chainloader, `chainloader.rs` | size, image, UART | run | protocol with a host that is not told of resets; FIFO limits | the kernel entered is the file sent |
| Its boot code, `_arch/aarch64/cpu/chainloader.s`, `bsp/raspberrypi/chainloader.ld` | memory, registers of all cores | device tree copy, core check, BSS, relocation | all cores run it at once, on memory it is about to reuse | loader and device tree intact |
| Boot code, `_arch/aarch64/cpu/boot.s`, `boot.rs` | `.bss`, exception level | checks, clearing, return to EL1 | garbage in `.bss` | nothing is read before it is cleared |
| Driver manager and board drivers, `driver.rs`, `bsp/raspberrypi/driver.rs` | driver table, INIT_DONE | register, init_drivers, post-init callbacks | order, callbacks that change the console | drivers behind the MMU, console usable |
| Console facade, `console.rs`, `console/null_console.rs`, `print.rs` | current console | register_console, console | output before the UART is there | no line dropped |
| Panic, `panic_wait.rs`, `backtrace.rs`, `test.rs` | PANIC_IN_PROGRESS, EXPECTED_PANIC | panic, expect_panic, exit | faults inside the report | one report, truthful exit code, the core comes to rest |
| Exceptions, `_arch/aarch64/exception.rs`, `.s` | the frame on the stack | save, handle, restore | exceptions inside exceptions, scratch registers | context truthful, program resumed exactly |
| MMU, `_arch/aarch64/memory/mmu.rs`, `mmu/translation_table.rs`, `memory/mmu.rs` | two levels of tables, MAIR, TTBR0, TCR, SCTLR | enable_mmu_and_caching, populate_tt_entries | early return in the loops, granularity | the walk gives what the layout says |
| Memory maps, `bsp/raspberrypi/memory.rs`, `memory/mmu.rs` | constant | virt_addr_properties, validate_layout | page boundaries, remapped windows | devices reached, uncached, no alias |
| Timer, `_arch/aarch64/time.rs` | frequency | conversions, spin_for | rounding, wrap-around, running counter | waits last long enough and end |
| GPIO driver, `bcm2xxx_gpio.rs` | pin functions, pulls | map_pl011_uart | registers shared with other pins, pull protocol with waits, second program after the chainloader | UART has its pins, nobody else loses theirs |
| `synchronization.rs` (NullLock) | none | lock | nothing is locked: a panic inside a closure enters the next one, and so would a second core | what is cut off never goes on |
| JTAG kernel, `src/X1_JTAG_boot` | `.bss`, UART, pins, its timer's frequency | boot, kernel_init, println, panic, parking | no vectors, no flush, a guard of load and store, several cores, a timer nobody set up | one line out, one report, pins as the protocol has them |
| Test runner, `src/tools/kernel_test_runner` | child process, image file | image, poll, kill | time-out against exit, failing calls | verdict follows the exit, nothing left behind but after an error |
| Ruby scripts, Makefiles, `docs` | – | – | – | – |

How they interact: the chainloader's boot code relocates the chainloader, which
asks the host for the kernel and jumps to it with the UART still in use and the
device tree in `x0`. The kernel's boot code drops to EL1; `kernel_init` installs
the vectors, turns the MMU on, and has the driver manager initialise UART and
GPIO, whose post-init callbacks replace the null console and map the pins. From
then on everything goes through the console. Exceptions and panics may cut in
anywhere and use the same console. The JTAG kernel is a second program with the
same drivers that is loaded by firmware or chainloader. There is one core and no
interrupt is ever unmasked, so the concurrency is between software and hardware
(UART, counter, page walk, pulls), board and host, the cores of chainloader and
JTAG kernel before all but one park, and a program and the exceptions and
panics that hit it.

## Modules

* **`Pl011`** – the UART as seen through its registers: `WriteDR`, `ReadDR`,
  `TurnOff`, `TurnOn`, and the hardware's own `Transmit` and `Receive`. The
  histories `written`, `wire`, `lost` and `overrun` record what became of each
  character. The head of `txFifo` is the character in the shift register, so
  BUSY is "not empty". **`Baudrate`** has the divisor arithmetic.
* **`SerialConsole`** (extends both) – one thread through `init`, the messages
  of `kernel_main`, `clear_rx` and the echo loop; every access to a UART
  register that matters is one action, so that characters leave and arrive
  between any two. `pc` is the place in the driver, `kpc` the place in the main
  program. A received character carries the time of its arrival (before
  `clear_rx`, during, after). `earlyUart` chooses between the two versions of
  `init`.
* **`Chainloader`** (extends `Pl011`) – `chainloader.rs::run` against the host
  tool (external: three ETX, size, OK, file), noise on the line before the
  request, and a reset at any point. **`ReliableStream`** is what an output path
  promises; `StreamSpec` states that the loader's implements it, with
  `sent`/`delivered` mapped to what was written and put on the wire since the
  last reset. `Safe` is the promise without "in the end everything arrives".
* **`ChainloaderBoot`** – `chainloader.s` for all cores on a memory whose units
  remember where their content came from; each instruction that stores or
  branches is an action. `Derail` is a core whose next instruction has been
  overwritten. The regions and their order are those of `chainloader.ld`, as
  assumptions on the constants. Its specification is `BootSpec`, its variables
  `bootVars`, so that it can stand beside `Chainloader` in one module of proofs.
* **`KernelBoot`** (extends `BoardLayouts`) – the composition of boot code,
  `kernel_init`, memory layout, driver manager, console, exception vectors and
  panic handler, at one action per operation. `Script` is the order of
  operations in the four programs: the kernel, the same in a test build, and the
  page-fault and system-call tests. `Fault` is an unexpected exception at any
  step, also in the panic handler. Every access a driver makes goes through
  `Reach`: to the address itself without the MMU, and with it to where the
  layout of the board puts it; `reached` remembers what came of it.
  `ExclusivesFail` is a core whose atomics do not work while the MMU is off.
* **`VirtualLayout`** – `KernelVirtualLayout::virt_addr_properties` as
  operators. **`BoardLayouts`** gives it the real ranges of the four builds (in
  units of 4 KiB, for a code of any number of pages) and has `validate_layout`;
  **`TranslationTable`** fills the tables from any layout and has the
  hardware's walk (`Mapped`, `Translate`) read them back from registers and
  tables alone.
* **`Timer`** – the conversions and `spin_for`, with the counter as a process
  of its own.
* **`ExceptionContext`** – `CALL_WITH_CONTEXT`, the handler and
  `__exception_restore_context` at one action per instruction group, with the
  31 registers, and faults at any instruction including the vectors'.

* **`Gpio`** – `init_gpio` of the chainloader and then `map_pl011_uart` of the
  kernel's driver, on the registers of the pins. `settled` and `age` are the
  conditions of the BCM2837's pull protocol; what a pin takes from a clock that
  violates them is arbitrary.
* **`JtagBoot`** (extends `Pl011` and `Baudrate`, with the driver of `Gpio` as an
  instance) – `X1_JTAG_boot` on several cores: each has a place `pc[c]` and what
  is left of its text, `str[c]`. `Panics` is a panic at any line of Rust: the
  core leaves whatever closure it was in, under a lock or not, and enters the
  handler. `SpinFor` is what `spin_for` comes to at the frequency this kernel
  has, and is the delay of the instance of `Gpio`.
* **`TestRunner`** – `kernel_test_runner`, one action per call of the operating
  system, with QEMU, the clock and SIGKILL as their own actions. `verdict` is the
  result of `run`; `endedAt` remembers where the runner was when QEMU ended. Its
  specification is `RunnerSpec`, for the same reason as `BootSpec`.

`MC*` modules only give the constants values. Definitions named `X_Variant` are
faulty versions of `X`; no specification uses them: they are substituted for
`X`, one at a time, to see that a property notices the fault.

## Runs

| Run | Distinct states | What it asks |
|---|---|---|
| `SerialConsole` | 26 138 | Does output survive FIFO limits, predecessors and init; is input echoed once, in order, none of it stale; does the console keep the chainloader's baud rate and reach and stay in its echo loop? |
| `Chainloader` | 262 413 | Is the kernel entered the file sent, do the two sides stay in step, is the output path a reliable stream, does the upload end? |
| `ChainloaderBoot` | 2 868 | Do relocation, BSS, copies and payload keep out of each other's way while all cores copy, one of them from another place? |
| `KernelBoot` | 47 200 | Does every line get out, does every access of a driver reach its device, is only code executable and nothing aliased on any board, is a panic reported once, is the exit code right, does the core come to rest? |
| `TranslationTable` | 1 404 | Does the walk give what the layout says, for aligned, unaligned, overlapping and too large layouts? |
| `Timer` | 88 215 | Is every wait long enough, and does it end? |
| `Gpio` | 146 880 | Do both programs, on every board, give the UART its pins without changing the function of other pins; and do the chainloader, and the kernel on the BCM2837, disable the pulls of these pins and no others? |
| `Gpio_pulls` | violation | Does every program on every board disable just those pulls? No: the kernel on BCM2711 and BCM2712 pulls the pins up and writes the pulls of fourteen others. |
| `JtagBoot` | 144 112 | Is the line printed on a UART that is ready, are texts cut off only by the report, is there one report, does the FIFO empty although nobody flushes it? |
| `JtagBoot_pulls` | violation | Are the pulls disabled by the protocol of the BCM2837? No: the waits of 1 µs are none. |
| `TestRunner` | 4 744 | Is the verdict QEMU's whatever the timing, what does each outcome leave behind, does a hanging test end? |
| `ExceptionContext` | 27 150 | Does the frame hold the interrupted machine, and does the restore bring it back? |

### Bounds and why they are enough

* FIFOs of 2–4 instead of 16: full, one short of full and empty all occur,
  and so do strings longer and shorter than the FIFO. The chainloader's receive
  FIFO holds 4 because the host sends the four bytes of the size without
  waiting; the real one holds more. `MaxKeys = 3` is more than
  `RxDepth = 2`, so the receiver overruns.
* Chainloader: a byte has two values, so a size of 4 or 5 uses all but the
  highest digit; files are empty, one byte, exactly up to the relocated loader,
  and one byte over it (32 MiB minus 0x80000 in the code). Two noise bytes, one
  reset.
* ChainloaderBoot: three cores, of which two have the device tree in `x0` and
  one has 0; units of four bytes; the device tree has an odd number of units, so
  that the eight-byte copy overshoots. What the third core takes for the size of
  a device tree is longer than the tree, so that its copy covers all of it.
* KernelBoot: three faults, one more than a nested panic needs. Every
  combination of exception level, core, frequency, granule, UART state (the
  debug UART is on), working or failing exclusives and garbage in `.bss` is an initial state. All four
  builds boot, the tests on the two that run under QEMU. Code is one page or a
  thousand (62.5 MiB, more than any kernel has and far below the MMIO, which
  begins at 1008 MiB on the RPi 3); addresses are the real ones, and
  the look-ups are at, before and behind every boundary, since properties change
  only there (the theorems are about every address).
* TranslationTable: two tables of four pages of four bytes; the theorems below
  lift the bound.
* Timer: a second of 5 ns and a 5-bit counter; frequencies below, at and above
  one count per nanosecond; again the theorem lifts the bound.
* ExceptionContext: all 31 registers; two system calls, two faults (a fault
  while a fault is handled).
* Gpio: one other pin stands for all that share the registers. Times are in
  units of the protocol's set-up time; ages above `MaxAge` are not told apart.
* JtagBoot: two cores; a FIFO of two under a message of six characters, so that
  it fills, wraps a newline, and is left full at the end; two panics, the second
  in the report of the first or in the panic handler; a FIFO full of a
  predecessor's characters, or empty. One board per variant of the GPIO driver
  and of `init` (the RPi 5 without early UART has the driver of the RPi 4).
* TestRunner: timeouts of none, less and more than a nap, and one past the last
  Instant; the clock stops at `MaxNow`, past the end of the last nap that can begin.

### Fairness

The core executes its program (weak fairness of the thread), the transmitter
finishes what it is sending, the counter counts, and the host tool goes on when
it can. The test runner runs, the host's clock advances and a SIGKILL arrives;
QEMU itself never has to end. Of the JTAG kernel every core runs, the
transmitter transmits and, while the pulls are being set, time passes. Nothing
else is fair: no character ever has to arrive, no fault has to happen, and
resets and noise are bounded but free. Busy-waits are guards: a thread whose
condition is false simply has no step, and weak fairness makes it go on once
the hardware has made it true for good (each such condition stays true until
the thread itself moves).

### Assumptions

* Noise on the chainloader's line comes before its `clear_rx`; afterwards there
  is nothing in the protocol that could tell it from data.
* The host's bytes arrive no faster than the copy loop takes them (115200 baud
  against a loop of a few instructions). After a reset the board is not waited
  for.
* All received input fits `MaxKeys`; in particular `clear_rx`, which would run
  for ever under an endless stream, ends.
* A fault before the vectors are installed derails the core.
* `CNTFRQ_EL0` is a non-zero 32-bit number (`boot.s` parks on zero) and the
  counter does not wrap within a run.
* Without the MMU an exclusive store succeeds always or never
  (`exclusives`), and with it always.
* A UART that is off has an empty transmit FIFO: whoever turned it off had
  flushed it, as all programs here do. The flush in front of `init` would
  otherwise wait for ever.
* The firmware leaves the debug UART of the RPi 5 on: with `early-uart` the
  driver's `init` is only a flush (`bcm2xxx_pl011_uart.rs:204-211`).
* The JTAG kernel is started with the pins as firmware or chainloader leave
  them, and on the RPi 5 with early UART with a UART that is on.
* In the kernel and the chainloader, `short_delay` (150 turns of a loop) and
  `spin_for` of 1 µs are no shorter than the set-up time of the BCM2837's pulls
  (150 cycles in its manual); that `spin_for` loses at most one count is proved
  in `Timer_proofs`.
* In the chainloader's boot, the device tree the firmware made is outside the
  loader and the memory it uses, and so is what any other core's `x0` points to:
  it is read from memory that nobody writes, and its copy ends in memory. This
  is the clause of `BootAssumption` about every core. Nothing in the code sees
  to it; a wild `x0` could make the copy run over anything.
* The payload ends below the relocated loader (in `ChainloaderBoot`; and
  `EventuallyBoots` is about such files): `chainloader.rs:155-158` does not
  check it, and what a core does after its own loop is overwritten is not
  modelled.

## What is proved

TLAPS checks these for every value of the constants:

* **Console** (`SerialConsole_proofs`): the invariant `IInv` is
  `TypeOK /\ OnlyLineFeedsLost /\ NoSpuriousEcho /\ Order`. `Order` says what
  each place in the driver knows: behind the wait for TXFF there is still a free
  slot (the hardware only makes more), behind the carriage return none may be
  left and the character to come is a line feed; between the flush of `init` and
  CR off the FIFO is empty; while the echo loop runs no "spurious" character is
  in the receive FIFO. Without it neither property is inductive. From `IInv`:
  type correctness, that only line feeds can be lost, that stale input is never
  echoed, and that `write_str` returns to `kernel_main` with an idle line. A
  second invariant, `Rate`, follows the divisor from IBRD and FBRD through LCR_H
  to the first character, and gives `SameRateAsChainloader`. Three more on top
  of `IInv` give the order of texts. `Arrived` (before the echo loop nothing is
  fresh and nothing was echoed) starts `EchoInOrder`: what was echoed and what
  waits in the FIFO is first older input, then exactly what was typed, cut at
  one index. `Echoing` says what the echo of the last character read is up to
  (not begun, a carriage return, complete) and gives `EveryKeyEchoed`. `Fits`
  says that what is left of a message has room, the line feed of a half-written
  newline included, and gives `ShortStringsWhole`. These properties are
  stated with indices and the number of line feeds, not by recursion, so that a
  step changes them at one end only.
* **Upload** (`Chainloader_proofs`), for any set of files, any banner that is
  not empty, any bounds on noise and resets: `IInv` is `TypeInv`, `LoaderInv`
  (what `run` has written to memory and left to write at each place, and when
  the UART is on and drained), `StreamInv` (what was written is what was
  delivered followed by the FIFO) and `Phases`. `Phases` is the protocol: as
  long as no reset has torn an upload, the place of the host determines what
  the board may be doing and what is on the line between them: no request yet,
  a part of one, the size under way, OK under way, the file under way. Each of
  the three properties speaks of one moment only and is inductive only with the
  positions of both sides and of the line. It gives `HandshakeInStep`,
  `NothingInBetween` and `PayloadIntact`; and from `StreamInv`, step by step,
  that the loader's output implements `ReliableStream!Safe`
  (`OutputIsAStream`: the safety part of `StreamSpec`).
* **Boot code of the chainloader** (in `Chainloader_proofs` too), for any number
  of cores and any sizes: `BootInv` says how far each core's copy of the device
  tree has come (`Copying`), that its source is untouched (`SourceKept`), and
  for each label of the boot core which part of BSS, binary and device tree is
  in place (`Booting`). All this holds whatever the other cores have in `x0`: a unit of the copy is in
  place if it is that unit of what some core copies (`Candidates`). It gives
  `CopyOfSources` (`CopySafe`), `LoaderRelocated` (`LoaderSafe`) and
  `ExecutesIntactCode` (`CodeSafe`). That the copy is the firmware's device tree
  follows only under the further hypothesis that every core has that tree in
  `x0` (`DeviceTreeSafe`); the code does not see to it, and without it the copy
  may be a mixture ("Findings").
* **Kernel boot** (`KernelBoot_proofs`): four invariants beside `TypeOK`.
  `PanicInv` relates how far the panic handler has come to the flag in `.bss`
  and to the log, from boot.s on (before it the flag is garbage); it gives
  `OneReport`. `ExitInv` says where the announcement of a panic is, in the
  script or in the flag; it gives `ExitCodeTruthful`. `ReachInv` is
  `DriversReachDevices` with `MmuFirst`: what the kernel of a board has still to
  do before the MMU is on uses no device, and panics that early find the null
  console. `LineInv` says that what is left to do is the rest of the script, and
  what the part that is done has left behind (`Prepared`: the MMU, the driver
  table, the UART, the console, the pins); it gives, with `EarlyUartOn` (the
  debug UART stays on as the firmware left it), `EveryLineSeen`: behind the
  second callback all are in place when the first line is printed, and a panic
  never returns to the script. The layouts of the four builds are proved apart
  from the boot, for a code of 1 to 1024 pages of 64 KiB: where every address
  goes (`LookupOut`), that no two go to the same unit (`OutInjective`), that the
  ranges are whole pages (`LayoutOfWholePages`); with `LookupByPage` they give
  `ExecutableIsCode` and `NoAlias`, and with the addresses of the drivers
  `ReachHits`.
* **JTAG kernel** (`JtagBoot_proofs`), for any number of cores, panics, texts and
  any depth of the FIFO: `IInv` is `TypeOK`, `OthersParked` (only the boot core
  leaves boot.s), `Guarded` (a report was begun only if the guard is set) and
  `AtMostOne`; the guard is a load and a store, so the invariant has to speak of
  the place between the two, and of other cores not being there. It gives
  `OneReport`. `LineInv` adds what the driver knows at each place of `write_char`
  (`Sending`), that what is registered was initialised in order (`Registered`)
  and what the UART and its pins are by then (`Prepared`); it gives
  `OnlyLineFeedsLost`, with a panic at any line, and `LineReady`. `Ordered` says
  that what was written is the beginning of the message, cut off at most by the
  report, and how far `write_str` is in the one being printed, the carriage
  return of a newline under way included; it gives `TextsInOrder`. It rests on
  `Reach`, the number of characters the first `i` of a text make on the line
  (`ReachGrows`, `ReachStep`, `CrlfProperties`).
* **Pins** (`Gpio_proofs`): `IInv` is `Types`, `Way` (which program takes which
  way, how far the functions are) and `Protocol` (what is stable and clocked at
  each step). It gives `OnlyUartPinsMapped` (`PinsMappedAndCleared`) for every
  set of other pins, under `LongEnough`: both waits are at least the set-up time of the pulls.
  The property is about the functions of the pins on every board, and about
  their pulls after the chainloader and after the kernel on the BCM2837; of the
  pulls after the kernel on BCM2711 and BCM2712 it says nothing, since they are
  not what the comments say (finding 2).
* **Translation tables** (`TranslationTable_proofs`): `IInv` is `TypeOK /\
  FilledSoFar /\ Sequencing`: the tables are filled exactly up to the position
  of the loops, and the registers are set in order. It gives complete tables or
  none, no page both writable and executable, and `WalkFollowsLayout`: for every
  layout of whole pages, every address translates to what the layout says of
  that address. The last one rests on `LookupByPage` (the look-up of an address
  is that of its page plus the offset) and on the arithmetic of splitting an
  address into two indices and an offset.
* **Timer** (`Timer_proofs`): both conversions round down by less than one
  unit, and so `spin_for` lasts the duration less one count, unless the target
  lies beyond the end of the counter.
* **Exceptions** (`ExceptionContext_proofs`), for any number of register pairs
  above ten, of calls and of faults: `IInv` is `TypeInv`, `Depth` (a frame per
  exception being handled, and a system call only in the outermost), `Saving`
  (what is not yet in the frame is still in the machine, ELR and SPSR by way of
  `x1` to `x3`) and `Restoring` (the frame is the interrupted machine, and what
  was loaded comes from it, ELR and SPSR by way of `x19` and `x20`). It gives
  `ContextTruthful` and `ResumesExactly`, and that a fault in a handler is never
  returned from (`OnlyCallsReturn`).
* **Test runner** (in `ExceptionContext_proofs` too): `RunnerInv` is `TypeOK` with `Phases` (there
  is a child from spawn on, and a result only behind the loop), `Child` (what a
  poll has learnt is final; SIGKILL is only sent by `kill`) and `Unseen` (behind
  a poll that found the child running it can only have ended since). `Unseen` is
  what makes `VerdictTruthful` inductive: the property speaks of the
  verdict, which is only given two steps after the poll. `OutcomesLeaveOnly`
  (`LeftoversOnlyOnError`) lists what each outcome leaves: a success, a failure
  and a time-out no process and no image but one that could not be removed; an
  error the image if QEMU was not started, or QEMU if a call on it failed; a
  panic of `Instant` both.

Every invariant and every action property that a passing run checks is among
these. The theorems of two programs that stand in one module share nothing but
lemmas about sequences and numbers.

The assumptions are those named in the modules (`ConsoleAssumption`,
`Pl011Assumption`, `ChainloaderAssumption`, `BootAssumption`,
`KernelBootAssumption`, `ContextAssumption`, `JtagAssumption`, `GpioAssumption`,
`TableAssumption`, `TimerAssumption`, `RunnerAssumption`), which TLC evaluates in
every run, and the two hypotheses named above: `LongEnough`, and in
`DeviceTreeSafe` alone that all cores arrive with the same device tree. `ChainloaderAssumption` has
that the banner is not empty, as it is in `chainloader.rs`.

Only model-checked, since liveness under fairness and ENABLED are beyond the
prover: `ReachesEcho`, `EchoProgress`, `EventuallyBoots`, `BootCompletes`,
`ComesToRest` of both kernels, `ComesOn`, `SpinEnds`, `RunnerEnds`, and of
`StreamSpec` the part that everything sent is delivered.

## Findings

1. In `X1_JTAG_boot` nothing stores the frequency of the counter in
   `ARCH_TIMER_COUNTER_FREQUENCY`, against its comment
   (`X1_JTAG_boot/src/_arch/aarch64/time.rs:36-39`); the kernel's `boot.s` does.
   With the dummy of 1 Hz a `spin_for` of 1 µs is no wait at all, and the pulls
   of the BCM2837 are set by a clock without set-up and hold times. Run
   `JtagBoot_pulls`; the same driver with waits that last is run `Gpio`.
2. `disable_pud_14_15_bcm2711` and `_bcm2712` write PullUp, against their names
   and comments (`bcm2xxx_gpio.rs:161-176`, 188); the chainloader clears the same
   fields. The driver also writes the whole register, so the other fourteen pins
   in it lose their pulls. Run `Gpio_pulls`.

The models show three more places where code and comment part. No run is spent
on them: the first is what two properties measure, and the others hang on
hardware or firmware that the repository does not describe.

* `write_char` waits for one slot ("Spin while TX FIFO full is set, waiting for
  an empty slot.", `bcm2xxx_pl011_uart.rs:282`) and then writes two characters
  for a newline (283-292); the line feed can be lost. It takes a string that
  fills the FIFO in front of the newline. `OnlyLineFeedsLost` and
  `ShortStringsWhole` say how far the damage goes, and are proved. The
  chainloader's `write_str` waits before each of the two, and loses nothing
  (`StreamSpec`).
* `chainloader.s` copies the device tree (19-29) before it checks the core
  (31-36), against "Preserve the firmware device tree" (19). If firmware
  releases all cores into `_start` and one of them has another `x0`, its copy
  goes over that of the boot core, and the kernel is entered with a mixture.
  The run `ChainloaderBoot` has such a core; `CopyOfSources` says what is left,
  and `DeviceTreePreserved` does not hold there.
* The guard of the panic handler is a `fetch_or` (`panic_wait.rs:50`), under a
  comment that speaks of load and store and calls them safe without the MMU
  (36-38); `main.rs:28-30` says that atomics fail before the MMU is on. Whether
  they do is an initial choice (`exclusives`); where they do not, a panic before
  the MMU is on turns in the guard for ever, which `ComesToRest` names as its one
  exception. `X1_JTAG_boot` still has the load and store, and `JtagBoot` shows
  that there they suffice.

Noticed on the way:

* The comment of `PL011UartInner::init` (line 215) derives 921 600 baud, the
  code (249) sets 115 200, which is what the chainloader uses
  (`SameRateAsChainloader`).
* The test runner leaves the image behind when QEMU is not configured or cannot
  be started (main.rs:79-94 return before 102), and both image and QEMU when the
  timeout is past what an Instant holds (47 panics). When `try_wait`, `kill` or
  `wait` fails, the image is removed, but QEMU may run on.
* `spin_for` adds with wrapping (time.rs:63, 164): a duration that is accepted,
  but longer than what is left of the counter, ends at once. `SpinsLongEnough`
  exempts it; only waits of thousands of years come near.
* Under firmware that releases all cores, a core parked by `chainloader.s:71`
  executes memory the payload overwrites: `Derail`.

## Not modelled, and why

The text of messages; barriers, cacheability and shareability (past boot.s there
is one core, and the memory model is not the subject); the EL2 registers other
than the level itself; the chainloader's build for the debug UART of the RPi 5
(its `init_uart` is only the flush); the MMIO wrapper and `common.rs` (a
dereference and a unit formatter, without state); the first kernel test, which
compares real time; the host's Ruby and shell scripts and the build (no
behaviour on the board, and the Ruby harness runs what `kernel_test_runner` now
runs).

## Plan

Order of construction, most important first: console (1), upload (2), its boot
code (3), kernel boot and panic (4), layouts and tables (5), timer (6),
exceptions (7), pins (8), test runner (9), the JTAG kernel on several cores
(10), and the proofs above. All of it exists. What would come next:

1. Theorems: the steps of the refinements of 2 and 3, once they are stated; the
   bounds on time that go with the liveness properties (how many steps of the
   thread a print takes at most), which are safety.
2. An abstract console (a `ReliableStream` up to line feeds) that
   `SerialConsole` implements, and one loader specification ("the kernel runs
   with its device tree") for `ChainloaderBoot` and `Chainloader` together.
3. An abstract verdict that `TestRunner` implements, with the programs of
   `KernelBoot` as the tests it runs.
4. The chainloader's build for the debug UART; a host that is restarted; the
   Ruby harness, as far as `X1_JTAG_boot` still uses it.

A new property takes the place of the weakest of its component, so that the set
of runs stays small.
