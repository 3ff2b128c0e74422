----------------------------- MODULE KernelBoot -----------------------------
(***************************************************************************)
(* The kernel from its first instruction to the echo loop, to the exit of  *)
(* a test kernel, or to the end of a panic: boot.s, kernel_init, the       *)
(* driver manager, the registration of the console, the exception vectors, *)
(* the panic handler and the exit code of a test build, with the memory    *)
(* layout of the board the kernel is built for between it and the devices. *)
(*                                                                         *)
(* The core runs one thread with all interrupts masked.  What can come     *)
(* between two of its steps is a synchronous exception (a fault), also in  *)
(* the middle of a panic.                                                  *)
(***************************************************************************)
EXTENDS BoardLayouts

CONSTANTS
    Programs,           \* which kernels are booted
    CodePages,          \* sizes of code and read-only data, in 64 KiB pages
    NUM_DRIVERS,
    MaxFaults           \* bound: unexpected faults in a behaviour

ASSUME KernelBootAssumption ==
    /\ Programs \subseteq {"kernel", "boot_test", "page_fault", "syscall"}
    /\ CodePages \subseteq 1..1024
    /\ NUM_DRIVERS \in Nat \ {0} /\ MaxFaults \in Nat

Drivers == <<"uart", "gpio">>

\* Fault variant: kernel_init turns the MMU on behind the drivers.
Script_MmuLast(p) ==
    LET drivers  == <<"register", "init", "callback", "init", "callback">>
        messages == <<"print", "clear_rx">>
    IN  CASE p = "kernel"     -> <<"vbar">> \o drivers \o <<"mmu", "validate">> \o messages \o <<"echo">>
          [] p = "boot_test"  -> <<"vbar">> \o drivers \o <<"mmu">> \o messages \o <<"success">>
          [] p = "page_fault" -> <<"vbar", "console", "mmu", "print",
                                   "expect_panic", "fault", "failure">>
          [] p = "syscall"    -> <<"vbar", "console", "mmu", "print", "svc",
                                   "print", "success">>

\* What a program does after boot.s, in the order of its kernel_init.  The
\* kernel of a test build leaves QEMU where the other one starts to echo.
Script(p) ==
    LET kernel == <<"vbar", "mmu", "validate", "register", "init", "callback",
                    "init", "callback", "print", "clear_rx">>
    IN  CASE p = "kernel"     -> Append(kernel, "echo")
          [] p = "boot_test"  -> Append(kernel, "success")
          [] p = "page_fault" -> <<"vbar", "mmu", "console", "print",
                                   "expect_panic", "fault", "failure">>
          [] p = "syscall"    -> <<"vbar", "mmu", "console", "print", "svc",
                                   "print", "success">>

\* 9 GiB
PAGE_FAULT_ADDRESS == \h240000

VARIABLES
    \* what the firmware hands over, and the hardware
    el, bootCore, frequency, granule64, mmu, vbar, uartOn, pins,
    exclusives,     \* whether exclusive stores succeed while the MMU is off
    \* what was built
    board, code, program,
    \* statics in .bss, not zero before boot.s has cleared them
    bss,
    \* statics in .data
    console,
    \* the thread
    todo, boot, driver, panicking, outcome,
    \* histories
    log, reached, faults, expectedAtPanic

\* cfg(feature = "test_build"): all but the kernel of a board run under QEMU,
\* which has the first two boards.
TestBuild == program # "kernel"

built    == <<board, code, program>>
firmware == <<el, bootCore, frequency, granule64, exclusives, built>>
hardware == <<mmu, vbar, uartOn, pins>>
history  == <<log, reached, faults, expectedAtPanic>>
thread   == <<todo, boot, driver, panicking, outcome>>
vars     == <<firmware, hardware, bss, console, thread, history>>

Bss == [panicInProgress : BOOLEAN, initDone : BOOLEAN, expectedPanic : BOOLEAN,
        descriptors : Seq({"uart", "gpio", "junk"})]

Init ==
    /\ el \in {1, 2, 3} /\ bootCore \in BOOLEAN /\ frequency \in {0, 1}
    /\ granule64 \in BOOLEAN /\ exclusives \in BOOLEAN
    /\ program \in Programs /\ code \in CodePages
    /\ board \in IF TestBuild THEN {"rpi3", "rpi4"} ELSE Boards
    /\ mmu = FALSE /\ vbar = FALSE
    \* The firmware, or a chainloader, may have used the UART of the header
    \* already; the debug UART of the RPi 5 "already configured by firmware" is.
    /\ uartOn \in BOOLEAN /\ pins \in BOOLEAN
    /\ board = "rpi5_early" => uartOn
    /\ bss \in {[panicInProgress |-> b, initDone |-> b, expectedPanic |-> b,
                 descriptors |-> IF b THEN <<"junk">> ELSE <<>>] : b \in BOOLEAN}
    /\ console = "null"
    /\ todo = Script(program) /\ boot = "_start" /\ driver = 0
    /\ panicking = "no" /\ outcome = "running"
    /\ log = <<>> /\ reached = {} /\ faults = 0
    /\ expectedAtPanic = FALSE

-----------------------------------------------------------------------------
(* boot.s and the return to EL1.                                           *)

\* Fault variant: .bss is not cleared.
ParkOrClearBss_NoClear ==
    /\ boot = "_start" /\ outcome = "running"
    /\ IF el = 2 /\ bootCore
       THEN boot' = "frequency" /\ outcome' = outcome
       ELSE outcome' = "parked" /\ boot' = boot
    /\ UNCHANGED <<firmware, hardware, bss, console, todo, driver, panicking,
                   history>>

ParkOrClearBss ==
    /\ boot = "_start" /\ outcome = "running"
    /\ IF el = 2 /\ bootCore
       THEN /\ bss' = [panicInProgress |-> FALSE, initDone |-> FALSE,
                       expectedPanic |-> FALSE, descriptors |-> <<>>]
            /\ boot' = "frequency" /\ outcome' = outcome
       ELSE outcome' = "parked" /\ UNCHANGED <<bss, boot>>
    /\ UNCHANGED <<firmware, hardware, console, todo, driver, panicking, history>>

CheckFrequency ==
    /\ boot = "frequency" /\ outcome = "running"
    /\ IF frequency = 0
       THEN outcome' = "parked" /\ boot' = boot
       ELSE boot' = "_start_rust" /\ outcome' = outcome
    /\ UNCHANGED <<firmware, hardware, bss, console, todo, driver, panicking,
                   history>>

\* _start_rust: an eret that fakes a return from EL2 into kernel_init.
ReturnToEl1 ==
    /\ boot = "_start_rust" /\ outcome = "running"
    /\ el' = 1 /\ boot' = "kernel_init"
    /\ UNCHANGED <<bootCore, frequency, granule64, exclusives, built, hardware,
                   bss, console, todo, driver, panicking, outcome, history>>

-----------------------------------------------------------------------------
(* kernel_init, one operation of the script at a time.                     *)

At(op) == /\ boot = "kernel_init" /\ outcome = "running" /\ panicking = "no"
          /\ todo # <<>> /\ Head(todo) = op

\* The next panic to run is entered at its first line.  Whether the test has
\* announced it is known from where its program is, not from the flag.
ExpectPanicCalled ==
    program = "page_fault" /\ \A i \in 1..Len(todo) : todo[i] # "expect_panic"
Panic == panicking' = "enter" /\ expectedAtPanic' = ExpectPanicCalled
Proceed == todo' = Tail(todo) /\ UNCHANGED <<panicking, expectedAtPanic>>

HandlingInit ==
    /\ At("vbar")
    /\ vbar' = TRUE
    /\ Proceed
    /\ UNCHANGED <<firmware, mmu, uartOn, pins, bss, console, boot, driver,
                   outcome, log, reached, faults>>

EnableMmu ==
    /\ At("mmu")
    /\ IF granule64 /\ ~mmu
       THEN mmu' = TRUE /\ Proceed
       ELSE mmu' = mmu /\ Panic /\ todo' = todo
    /\ UNCHANGED <<firmware, vbar, uartOn, pins, bss, console, boot, driver,
                   outcome, log, reached, faults>>

\* Only the RPi 5 validates its layout.
ValidateLayout ==
    /\ At("validate")
    /\ IF board \in {"rpi5", "rpi5_early"} => validate_layout(board, code)
       THEN Proceed
       ELSE Panic /\ todo' = todo
    /\ UNCHANGED <<firmware, hardware, bss, console, boot, driver, outcome, log,
                   reached, faults>>

\* What an access of a driver to its registers comes to.  Without the MMU data
\* accesses go to the address itself, uncached.
Reach(device) ==
    LET start == IF device = "uart" THEN UartStart(board) ELSE GpioStart(board)
        p     == Lookup(board, code, start)
    IN  IF mmu THEN [device |-> device, out |-> p.out, mem |-> p.attrs.mem]
        ELSE [device |-> device, out |-> start, mem |-> "Device"]
Hits(r) ==
    /\ r.out = (IF r.device = "uart" THEN UartPhys(board) ELSE GpioPhys(board))
    /\ r.mem = "Device"

\* register_driver, for each of drivers: an index past the table panics.
Fits(drivers) == Len(bss.descriptors \o drivers) <= NUM_DRIVERS
Registered(drivers) ==
    LET all == bss.descriptors \o drivers
    IN  IF Fits(drivers) THEN all ELSE SubSeq(all, 1, NUM_DRIVERS)

\* bsp::driver::init: both drivers, unless that was done before.
RegisterDrivers ==
    /\ At("register")
    /\ IF bss.initDone
       THEN bss' = bss /\ Panic /\ todo' = todo
       ELSE /\ bss' = [bss EXCEPT !.descriptors = Registered(Drivers),
                                  !.initDone    = Fits(Drivers)]
            /\ IF Fits(Drivers) THEN Proceed ELSE Panic /\ todo' = todo
    /\ UNCHANGED <<firmware, hardware, console, boot, driver, outcome, log,
                   reached, faults>>

\* init_drivers, driver by driver: init, then the callback.  Of the UART of the
\* header init sets line, rate and control registers, of the debug UART none: it
\* only waits for its FIFO there.  The GPIO has no init of its own.
InitDriver ==
    /\ At("init")
    /\ driver' = driver + 1
    /\ IF bss.descriptors[driver'] = "uart"
       THEN /\ uartOn' = (uartOn \/ board # "rpi5_early")
            /\ reached' = reached \cup {Reach("uart")}
       ELSE UNCHANGED <<uartOn, reached>>
    /\ Proceed
    /\ UNCHANGED <<firmware, mmu, vbar, pins, bss, console, boot, outcome, log,
                   faults>>

RegisterConsole(new) == console' = new

\* Fault variant: post_init_gpio does not map the UART pins.
PostInit_NoPins ==
    /\ At("callback")
    /\ console' = IF bss.descriptors[driver] = "uart" THEN "uart" ELSE console
    /\ Proceed
    /\ UNCHANGED <<firmware, hardware, bss, boot, driver, outcome, log,
                   reached, faults>>

PostInit ==
    /\ At("callback")
    /\ IF bss.descriptors[driver] = "uart"
       THEN RegisterConsole("uart") /\ UNCHANGED <<pins, reached>>
       ELSE /\ pins' = TRUE /\ reached' = reached \cup {Reach("gpio")}
            /\ console' = console
    /\ Proceed
    /\ UNCHANGED <<firmware, mmu, vbar, uartOn, bss, boot, driver, outcome, log,
                   faults>>

QemuBringUpConsole ==
    /\ At("console")
    /\ RegisterConsole("uart")
    /\ Proceed
    /\ UNCHANGED <<firmware, hardware, bss, boot, driver, outcome, log,
                   reached, faults>>

\* A line gets out when the console is the UART, and on a board when the UART
\* is on and has its pins; NullConsole drops it.
Seen == console = "uart" /\ Hits(Reach("uart")) /\ (TestBuild \/ (uartOn /\ pins))

\* _print, with the console registered now.
WriteLine(line) ==
    /\ log' = Append(log, [line |-> line, seen |-> Seen])
    /\ reached' = IF console = "uart" THEN reached \cup {Reach("uart")} ELSE reached

PrintLine ==
    /\ At("print")
    /\ WriteLine("info")
    /\ Proceed
    /\ UNCHANGED <<firmware, hardware, bss, console, boot, driver, outcome, faults>>

ClearRx ==
    /\ At("clear_rx")
    /\ Proceed
    /\ UNCHANGED <<firmware, hardware, bss, console, boot, driver, outcome, log,
                   reached, faults>>

ExpectPanic ==
    /\ At("expect_panic")
    /\ bss' = [bss EXCEPT !.expectedPanic = TRUE]
    /\ Proceed
    /\ UNCHANGED <<firmware, hardware, console, boot, driver, outcome, log,
                   reached, faults>>

\* The probe of an address behind the map: the exception handler panics.
PageFault ==
    /\ At("fault")
    /\ IF PAGE_FAULT_ADDRESS > END_INCLUSIVE
       THEN Panic /\ todo' = todo
       ELSE Proceed
    /\ UNCHANGED <<firmware, hardware, bss, console, boot, driver, outcome, log,
                   reached, faults>>

\* current_elx_synchronous returns from the SVC of the test, and the restored
\* context goes on behind it (module ExceptionContext).
SystemCall ==
    /\ At("svc")
    /\ Proceed
    /\ UNCHANGED <<firmware, hardware, bss, console, boot, driver, outcome, log,
                   reached, faults>>

Finish ==
    /\ \E end \in {"success", "failure", "echo"} : At(end) /\ outcome' = end
    /\ UNCHANGED <<firmware, hardware, bss, console, todo, boot, driver,
                   panicking, history>>

-----------------------------------------------------------------------------
(* Faults nobody planned, and the panic handler.                           *)

\* With the vectors in place the handler panics; without them, or below the
\* kernel, the core runs into whatever the reset vectors hold.
Fault ==
    /\ faults < MaxFaults /\ outcome = "running"
    /\ faults' = faults + 1
    /\ IF vbar
       THEN Panic /\ outcome' = outcome
       ELSE outcome' = "derailed" /\ UNCHANGED <<panicking, expectedAtPanic>>
    /\ UNCHANGED <<firmware, hardware, bss, console, todo, boot, driver, log,
                   reached>>

\* Fault variant: the flag is not looked at.
PanicPreventReenter_NoCheck ==
    /\ panicking = "enter" /\ outcome = "running"
    /\ panicking' = "print"
    /\ bss' = [bss EXCEPT !.panicInProgress = TRUE]
    /\ UNCHANGED <<firmware, hardware, console, todo, boot, driver, outcome,
                   history>>

\* panic_prevent_reenter: one fetch_or on the flag, a loop around an exclusive
\* store, which on Device memory - all there is before the MMU is on - may
\* never succeed.
ExclusivesFail == ~mmu /\ ~exclusives
PanicPreventReenter ==
    /\ panicking = "enter" /\ outcome = "running" /\ ~ExclusivesFail
    /\ panicking' = IF bss.panicInProgress THEN "exit" ELSE "print"
    /\ bss' = [bss EXCEPT !.panicInProgress = TRUE]
    /\ UNCHANGED <<firmware, hardware, console, todo, boot, driver, outcome,
                   history>>

PanicReport ==
    /\ panicking = "print" /\ outcome = "running"
    /\ WriteLine("panic")
    /\ panicking' = "backtrace"
    /\ UNCHANGED <<firmware, hardware, bss, console, todo, boot, driver,
                   outcome, faults, expectedAtPanic>>

PrintBacktrace ==
    /\ panicking = "backtrace" /\ outcome = "running"
    /\ panicking' = "exit"
    /\ UNCHANGED <<firmware, hardware, bss, console, todo, boot, driver,
                   outcome, history>>

PanicExit ==
    /\ panicking = "exit" /\ outcome = "running"
    /\ IF ~TestBuild
       THEN outcome' = "halted" /\ bss' = bss
       ELSE /\ outcome' = IF bss.expectedPanic THEN "success" ELSE "failure"
            /\ bss' = [bss EXCEPT !.expectedPanic = FALSE]
    /\ UNCHANGED <<firmware, hardware, console, todo, boot, driver, panicking,
                   history>>

KernelInit ==
    \/ HandlingInit \/ EnableMmu \/ ValidateLayout \/ RegisterDrivers \/ InitDriver
    \/ PostInit \/ QemuBringUpConsole \/ PrintLine \/ ClearRx \/ ExpectPanic \/ PageFault
    \/ SystemCall \/ Finish

PanicHandler ==
    PanicPreventReenter \/ PanicReport \/ PrintBacktrace \/ PanicExit

Core == ParkOrClearBss \/ CheckFrequency \/ ReturnToEl1 \/ KernelInit \/ PanicHandler
Next == Core \/ Fault

Spec == Init /\ [][Next]_vars /\ WF_vars(Core)

-----------------------------------------------------------------------------
(* Properties.                                                             *)

Operations ==
    {"vbar", "mmu", "validate", "register", "init", "callback", "console", "print",
     "clear_rx", "expect_panic", "fault", "svc", "success", "failure", "echo"}

\* Every variable holds a value of its type.
TypeOK ==
    /\ el \in {1, 2, 3} /\ frequency \in {0, 1} /\ program \in Programs
    /\ board \in Boards /\ code \in CodePages
    /\ bootCore \in BOOLEAN /\ granule64 \in BOOLEAN /\ exclusives \in BOOLEAN
    /\ mmu \in BOOLEAN /\ vbar \in BOOLEAN /\ uartOn \in BOOLEAN /\ pins \in BOOLEAN
    /\ bss \in Bss /\ console \in {"null", "uart"}
    /\ todo \in Seq(Operations) /\ driver \in Nat /\ expectedAtPanic \in BOOLEAN
    /\ boot \in {"_start", "frequency", "_start_rust", "kernel_init"}
    /\ panicking \in {"no", "enter", "print", "backtrace", "exit"}
    /\ outcome \in {"running", "parked", "derailed", "halted", "success",
                    "failure", "echo"}
    /\ log \in Seq([line : {"info", "panic"}, seen : BOOLEAN])
    /\ reached \subseteq [device : {"uart", "gpio"}, out : Nat, mem : {"Device", "CacheableDRAM"}]
    /\ faults \in Nat

\* main.rs:54, "println! is usable from here on": no line of kernel_main is
\* dropped, whether the UART of the header was on at power-up or not, and on the
\* debug UART, which the firmware has left on.
EveryLineSeen == \A i \in 1..Len(log) : log[i].line = "info" => log[i].seen

\* Whatever is built and whenever a driver is called - init, callback, console,
\* panic - its registers are what it reaches, uncached: the layouts, the
\* addresses the drivers are built with and the order of kernel_init agree.
DriversReachDevices == \A r \in reached : Hits(r)

\* With the MMU on an address is executable exactly when it is in the code
\* range, and that is read-only: MMIO windows never cut into it or shadow it.
ExecutableIsCode ==
    mmu => \A a \in Addresses(board, code) :
        LET p == Lookup(board, code, a)
        IN  /\ p.attrs.execute_never <=> ~Contains(Code(code), a)
            /\ ~p.attrs.execute_never => p.attrs.perms = "ReadOnly" /\ p.out = a

\* With the MMU on no two addresses reach the same physical unit, so that no
\* register is seen cached through a second mapping, each is within the 40 bits
\* of TCR_EL1.IPS, and the ranges are made of whole 64 KiB pages: the tables,
\* filled with what the layout says of the first address of each page
\* (TranslationTable), give every address what the layout says of it.
NoAlias ==
    mmu =>
        /\ \A a, b \in Addresses(board, code) : a < b =>
              Lookup(board, code, a).out # Lookup(board, code, b).out
        /\ \A a \in Addresses(board, code) :
              /\ Lookup(board, code, a).out < 268435456
              /\ LET first == a - (a % UnitsPerPage)
                 IN  Lookup(board, code, a) =
                     [Lookup(board, code, first) EXCEPT !.out = @ + a - first]

\* panic_wait.rs:30, "Stop immediately if called a second time": one panic is
\* reported, a second one inside it is not, and the flag that tells them apart
\* is not the garbage .bss holds before boot.s clears it.
ReportAt(i) == i \in 1..Len(log) /\ log[i].line = "panic"
OneReport ==
    /\ \A i, j \in 1..Len(log) : ReportAt(i) /\ ReportAt(j) => i = j
    /\ outcome \in {"halted", "failure"} /\ faults = 0 /\ panicking = "exit"
         => \E i \in 1..Len(log) : ReportAt(i)

\* test.rs:16-18: a panic is the success of a test only if expect_panic was
\* called before it, and it is a failure otherwise.
ExitCodeTruthful ==
    panicking = "exit" =>
        /\ outcome = "success" => expectedAtPanic
        /\ outcome = "failure" => ~expectedAtPanic

\* Whatever faults strike, the core comes to rest: in the echo loop, in an
\* exit of QEMU, halted or parked.  Without faults, on a core that can run it,
\* the program succeeds.  The exception is the guard of a panic before the MMU
\* is on (panic_wait.rs:50), which may turn for ever.
ComesToRest ==
    \/ <>(/\ outcome # "running"
          /\ faults = 0 /\ granule64 /\ outcome # "parked"
               => outcome \in {"echo", "success"})
    \/ <>[](panicking = "enter" /\ ExclusivesFail)
=============================================================================
