---------------------------- MODULE BoardLayouts ----------------------------
(***************************************************************************)
(* The virtual memory layouts of the boards, in units of 4 KiB, for any    *)
(* size n of the code, and validate_layout of the RPi 5.                   *)
(***************************************************************************)
EXTENDS VirtualLayout, Integers

Boards == {"rpi3", "rpi4", "rpi5", "rpi5_early"}
UnitsPerPage == 16

\* 0x8_0000, 0xFFFF_FFFF, 0xFFFE_0000, 0xFFFF_0000, 0x20_0000, 0x20_1000
CODE_START           == \h80
END_INCLUSIVE        == \hFFFFF
UART_VIRT_PAGE_START == \hFFFE0
GPIO_VIRT_PAGE_START == \hFFFF0
GPIO_OFFSET          == \h200
UART_OFFSET          == \h201

\* 0x1C_0003_0000, 0x1F_000D_0000, 0x10_7D00_1000
PL011_UART_PHYS_START       == \h1C00030
GPIO_PHYS_START             == \h1F000D0
PL011_EARLY_UART_PHYS_START == \h107D001

MMIO_START(b) == IF b = "rpi3" THEN \h3F000 ELSE \hFE000
MMIO_END(b)   == IF b = "rpi3" THEN \h4000F ELSE \hFF84F

DeviceAttributes ==
    [mem |-> "Device", perms |-> "ReadWrite", execute_never |-> TRUE]

\* Fault variant: the exclusive end of the code taken for the inclusive one.
Code_Exclusive(n) ==
    [first |-> CODE_START, last |-> CODE_START + n * UnitsPerPage,
     offset |-> FALSE, phys |-> 0,
     attrs |-> [mem |-> "CacheableDRAM", perms |-> "ReadOnly",
                execute_never |-> FALSE]]

Code(n) ==
    [first |-> CODE_START, last |-> CODE_START + n * UnitsPerPage - 1,
     offset |-> FALSE, phys |-> 0,
     attrs |-> [mem |-> "CacheableDRAM", perms |-> "ReadOnly",
                execute_never |-> FALSE]]

Mmio(b) == [first |-> MMIO_START(b), last |-> MMIO_END(b), offset |-> FALSE,
            phys |-> 0, attrs |-> DeviceAttributes]

Remap(virt, phys) == [first |-> virt, last |-> virt + UnitsPerPage - 1,
                      offset |-> TRUE, phys |-> phys,
                      attrs |-> DeviceAttributes]

\* Fault variant: the early UART's address is not rounded down to its page.
ActiveUartPhysPageStart_Unaligned(b) ==
    IF b = "rpi5_early" THEN PL011_EARLY_UART_PHYS_START
    ELSE PL011_UART_PHYS_START

ActiveUartPhysPageStart(b) ==
    IF b = "rpi5_early"
    THEN PL011_EARLY_UART_PHYS_START - (PL011_EARLY_UART_PHYS_START % UnitsPerPage)
    ELSE PL011_UART_PHYS_START

LAYOUT(b, n) ==
    IF b \in {"rpi3", "rpi4"} THEN <<Code(n), Mmio(b)>>
    ELSE <<Code(n),
           Remap(UART_VIRT_PAGE_START, ActiveUartPhysPageStart(b)),
           Remap(GPIO_VIRT_PAGE_START, GPIO_PHYS_START)>>

\* The addresses the drivers are built with, and the registers' bus addresses.
UartStart(b) == CASE b = "rpi5_early" -> UART_VIRT_PAGE_START + 1
                  [] b = "rpi5"       -> UART_VIRT_PAGE_START
                  [] OTHER            -> MMIO_START(b) + UART_OFFSET
GpioStart(b) == IF b \in {"rpi3", "rpi4"} THEN MMIO_START(b) + GPIO_OFFSET
                ELSE GPIO_VIRT_PAGE_START
UartPhys(b) == CASE b = "rpi5_early" -> PL011_EARLY_UART_PHYS_START
                 [] b = "rpi5"       -> PL011_UART_PHYS_START
                 [] OTHER            -> UartStart(b)
GpioPhys(b) == IF b \in {"rpi3", "rpi4"} THEN GpioStart(b) ELSE GPIO_PHYS_START

Lookup(b, n, addr) == VirtAddrProperties(LAYOUT(b, n), addr)

\* The mappings of the RPi 5's drivers; the other boards have no such check.
validate_layout(b, n) ==
    LET Mapped(start, phys) == /\ Lookup(b, n, start).out = phys
                               /\ Lookup(b, n, start).attrs.mem = "Device"
    IN  Mapped(UartStart(b), UartPhys(b)) /\ Mapped(GpioStart(b), GpioPhys(b))

\* The addresses next to every boundary: properties change nowhere else.
Edges(b, n) == {0, END_INCLUSIVE, UartStart(b), GpioStart(b)} \cup
    UNION {{LAYOUT(b, n)[i].first, LAYOUT(b, n)[i].last} : i \in 1..Len(LAYOUT(b, n))}
Addresses(b, n) ==
    {a \in UNION {{e - 1, e, e + 1} : e \in Edges(b, n)} : a \in 0..END_INCLUSIVE}
=============================================================================
