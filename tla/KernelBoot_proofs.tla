-------------------------- MODULE KernelBoot_proofs --------------------------
(***************************************************************************)
(* Proofs about the boot of the kernel, for every size of the code that    *)
(* the BSPs have room for, every subset of programs, every size of the     *)
(* driver table and every number of faults: what the memory layouts of the *)
(* boards give every address, what the drivers reach, what a panic reports *)
(* and exits with, and that every line of kernel_main is seen.             *)
(***************************************************************************)
EXTENDS KernelBoot, TLAPS

-----------------------------------------------------------------------------
(* The layouts, for one page of code up to 1024.                           *)

CodeSizes == 1..1024

\* The range of code and read-only data.
LEMMA CodeFacts ==
    ASSUME NEW n \in CodeSizes
    PROVE  /\ Code(n) \in Descriptor
           /\ Code(n).first = 128 /\ Code(n).last = 127 + 16 * n
           /\ ~Code(n).offset
           /\ Code(n).attrs = [mem |-> "CacheableDRAM", perms |-> "ReadOnly",
                               execute_never |-> FALSE]
BY DEF CodeSizes, Code, Descriptor, AttributeFields, CODE_START, UnitsPerPage

\* The window of the devices of Raspberry Pi 3 and 4.
LEMMA MmioFacts ==
    ASSUME NEW b \in {"rpi3", "rpi4"}
    PROVE  /\ Mmio(b) \in Descriptor
           /\ Mmio(b).first = (IF b = "rpi3" THEN 258048 ELSE 1040384)
           /\ Mmio(b).last = (IF b = "rpi3" THEN 262159 ELSE 1046607)
           /\ ~Mmio(b).offset /\ Mmio(b).attrs = DeviceAttributes
BY DEF Mmio, Descriptor, AttributeFields, DeviceAttributes, MMIO_START, MMIO_END

\* Physical start of the page that holds the registers of the RPi 5's UART.
UartPage(b) == IF b = "rpi5_early" THEN 17289216 ELSE 29360176

\* The two windows of the Raspberry Pi 5, which are mapped elsewhere.
LEMMA RemapFacts ==
    ASSUME NEW b \in {"rpi5", "rpi5_early"},
           NEW u, u = Remap(UART_VIRT_PAGE_START, ActiveUartPhysPageStart(b)),
           NEW g, g = Remap(GPIO_VIRT_PAGE_START, GPIO_PHYS_START)
    PROVE  /\ u \in Descriptor /\ g \in Descriptor
           /\ u.first = 1048544 /\ u.last = 1048559 /\ u.phys = UartPage(b)
           /\ g.first = 1048560 /\ g.last = 1048575 /\ g.phys = 32506064
           /\ u.offset /\ g.offset
           /\ u.attrs = DeviceAttributes /\ g.attrs = DeviceAttributes
<1>1. ActiveUartPhysPageStart(b) = UartPage(b)
  BY DEF ActiveUartPhysPageStart, UartPage, PL011_EARLY_UART_PHYS_START,
         PL011_UART_PHYS_START, UnitsPerPage
<1>2. DeviceAttributes \in AttributeFields
  BY DEF DeviceAttributes, AttributeFields
<1> QED BY <1>1, <1>2 DEF Remap, UART_VIRT_PAGE_START, GPIO_VIRT_PAGE_START,
           GPIO_PHYS_START, UnitsPerPage, Descriptor, UartPage

\* A layout is a sequence of descriptors.
LEMMA LayoutType ==
    ASSUME NEW b \in Boards, NEW n \in CodeSizes
    PROVE  LAYOUT(b, n) \in Seq(Descriptor)
<1>1. CASE b \in {"rpi3", "rpi4"}
  BY <1>1, CodeFacts, MmioFacts DEF LAYOUT
<1>2. CASE b \in {"rpi5", "rpi5_early"}
  BY <1>2, CodeFacts, RemapFacts DEF LAYOUT
<1> QED BY <1>1, <1>2 DEF Boards

\* The first descriptor that contains an address is its owner.
LEMMA OwnerUnique ==
    ASSUME NEW layout \in Seq(Descriptor), NEW addr \in Nat,
           NEW m \in 1..Len(layout), Contains(layout[m], addr),
           \A j \in 1..m-1 : ~Contains(layout[j], addr)
    PROVE  Owner(layout, addr) = m
<1> DEFINE P(i) == /\ Contains(layout[i], addr)
                   /\ \A j \in 1..i-1 : ~Contains(layout[j], addr)
<1>1. P(m) /\ \A i \in 1..Len(layout) : P(i) => i = m
  OBVIOUS
<1>2. Owner(layout, addr) = CHOOSE i \in 1..Len(layout) : P(i)
  BY DEF Owner
<1> HIDE DEF P
<1> QED BY <1>1, <1>2

\* Where an address of the RPi 5 goes: two windows are moved.
UartWindow == {a \in Nat : 1048544 <= a /\ a <= 1048559}
GpioWindow == {a \in Nat : 1048560 <= a /\ a <= 1048575}
UartOut(b, a) == UartPage(b) + (a - 1048544)
GpioOut(a)    == 32506064 + (a - 1048560)
AddressSpace == {a \in Nat : a <= 1048575}
Out(b, a) == IF b \in {"rpi5", "rpi5_early"} /\ a \in UartWindow THEN UartOut(b, a)
             ELSE IF b \in {"rpi5", "rpi5_early"} /\ a \in GpioWindow THEN GpioOut(a)
             ELSE a

\* What a look-up gives, range by range: the ranges do not overlap.
Is(r, out, attrs) == r = [out |-> out, attrs |-> attrs]

\* Code is identity mapped, with the attributes of code.
LEMMA LookupCode ==
    ASSUME NEW b \in Boards, NEW n \in CodeSizes, NEW a \in Nat,
           Contains(Code(n), a)
    PROVE  Is(Lookup(b, n, a), a, Code(n).attrs)
<1> DEFINE layout == LAYOUT(b, n)
<1>1. layout \in Seq(Descriptor) /\ 1 \in 1..Len(layout) /\ layout[1] = Code(n)
  BY LayoutType DEF LAYOUT
<1>2. Owner(layout, a) = 1
  BY <1>1, OwnerUnique
<1>3. OutputAddr(Code(n), a) = a
  BY CodeFacts DEF OutputAddr
<1> HIDE DEF layout
<1> QED BY <1>1, <1>2, <1>3 DEF Lookup, VirtAddrProperties, Is, layout

\* On Raspberry Pi 3 and 4 everything is identity mapped.
LEMMA LookupMmio ==
    ASSUME NEW b \in {"rpi3", "rpi4"}, NEW n \in CodeSizes, NEW a \in Nat,
           ~Contains(Code(n), a)
    PROVE  Is(Lookup(b, n, a), a,
              IF Contains(Mmio(b), a) THEN DeviceAttributes ELSE DefaultAttributes)
<1> DEFINE layout == LAYOUT(b, n)
<1>1. /\ layout \in Seq(Descriptor) /\ Len(layout) = 2
      /\ layout[1] = Code(n) /\ layout[2] = Mmio(b)
  BY LayoutType DEF LAYOUT, Boards
<1> HIDE DEF layout
<1>2. CASE Contains(Mmio(b), a)
  <2>1. Owner(layout, a) = 2
    BY <1>1, <1>2, OwnerUnique
  <2>2. OutputAddr(Mmio(b), a) = a /\ Mmio(b).attrs = DeviceAttributes
    BY MmioFacts DEF OutputAddr
  <2> QED BY <1>1, <1>2, <2>1, <2>2 DEF Lookup, VirtAddrProperties, Is, layout
<1>3. CASE ~Contains(Mmio(b), a)
  <2>1. ~\E i \in 1..Len(layout) : Contains(layout[i], a)
    BY <1>1, <1>3
  <2> QED BY <1>3, <2>1 DEF Lookup, VirtAddrProperties, Is, layout
<1> QED BY <1>2, <1>3

\* On the Raspberry Pi 5 the two windows go to UART and GPIO.
LEMMA LookupRemap ==
    ASSUME NEW b \in {"rpi5", "rpi5_early"}, NEW n \in CodeSizes, NEW a \in Nat,
           ~Contains(Code(n), a)
    PROVE  Is(Lookup(b, n, a), Out(b, a),
              IF a \in UartWindow \cup GpioWindow THEN DeviceAttributes ELSE DefaultAttributes)
<1> DEFINE layout == LAYOUT(b, n)
           u == Remap(UART_VIRT_PAGE_START, ActiveUartPhysPageStart(b))
           g == Remap(GPIO_VIRT_PAGE_START, GPIO_PHYS_START)
<1>1. /\ layout \in Seq(Descriptor) /\ Len(layout) = 3
      /\ layout[1] = Code(n) /\ layout[2] = u /\ layout[3] = g
  BY LayoutType DEF LAYOUT, Boards
<1>2. /\ Contains(u, a) <=> a \in UartWindow
      /\ Contains(g, a) <=> a \in GpioWindow
      /\ OutputAddr(u, a) = UartOut(b, a) /\ OutputAddr(g, a) = GpioOut(a)
      /\ u.attrs = DeviceAttributes /\ g.attrs = DeviceAttributes
  BY RemapFacts, SMT DEF Contains, OutputAddr, UartWindow, GpioWindow, UartOut, GpioOut
<1>3. ~(a \in UartWindow /\ a \in GpioWindow)
  BY SMT DEF UartWindow, GpioWindow
<1> HIDE DEF layout, u, g
<1>4. CASE a \in UartWindow
  <2>1. Owner(layout, a) = 2
    <3>1. 2 \in 1..Len(layout) /\ Contains(layout[2], a)
      BY <1>1, <1>2, <1>4
    <3>2. \A j \in 1..2-1 : ~Contains(layout[j], a)
      BY <1>1
    <3> QED BY <1>1, <3>1, <3>2, OwnerUnique
  <2>2. Lookup(b, n, a) = [out |-> OutputAddr(u, a), attrs |-> u.attrs]
    BY <1>1, <1>2, <1>4, <2>1 DEF Lookup, VirtAddrProperties, layout
  <2> QED BY <1>2, <1>4, <2>2 DEF Is, Out
<1>5. CASE a \in GpioWindow
  <2>1. Owner(layout, a) = 3
    <3>1. 3 \in 1..Len(layout) /\ Contains(layout[3], a)
      BY <1>1, <1>2, <1>5
    <3>2. \A j \in 1..3-1 : ~Contains(layout[j], a)
      BY <1>1, <1>2, <1>3, <1>5
    <3> QED BY <1>1, <3>1, <3>2, OwnerUnique
  <2>2. Lookup(b, n, a) = [out |-> OutputAddr(g, a), attrs |-> g.attrs]
    BY <1>1, <1>2, <1>5, <2>1 DEF Lookup, VirtAddrProperties, layout
  <2> QED BY <1>2, <1>3, <1>5, <2>2 DEF Is, Out
<1>6. CASE a \notin UartWindow /\ a \notin GpioWindow
  <2>1. ~\E i \in 1..Len(layout) : Contains(layout[i], a)
    BY <1>1, <1>2, <1>6
  <2>2. Lookup(b, n, a) = [out |-> a, attrs |-> DefaultAttributes]
    BY <2>1 DEF Lookup, VirtAddrProperties, layout
  <2> QED BY <1>6, <2>2 DEF Is, Out
<1> QED BY <1>4, <1>5, <1>6

\* What an address is to an executable: the code range, whatever the board.
LEMMA LookupElsewhere ==
    ASSUME NEW b \in Boards, NEW n \in CodeSizes, NEW a \in Nat,
           ~Contains(Code(n), a)
    PROVE  Lookup(b, n, a).attrs \in {DeviceAttributes, DefaultAttributes}
<1>1. CASE b \in {"rpi3", "rpi4"}
  BY <1>1, LookupMmio DEF Is
<1>2. CASE b \in {"rpi5", "rpi5_early"}
  <2>1. \E attrs \in {DeviceAttributes, DefaultAttributes} :
            Is(Lookup(b, n, a), Out(b, a), attrs)
    BY <1>2, LookupRemap
  <2> QED BY <2>1 DEF Is
<1> QED BY <1>1, <1>2 DEF Boards

\* Any address, not only one at an edge, is executable exactly if it is code.
LEMMA OnlyCodeExecutable ==
    ASSUME NEW b \in Boards, NEW n \in CodeSizes, NEW a \in Nat
    PROVE  LET p == Lookup(b, n, a)
           IN  /\ p.attrs.execute_never <=> ~Contains(Code(n), a)
               /\ ~p.attrs.execute_never => p.attrs.perms = "ReadOnly" /\ p.out = a
<1>1. CASE Contains(Code(n), a)
  BY <1>1, LookupCode, CodeFacts DEF Is
<1>2. CASE ~Contains(Code(n), a)
  BY <1>2, LookupElsewhere DEF DeviceAttributes, DefaultAttributes
<1> QED BY <1>1, <1>2

\* The output address of a look-up is Out.
LEMMA LookupOut ==
    ASSUME NEW b \in Boards, NEW n \in CodeSizes, NEW a \in Nat
    PROVE  Lookup(b, n, a).out = Out(b, a)
<1>1. CASE Contains(Code(n), a)
  <2>1. a <= 16511
    <3>1. Code(n).first = 128 /\ Code(n).last = 127 + 16 * n
      BY CodeFacts
    <3>2. n \in Nat /\ n <= 1024
      BY SMT DEF CodeSizes
    <3> QED BY <1>1, <3>1, <3>2, SMT DEF Contains
  <2>2. Out(b, a) = a
    BY <2>1, SMT DEF Out, UartWindow, GpioWindow
  <2> QED BY <1>1, <2>2, LookupCode DEF Is
<1>2. CASE ~Contains(Code(n), a) /\ b \in {"rpi3", "rpi4"}
  BY <1>2, LookupMmio DEF Is, Out
<1>3. CASE ~Contains(Code(n), a) /\ b \in {"rpi5", "rpi5_early"}
  <2>1. PICK attrs : Is(Lookup(b, n, a), Out(b, a), attrs)
    BY <1>3, LookupRemap
  <2> QED BY <2>1 DEF Is
<1> QED BY <1>1, <1>2, <1>3 DEF Boards

\* The attributes of an address.
Attributes(b, n, a) ==
    CASE Contains(Code(n), a) -> Code(n).attrs
      [] ~Contains(Code(n), a) /\ b \in {"rpi3", "rpi4"} ->
             IF Contains(Mmio(b), a) THEN DeviceAttributes ELSE DefaultAttributes
      [] ~Contains(Code(n), a) /\ b \in {"rpi5", "rpi5_early"} ->
             IF a \in UartWindow \cup GpioWindow THEN DeviceAttributes ELSE DefaultAttributes

\* A look-up gives both.
LEMMA LookupAll ==
    ASSUME NEW b \in Boards, NEW n \in CodeSizes, NEW a \in Nat
    PROVE  Lookup(b, n, a) = [out |-> Out(b, a), attrs |-> Attributes(b, n, a)]
<1>1. PICK attrs : Lookup(b, n, a) = [out |-> Out(b, a), attrs |-> attrs]
                   /\ attrs = Attributes(b, n, a)
  <2>1. CASE Contains(Code(n), a)
    BY <2>1, LookupCode, LookupOut DEF Is, Attributes
  <2>2. CASE ~Contains(Code(n), a) /\ b \in {"rpi3", "rpi4"}
    BY <2>2, LookupMmio, LookupOut DEF Is, Attributes
  <2>3. CASE ~Contains(Code(n), a) /\ b \in {"rpi5", "rpi5_early"}
    BY <2>3, LookupRemap DEF Is, Attributes
  <2> QED BY <2>1, <2>2, <2>3 DEF Boards
<1> QED BY <1>1

\* A 64 KiB page is mapped as a whole: the ranges are made of pages.
LEMMA SamePage ==
    ASSUME NEW b \in Boards, NEW n \in CodeSizes, NEW a \in Nat,
           NEW f \in Nat, NEW r \in 0..15, NEW q \in Nat, f = 16 * q, a = f + r
    PROVE  Attributes(b, n, a) = Attributes(b, n, f) /\ Out(b, a) = Out(b, f) + r
<1>1. Contains(Code(n), a) <=> Contains(Code(n), f)
  <2>1. Code(n).first = 128 /\ Code(n).last = 127 + 16 * n
    BY CodeFacts
  <2>2. n \in Nat
    BY DEF CodeSizes
  <2> QED BY <2>1, <2>2, SMT DEF Contains
<1>2. /\ a \in UartWindow <=> f \in UartWindow
      /\ a \in GpioWindow <=> f \in GpioWindow
  BY SMT DEF UartWindow, GpioWindow
<1>3. ASSUME b \in {"rpi3", "rpi4"}
      PROVE  Contains(Mmio(b), a) <=> Contains(Mmio(b), f)
  <2>1. \/ Mmio(b).first = 258048 /\ Mmio(b).last = 262159
        \/ Mmio(b).first = 1040384 /\ Mmio(b).last = 1046607
    BY <1>3, MmioFacts
  <2> QED BY <2>1, SMT DEF Contains
<1>4. Attributes(b, n, a) = Attributes(b, n, f)
  <2>1. CASE Contains(Code(n), a)
    BY <1>1, <2>1 DEF Attributes
  <2>2. CASE ~Contains(Code(n), a) /\ b \in {"rpi3", "rpi4"}
    BY <1>1, <1>3, <2>2 DEF Attributes
  <2>3. CASE ~Contains(Code(n), a) /\ b \in {"rpi5", "rpi5_early"}
    <3>1. a \in UartWindow \cup GpioWindow <=> f \in UartWindow \cup GpioWindow
      BY <1>2
    <3> QED BY <1>1, <2>3, <3>1 DEF Attributes
  <2> QED BY <2>1, <2>2, <2>3 DEF Boards
<1>5. UartPage(b) \in Nat
  BY DEF UartPage
<1>6. Out(b, a) = Out(b, f) + r
  BY <1>2, <1>5, SMT DEF Out, UartOut, GpioOut, UartWindow, GpioWindow
<1> QED BY <1>4, <1>6

\* The attributes are attributes, and the output address is an address.
LEMMA LookupType ==
    ASSUME NEW b \in Boards, NEW n \in CodeSizes, NEW a \in Nat
    PROVE  Lookup(b, n, a) \in [out : Nat, attrs : AttributeFields]
<1>1. Out(b, a) \in Nat
  BY SMT DEF Out, UartOut, GpioOut, UartWindow, GpioWindow, UartPage
<1>2. Attributes(b, n, a) \in AttributeFields
  <2>1. {DeviceAttributes, DefaultAttributes, Code(n).attrs} \subseteq AttributeFields
    <3>1. Code(n).attrs = [mem |-> "CacheableDRAM", perms |-> "ReadOnly",
                           execute_never |-> FALSE]
      BY CodeFacts
    <3> QED BY <3>1 DEF DeviceAttributes, DefaultAttributes, AttributeFields
  <2> QED BY <2>1 DEF Attributes, Boards
<1> QED BY <1>1, <1>2, LookupAll

\* No two addresses of the address space go to the same place.
LEMMA OutInjective ==
    ASSUME NEW b \in Boards, NEW a \in AddressSpace, NEW c \in AddressSpace, a < c
    PROVE  Out(b, a) # Out(b, c)
BY SMT DEF AddressSpace, Boards, Out, UartWindow, GpioWindow, UartOut, GpioOut, UartPage

\* Output addresses have at most 40 bits.
LEMMA OutInRange ==
    ASSUME NEW b \in Boards, NEW a \in AddressSpace
    PROVE  Out(b, a) < 268435456
BY SMT DEF AddressSpace, Boards, Out, UartWindow, GpioWindow, UartOut, GpioOut, UartPage

\* Addresses are natural numbers.
LEMMA AddressNat == AddressSpace \subseteq Nat
BY SMT DEF AddressSpace

\* A kernel that can be built: the lemmas above are about it.
Built == board \in Boards /\ code \in CodeSizes

-----------------------------------------------------------------------------
(* Types.                                                                  *)

\* The statics after each assignment the code makes to one of them.
LEMMA BssUpdates ==
    ASSUME bss \in Bss, NEW d \in Seq({"uart", "gpio", "junk"}), NEW f \in BOOLEAN
    PROVE  /\ LET r == [bss EXCEPT !.panicInProgress = f]
              IN  r \in Bss /\ r.panicInProgress = f
                            /\ r.expectedPanic = bss.expectedPanic
           /\ LET r == [bss EXCEPT !.expectedPanic = f]
              IN  r \in Bss /\ r.panicInProgress = bss.panicInProgress
                            /\ r.expectedPanic = f
           /\ LET r == [bss EXCEPT !.descriptors = d, !.initDone = f]
              IN  r \in Bss /\ r.panicInProgress = bss.panicInProgress
                            /\ r.expectedPanic = bss.expectedPanic
<1>1. /\ [bss EXCEPT !.panicInProgress = f] \in Bss
      /\ [bss EXCEPT !.expectedPanic = f] \in Bss
  BY SMT DEF Bss
<1>2. [bss EXCEPT !.descriptors = d, !.initDone = f] \in Bss
  BY Zenon DEF Bss
<1>3. /\ [bss EXCEPT !.panicInProgress = f].panicInProgress = f
      /\ [bss EXCEPT !.panicInProgress = f].expectedPanic = bss.expectedPanic
  BY Zenon DEF Bss
<1>4. /\ [bss EXCEPT !.expectedPanic = f].expectedPanic = f
      /\ [bss EXCEPT !.expectedPanic = f].panicInProgress = bss.panicInProgress
  BY Zenon DEF Bss
<1>5. LET r == [bss EXCEPT !.descriptors = d, !.initDone = f]
      IN  r.panicInProgress = bss.panicInProgress /\ r.expectedPanic = bss.expectedPanic
  BY Zenon DEF Bss
<1> QED BY <1>1, <1>2, <1>3, <1>4, <1>5

\* register_driver leaves a table of descriptors.
LEMMA RegisteredType ==
    ASSUME bss \in Bss
    PROVE  Registered(Drivers) \in Seq({"uart", "gpio", "junk"}) /\ Fits(Drivers) \in BOOLEAN
<1> DEFINE all == bss.descriptors \o Drivers
<1>1. all \in Seq({"uart", "gpio", "junk"}) /\ Len(all) \in Nat
  BY DEF Bss, Drivers
<1>2. NUM_DRIVERS \in Nat \ {0}
  BY KernelBootAssumption
<1> HIDE DEF all
<1>3. ASSUME Len(all) > NUM_DRIVERS
      PROVE  SubSeq(all, 1, NUM_DRIVERS) \in Seq({"uart", "gpio", "junk"})
  BY <1>1, <1>2, <1>3
<1> QED BY <1>1, <1>2, <1>3 DEF Registered, Fits, all

\* The assignments, one by one.
LEMMA BssAssignments ==
    ASSUME bss \in Bss
    PROVE  /\ bss' = [bss EXCEPT !.panicInProgress = TRUE]
                => bss' \in Bss /\ bss'.panicInProgress
                              /\ bss'.expectedPanic = bss.expectedPanic
           /\ \A f \in BOOLEAN : bss' = [bss EXCEPT !.expectedPanic = f]
                => bss' \in Bss /\ bss'.panicInProgress = bss.panicInProgress
                              /\ bss'.expectedPanic = f
           /\ bss' = [bss EXCEPT !.descriptors = Registered(Drivers),
                                 !.initDone    = Fits(Drivers)]
                => bss' \in Bss /\ bss'.panicInProgress = bss.panicInProgress
                              /\ bss'.expectedPanic = bss.expectedPanic
<1>1. /\ Registered(Drivers) \in Seq({"uart", "gpio", "junk"})
      /\ Fits(Drivers) \in BOOLEAN /\ TRUE \in BOOLEAN
  BY RegisteredType
<1> QED BY <1>1, BssUpdates

Access == [device : {"uart", "gpio"}, out : Nat, mem : {"Device", "CacheableDRAM"}]

\* The drivers are built with addresses of the address space.
LEMMA StartAddresses ==
    ASSUME NEW b \in Boards
    PROVE  UartStart(b) \in AddressSpace /\ GpioStart(b) \in AddressSpace
<1>1. UartStart(b) \in {1048544, 1048545, 258561, 1040897}
  BY SMT DEF Boards, UartStart, UART_VIRT_PAGE_START, MMIO_START, UART_OFFSET
<1>2. GpioStart(b) \in {1048560, 258560, 1040896}
  BY SMT DEF Boards, GpioStart, GPIO_VIRT_PAGE_START, MMIO_START, GPIO_OFFSET
<1> QED BY <1>1, <1>2, SMT DEF AddressSpace

\* An access has a type.
LEMMA ReachType ==
    ASSUME Built, NEW device \in {"uart", "gpio"}
    PROVE  Reach(device) \in Access
<1> DEFINE start == IF device = "uart" THEN UartStart(board) ELSE GpioStart(board)
           p == Lookup(board, code, start)
<1>1. start \in Nat
  BY StartAddresses, AddressNat DEF Built
<1>2. p \in [out : Nat, attrs : AttributeFields]
  BY <1>1, LookupType DEF Built
<1>3. Reach(device) = IF mmu THEN [device |-> device, out |-> p.out, mem |-> p.attrs.mem]
                      ELSE [device |-> device, out |-> start, mem |-> "Device"]
  BY DEF Reach
<1> HIDE DEF start, p
<1>4. p.out \in Nat /\ p.attrs.mem \in {"Device", "CacheableDRAM"}
  BY <1>2 DEF AttributeFields
<1> QED BY <1>1, <1>3, <1>4 DEF Access

\* The registers of both devices are behind the addresses of their drivers, on
\* a Raspberry Pi 5 with the MMU on.
LEMMA ReachHits ==
    ASSUME Built, mmu \/ board \in {"rpi3", "rpi4"}, NEW device \in {"uart", "gpio"}
    PROVE  Hits(Reach(device))
<1> DEFINE start == IF device = "uart" THEN UartStart(board) ELSE GpioStart(board)
           phys  == IF device = "uart" THEN UartPhys(board) ELSE GpioPhys(board)
           p == Lookup(board, code, start)
<1>1. start \in AddressSpace /\ start \in Nat
  BY StartAddresses, AddressNat DEF Built
<1>2. ~Contains(Code(code), start)
  <2>1. Code(code).first = 128 /\ Code(code).last = 127 + 16 * code
    BY CodeFacts DEF Built
  <2>2. code \in Nat /\ code <= 1024
    BY SMT DEF Built, CodeSizes
  <2>3. start > 16511
    BY SMT DEF Built, Boards, UartStart, UART_VIRT_PAGE_START, MMIO_START, UART_OFFSET,
       GpioStart, GPIO_VIRT_PAGE_START, GPIO_OFFSET
  <2> HIDE DEF start
  <2> QED BY <1>1, <2>1, <2>2, <2>3, SMT DEF Contains
<1>3. Reach(device) = IF mmu THEN [device |-> device, out |-> p.out, mem |-> p.attrs.mem]
                      ELSE [device |-> device, out |-> start, mem |-> "Device"]
  BY DEF Reach
<1>4. Hits(Reach(device)) <=> Reach(device).out = phys /\ Reach(device).mem = "Device"
  BY <1>3 DEF Hits
<1>5. CASE board \in {"rpi3", "rpi4"}
  <2>1. phys = start
    BY <1>5 DEF UartPhys, GpioPhys
  <2>2. Contains(Mmio(board), start)
    <3>1. /\ Mmio(board).first = MMIO_START(board) /\ Mmio(board).last = MMIO_END(board)
      BY DEF Mmio
    <3> QED BY <1>5, <3>1, SMT DEF Contains, MMIO_START, MMIO_END, UartStart, GpioStart,
               UART_OFFSET, GPIO_OFFSET
  <2>3. Is(p, start, DeviceAttributes)
    BY <1>1, <1>2, <1>5, <2>2, LookupMmio DEF Built
  <2> HIDE DEF start, phys, p
  <2> QED BY <1>3, <1>4, <2>1, <2>3 DEF Is, DeviceAttributes
<1>6. CASE board \in {"rpi5", "rpi5_early"} /\ mmu
  <2>1. start \in UartWindow \cup GpioWindow
    BY <1>6, SMT DEF UartWindow, GpioWindow, UartStart, GpioStart, UART_VIRT_PAGE_START,
       GPIO_VIRT_PAGE_START
  <2>2. phys = Out(board, start)
    BY <1>6, SMT DEF UartWindow, GpioWindow, Out, UartOut, GpioOut, UartPage, UartStart,
       GpioStart, UART_VIRT_PAGE_START, GPIO_VIRT_PAGE_START, UartPhys, GpioPhys,
       PL011_UART_PHYS_START, PL011_EARLY_UART_PHYS_START, GPIO_PHYS_START
  <2>3. Is(p, phys, DeviceAttributes)
    BY <1>1, <1>2, <1>6, <2>1, <2>2, LookupRemap DEF Built
  <2> HIDE DEF start, phys, p
  <2> QED BY <1>3, <1>4, <1>6, <2>3 DEF Is, DeviceAttributes
<1> QED BY <1>5, <1>6 DEF Built, Boards

\* Every program is a sequence of operations.
LEMMA ScriptType ==
    ASSUME NEW p \in {"kernel", "boot_test", "page_fault", "syscall"}
    PROVE  Script(p) \in Seq(Operations)
<1> DEFINE kernel == <<"vbar", "mmu", "validate", "register", "init", "callback",
                       "init", "callback", "print", "clear_rx">>
<1>1. kernel \in Seq(Operations)
  BY DEF Operations
<1> HIDE DEF kernel
<1>2. "echo" \in Operations /\ "success" \in Operations
  BY DEF Operations
<1>3. Append(kernel, "echo") \in Seq(Operations) /\ Append(kernel, "success") \in Seq(Operations)
  BY <1>1, <1>2
<1>4. <<"vbar", "mmu", "console", "print", "expect_panic", "fault", "failure">> \in Seq(Operations)
  BY DEF Operations
<1>5. <<"vbar", "mmu", "console", "print", "svc", "print", "success">> \in Seq(Operations)
  BY DEF Operations
<1>6. Script(p) \in {Append(kernel, "echo"), Append(kernel, "success"),
         <<"vbar", "mmu", "console", "print", "expect_panic", "fault", "failure">>,
         <<"vbar", "mmu", "console", "print", "svc", "print", "success">>}
  BY DEF Script, kernel
<1> QED BY <1>3, <1>4, <1>5, <1>6

\* The statics before and after boot.s has cleared them.
LEMMA BssType ==
    /\ [panicInProgress |-> FALSE, initDone |-> FALSE, expectedPanic |-> FALSE,
        descriptors |-> <<>>] \in Bss
    /\ \A b \in BOOLEAN :
        [panicInProgress |-> b, initDone |-> b, expectedPanic |-> b,
         descriptors |-> IF b THEN <<"junk">> ELSE <<>>] \in Bss
<1>1. <<>> \in Seq({"uart", "gpio", "junk"}) /\ <<"junk">> \in Seq({"uart", "gpio", "junk"})
  OBVIOUS
<1>2. ASSUME NEW b \in BOOLEAN, NEW d \in Seq({"uart", "gpio", "junk"})
      PROVE  [panicInProgress |-> b, initDone |-> b, expectedPanic |-> b,
              descriptors |-> d] \in Bss
  BY DEF Bss
<1>3. FALSE \in BOOLEAN
  OBVIOUS
<1> QED BY <1>1, <1>2, <1>3, Zenon

\* The initial states are of their types.
LEMMA InitTypes == Init => TypeOK
<1> SUFFICES ASSUME Init PROVE TypeOK
  OBVIOUS
<1>1. /\ program \in Programs /\ Programs \subseteq {"kernel", "boot_test", "page_fault", "syscall"}
      /\ todo = Script(program)
  BY KernelBootAssumption DEF Init
<1>2. todo \in Seq(Operations)
  BY <1>1, ScriptType
<1>3. bss \in Bss
  BY BssType DEF Init
<1>4. board \in Boards /\ code \in CodePages
  BY DEF Init, Boards
<1>5. log \in Seq([line : {"info", "panic"}, seen : BOOLEAN])
  BY DEF Init
<1>6. /\ reached \subseteq [device : {"uart", "gpio"}, out : Nat,
                           mem : {"Device", "CacheableDRAM"}]
      /\ el \in {1, 2, 3} /\ frequency \in {0, 1} /\ driver \in Nat /\ faults \in Nat
  BY DEF Init
<1>7. /\ bootCore \in BOOLEAN /\ granule64 \in BOOLEAN /\ exclusives \in BOOLEAN
      /\ mmu \in BOOLEAN /\ vbar \in BOOLEAN /\ uartOn \in BOOLEAN /\ pins \in BOOLEAN
      /\ expectedAtPanic \in BOOLEAN
  BY DEF Init
<1>8. /\ console \in {"null", "uart"} /\ panicking = "no" /\ outcome = "running"
      /\ boot = "_start"
  BY DEF Init
<1> QED BY <1>1, <1>2, <1>3, <1>4, <1>5, <1>6, <1>7, <1>8 DEF TypeOK

\* What is built is one of the boards, with code of a size that fits.
LEMMA TypesBuilt == TypeOK => Built
BY KernelBootAssumption DEF TypeOK, Built, CodeSizes

\* _print adds a line to the log, and an access of the UART if that is the console.
LEMMA PrintType ==
    ASSUME TypeOK, NEW line \in {"info", "panic"}, WriteLine(line)
    PROVE  /\ log' \in Seq([line : {"info", "panic"}, seen : BOOLEAN])
           /\ reached' \subseteq Access
<1>1. Seen \in BOOLEAN
  BY DEF Seen
<1>2. [line |-> line, seen |-> Seen] \in [line : {"info", "panic"}, seen : BOOLEAN]
  BY <1>1
<1>3. log \in Seq([line : {"info", "panic"}, seen : BOOLEAN]) /\ reached \subseteq Access
  BY DEF TypeOK, Access
<1>4. Reach("uart") \in Access
  BY TypesBuilt, ReachType
<1>5. /\ log' = Append(log, [line |-> line, seen |-> Seen])
      /\ reached' \in {reached, reached \cup {Reach("uart")}}
  BY DEF WriteLine
<1> HIDE DEF Seen
<1> QED BY <1>2, <1>3, <1>4, <1>5

\* An operation of the script ends it, or panics.
LEMMA ScriptStep ==
    ASSUME TypeOK, todo # <<>>, Proceed \/ (Panic /\ todo' = todo)
    PROVE  /\ todo' \in Seq(Operations)
           /\ panicking' \in {"no", "enter", "print", "backtrace", "exit"}
           /\ expectedAtPanic' \in BOOLEAN
<1>1. Tail(todo) \in Seq(Operations) /\ todo \in Seq(Operations)
  BY DEF TypeOK
<1>2. ExpectPanicCalled \in BOOLEAN
  BY DEF ExpectPanicCalled
<1> QED BY <1>1, <1>2 DEF Proceed, Panic, TypeOK

\* Every step keeps the types.
LEMMA TypeStep == TypeOK /\ [Next]_vars => TypeOK'
<1> SUFFICES ASSUME TypeOK, [Next]_vars PROVE TypeOK'
  OBVIOUS
<1>1. todo # <<>> => Tail(todo) \in Seq(Operations)
  BY DEF TypeOK
<1>2. ExpectPanicCalled \in BOOLEAN
  BY DEF ExpectPanicCalled
<1>3. CASE ParkOrClearBss
  <2>1. bss' \in Bss
    BY <1>3, BssType DEF ParkOrClearBss, TypeOK
  <2> QED BY <1>3, <2>1 DEF ParkOrClearBss, TypeOK, firmware, hardware, history, built
<1>4. CASE CheckFrequency \/ ReturnToEl1
  BY <1>4 DEF CheckFrequency, ReturnToEl1, TypeOK, firmware, hardware, history, built
<1>5. CASE HandlingInit \/ EnableMmu \/ ValidateLayout
  <2>1. todo # <<>> /\ (Proceed \/ (Panic /\ todo' = todo))
    BY <1>5 DEF HandlingInit, EnableMmu, ValidateLayout, At
  <2>2. /\ mmu' \in BOOLEAN /\ vbar' \in BOOLEAN
        /\ UNCHANGED <<firmware, uartOn, pins, bss, console, boot, driver, outcome, log,
                       reached, faults>>
    BY <1>5 DEF HandlingInit, EnableMmu, ValidateLayout, hardware, TypeOK
  <2> QED BY <2>1, <2>2, ScriptStep DEF TypeOK, firmware, built
<1>6. CASE RegisterDrivers
  <2>1. bss' \in Bss
    BY <1>6, BssAssignments DEF RegisterDrivers, TypeOK
  <2>2. todo # <<>> /\ (Proceed \/ (Panic /\ todo' = todo))
    BY <1>6 DEF RegisterDrivers, At
  <2>3. UNCHANGED <<firmware, hardware, console, boot, driver, outcome, log, reached, faults>>
    BY <1>6 DEF RegisterDrivers
  <2> QED BY <2>1, <2>2, <2>3, ScriptStep DEF TypeOK, firmware, hardware, built
<1>7. CASE InitDriver \/ PostInit
  <2>1. reached' \subseteq Access
    <3>1. Reach("uart") \in Access /\ Reach("gpio") \in Access
      BY TypesBuilt, ReachType
    <3>2. reached' \in {reached, reached \cup {Reach("uart")}, reached \cup {Reach("gpio")}}
      BY <1>7 DEF InitDriver, PostInit
    <3> QED BY <3>1, <3>2 DEF TypeOK, Access
  <2>2. todo # <<>> /\ Proceed
    BY <1>7 DEF InitDriver, PostInit, At
  <2>3. driver' \in Nat /\ uartOn' \in BOOLEAN /\ pins' \in BOOLEAN
    <3>1. /\ driver' \in {driver, driver + 1} /\ pins' \in {pins, TRUE}
          /\ uartOn' = uartOn \/ uartOn' = (uartOn \/ board # "rpi5_early")
      BY <1>7 DEF InitDriver, PostInit
    <3>2. driver' \in Nat
      BY <3>1 DEF TypeOK
    <3>3. uartOn' \in BOOLEAN /\ pins' \in BOOLEAN
      BY <3>1, Zenon DEF TypeOK
    <3> QED BY <3>2, <3>3
  <2>4. console' \in {"null", "uart"}
    BY <1>7 DEF InitDriver, PostInit, RegisterConsole, TypeOK
  <2>5. UNCHANGED <<firmware, mmu, vbar, bss, boot, outcome, log, faults>>
    BY <1>7 DEF InitDriver, PostInit
  <2> QED BY <2>1, <2>2, <2>3, <2>4, <2>5, ScriptStep DEF TypeOK, Access, firmware, built
<1>8. CASE QemuBringUpConsole \/ ClearRx \/ SystemCall \/ PageFault
  <2>1. CASE QemuBringUpConsole
    BY <1>1, <2>1 DEF QemuBringUpConsole, RegisterConsole, At, Proceed, TypeOK, firmware,
       hardware, built
  <2>2. CASE ClearRx
    BY <1>1, <2>2 DEF ClearRx, At, Proceed, TypeOK, firmware, hardware, built
  <2>3. CASE SystemCall
    BY <1>1, <2>3 DEF SystemCall, At, Proceed, TypeOK, firmware, hardware, built
  <2>4. CASE PageFault
    BY <1>1, <1>2, <2>4 DEF PageFault, At, Proceed, Panic, TypeOK, firmware, hardware, built
  <2> QED BY <1>8, <2>1, <2>2, <2>3, <2>4
<1>9. CASE PrintLine
  <2>1. /\ log' \in Seq([line : {"info", "panic"}, seen : BOOLEAN])
        /\ reached' \subseteq Access
    BY <1>9, PrintType DEF PrintLine
  <2> QED BY <1>1, <1>9, <2>1 DEF PrintLine, At, Proceed, TypeOK, Access, firmware, hardware, built
<1>10. CASE ExpectPanic
  <2>1. bss' \in Bss
    BY <1>10, BssAssignments DEF ExpectPanic, TypeOK
  <2> QED BY <1>1, <1>10, <2>1 DEF ExpectPanic, At, Proceed, TypeOK, firmware, hardware, built
<1>11. CASE Finish
  BY <1>11 DEF Finish, At, TypeOK, firmware, hardware, history, built
<1>12. CASE Fault
  BY <1>2, <1>12 DEF Fault, Panic, TypeOK, firmware, hardware, built
<1>13. CASE PanicPreventReenter
  <2>1. bss' \in Bss
    BY <1>13, BssAssignments DEF PanicPreventReenter, TypeOK
  <2> QED BY <1>13, <2>1 DEF PanicPreventReenter, TypeOK, firmware, hardware, history, built
<1>14. CASE PanicReport
  <2>1. /\ log' \in Seq([line : {"info", "panic"}, seen : BOOLEAN])
        /\ reached' \subseteq Access
    BY <1>14, PrintType DEF PanicReport
  <2> QED BY <1>14, <2>1 DEF PanicReport, TypeOK, Access, firmware, hardware, built
<1>15. CASE PrintBacktrace
  BY <1>15 DEF PrintBacktrace, TypeOK, firmware, hardware, history, built
<1>16. CASE PanicExit
  <2>1. bss' \in Bss
    BY <1>16, BssAssignments DEF PanicExit, TypeOK
  <2> QED BY <1>16, <2>1 DEF PanicExit, TypeOK, firmware, hardware, history, built
<1>17. CASE UNCHANGED vars
  BY <1>17 DEF vars, TypeOK, firmware, hardware, history, thread, built
<1> QED BY <1>3, <1>4, <1>5, <1>6, <1>7, <1>8, <1>9, <1>10, <1>11, <1>12, <1>13, <1>14, <1>15,
           <1>16, <1>17 DEF Next, Core, KernelInit, PanicHandler

\* Every variable of the boot model keeps its type.
THEOREM TypeCorrect == Spec => []TypeOK
BY InitTypes, TypeStep, PTL DEF Spec

-----------------------------------------------------------------------------
(* What the layouts give every address, in every state.                    *)

\* The addresses the invariants name are addresses.
LEMMA EdgeAddresses ==
    ASSUME NEW a \in Addresses(board, code)
    PROVE  a \in AddressSpace
<1>1. a \in 0..END_INCLUSIVE
  BY DEF Addresses
<1>2. END_INCLUSIVE \in Nat /\ END_INCLUSIVE <= 1048575
  BY SMT DEF END_INCLUSIVE
<1>3. a \in Nat /\ a <= END_INCLUSIVE
  BY <1>1, <1>2
<1>4. a <= 1048575
  BY <1>2, <1>3, SMT
<1> QED BY <1>3, <1>4, SMT DEF AddressSpace

\* On every board and for every size of the code an address is executable
\* exactly when it is in the code range, and that is read-only.
THEOREM OnlyCodeIsExecutable == Spec => []ExecutableIsCode
<1>1. Built => ExecutableIsCode
  <2> SUFFICES ASSUME Built, NEW a \in Addresses(board, code)
               PROVE  LET p == Lookup(board, code, a)
                      IN  /\ p.attrs.execute_never <=> ~Contains(Code(code), a)
                          /\ ~p.attrs.execute_never =>
                                p.attrs.perms = "ReadOnly" /\ p.out = a
    BY DEF ExecutableIsCode
  <2>1. a \in Nat
    BY EdgeAddresses, AddressNat
  <2> QED BY <2>1, OnlyCodeExecutable DEF Built
<1> QED BY <1>1, TypesBuilt, TypeCorrect, PTL

\* On every board and for every size of the code no two addresses share a
\* physical unit, all are within 40 bits, and the ranges are whole pages.
THEOREM NoAddressAliased == Spec => []NoAlias
<1>1. Built => NoAlias
  <2> SUFFICES ASSUME Built PROVE NoAlias
    OBVIOUS
  <2>1. ASSUME NEW a \in Addresses(board, code), NEW b \in Addresses(board, code), a < b
        PROVE  Lookup(board, code, a).out # Lookup(board, code, b).out
    <3>1. a \in AddressSpace /\ b \in AddressSpace
      BY EdgeAddresses
    <3>2. Out(board, a) # Out(board, b)
      BY <2>1, <3>1, OutInjective DEF Built
    <3> QED BY <3>1, <3>2, LookupOut, AddressNat DEF Built
  <2>2. ASSUME NEW a \in Addresses(board, code)
        PROVE  Lookup(board, code, a).out < 268435456
    <3>1. a \in AddressSpace
      BY EdgeAddresses
    <3>2. Out(board, a) < 268435456
      BY <3>1, OutInRange DEF Built
    <3> QED BY <3>1, <3>2, LookupOut, AddressNat DEF Built
  <2>3. ASSUME NEW a \in Addresses(board, code)
        PROVE  LET first == a - (a % UnitsPerPage)
               IN  Lookup(board, code, a) =
                   [Lookup(board, code, first) EXCEPT !.out = @ + a - first]
    <3>1. a \in Nat
      BY EdgeAddresses, AddressNat
    <3>2. PICK q \in Nat, r \in 0..15 : q = a \div 16 /\ r = a % 16 /\ a = 16 * q + r
      BY <3>1, SMT
    <3>3. PICK f \in Nat : f = 16 * q /\ a = f + r /\ f = a - (a % UnitsPerPage)
      BY <3>1, <3>2, SMT DEF UnitsPerPage
    <3>4. /\ Attributes(board, code, a) = Attributes(board, code, f)
          /\ Out(board, a) = Out(board, f) + r
      BY <3>1, <3>3, SamePage DEF Built
    <3>5. /\ Lookup(board, code, a) = [out |-> Out(board, a), attrs |-> Attributes(board, code, a)]
          /\ Lookup(board, code, f) = [out |-> Out(board, f), attrs |-> Attributes(board, code, f)]
          /\ Out(board, f) \in Nat
      BY <3>1, LookupAll, LookupType DEF Built
    <3>6. Out(board, f) + a - f = Out(board, f) + r
      BY <3>3, <3>5
    <3> QED BY <3>3, <3>4, <3>5, <3>6
  <2> QED BY <2>1, <2>2, <2>3 DEF NoAlias
<1> QED BY <1>1, TypesBuilt, TypeCorrect, PTL

-----------------------------------------------------------------------------
(* The panic handler.                                                      *)

Begun     == \E i \in 1..Len(log) : ReportAt(i)
AtMostOne == \A i, j \in 1..Len(log) : ReportAt(i) /\ ReportAt(j) => i = j

\* Nothing panics before kernel_init has set the vectors, and from boot.s on the
\* flag tells how far a panic has come, and the log whether it was reported.
PanicInv ==
    /\ vbar => boot = "kernel_init"
    /\ boot # "kernel_init" => panicking = "no" /\ log = <<>>
    /\ boot # "_start" =>
          /\ panicking = "no" \/ (panicking = "enter" /\ faults = 0)
               => ~bss.panicInProgress
          /\ panicking \in {"print", "backtrace", "exit"} => bss.panicInProgress
          /\ panicking = "print" \/ ~bss.panicInProgress => ~Begun
          /\ panicking \in {"backtrace", "exit"} /\ faults = 0 => Begun
    /\ AtMostOne

\* A line that is printed is a report if it is one.
LEMMA PrintReport ==
    ASSUME TypeOK, NEW line \in {"info", "panic"}, WriteLine(line)
    PROVE  /\ Begun' <=> Begun \/ line = "panic"
           /\ AtMostOne /\ (line = "panic" => ~Begun) => AtMostOne'
<1> DEFINE e == [line |-> line, seen |-> Seen]
<1>1. log' = Append(log, e) /\ e.line = line
  BY DEF WriteLine
<1>2. log \in Seq([line : {"info", "panic"}, seen : BOOLEAN]) /\ Len(log) \in Nat
  BY DEF TypeOK
<1> HIDE DEF e
<1>3. /\ Len(log') = Len(log) + 1
      /\ \A i \in 1..Len(log) : log'[i] = log[i]
      /\ log'[Len(log) + 1] = e
  BY <1>1, <1>2
<1>4. Begun' <=> Begun \/ line = "panic"
  BY <1>1, <1>2, <1>3 DEF Begun, ReportAt
<1>5. AtMostOne /\ (line = "panic" => ~Begun) => AtMostOne'
  BY <1>1, <1>2, <1>3 DEF AtMostOne, Begun, ReportAt
<1> QED BY <1>4, <1>5

\* An operation of kernel_init other than println!.
LEMMA QuietOperation ==
    ASSUME PanicInv, boot = "kernel_init", panicking = "no",
           panicking' \in {"no", "enter"}, UNCHANGED <<boot, faults, log>>,
           bss'.panicInProgress = bss.panicInProgress
    PROVE  PanicInv'
<1>1. (Begun' <=> Begun) /\ (AtMostOne' <=> AtMostOne)
  BY DEF Begun, AtMostOne, ReportAt
<1> QED BY <1>1 DEF PanicInv

\* Every step keeps PanicInv.
LEMMA PanicStep == TypeOK /\ PanicInv /\ [Next]_vars => PanicInv'
<1> SUFFICES ASSUME TypeOK, PanicInv, [Next]_vars PROVE PanicInv'
  OBVIOUS
<1>1. ASSUME log' = log PROVE (Begun' <=> Begun) /\ (AtMostOne' <=> AtMostOne)
  BY <1>1 DEF Begun, AtMostOne, ReportAt
<1>2. CASE ParkOrClearBss
  <2>1. CASE el = 2 /\ bootCore
    <3>1. /\ boot = "_start" /\ boot' = "frequency" /\ ~bss'.panicInProgress
          /\ UNCHANGED <<vbar, panicking, log>>
      BY <1>2, <2>1 DEF ParkOrClearBss, hardware, history
    <3>2. panicking = "no" /\ log = <<>> /\ ~vbar
      BY <3>1 DEF PanicInv
    <3>3. ~Begun'
      BY <3>1, <3>2 DEF Begun
    <3> QED BY <1>1, <3>1, <3>2, <3>3 DEF PanicInv
  <2>2. CASE ~(el = 2 /\ bootCore)
    <3>1. UNCHANGED <<boot, bss, vbar, panicking, log>> /\ boot = "_start"
      BY <1>2, <2>2 DEF ParkOrClearBss, hardware, history
    <3> QED BY <1>1, <3>1 DEF PanicInv
  <2> QED BY <2>1, <2>2
<1>3. CASE CheckFrequency \/ ReturnToEl1
  <2>1. /\ boot # "_start" /\ boot' # "_start" /\ boot # "kernel_init"
        /\ UNCHANGED <<bss, vbar, panicking, log, faults>>
    BY <1>3 DEF CheckFrequency, ReturnToEl1, hardware, history
  <2> QED BY <1>1, <2>1 DEF PanicInv
<1>4. CASE HandlingInit \/ EnableMmu \/ ValidateLayout \/ InitDriver \/ PostInit
           \/ QemuBringUpConsole \/ ClearRx \/ SystemCall \/ PageFault
  <2>1. /\ boot = "kernel_init" /\ panicking = "no"
        /\ UNCHANGED <<boot, faults, log, bss>>
    BY <1>4 DEF HandlingInit, EnableMmu, ValidateLayout, InitDriver, PostInit,
       QemuBringUpConsole, ClearRx, SystemCall, PageFault, At
  <2>2. panicking' \in {panicking, "enter"}
    BY <1>4 DEF HandlingInit, EnableMmu, ValidateLayout, InitDriver, PostInit,
       QemuBringUpConsole, ClearRx, SystemCall, PageFault, Proceed, Panic
  <2> QED BY <2>1, <2>2, QuietOperation
<1>5. CASE RegisterDrivers
  <2>1. /\ boot = "kernel_init" /\ panicking = "no" /\ panicking' \in {"no", "enter"}
        /\ UNCHANGED <<boot, faults, log>>
    BY <1>5 DEF RegisterDrivers, At, Proceed, Panic
  <2>2. bss'.panicInProgress = bss.panicInProgress
    BY <1>5, BssAssignments DEF RegisterDrivers, TypeOK
  <2> QED BY <2>1, <2>2, QuietOperation
<1>6. CASE ExpectPanic
  <2>1. /\ boot = "kernel_init" /\ panicking = "no" /\ panicking' = panicking
        /\ UNCHANGED <<boot, faults, log>>
    BY <1>6 DEF ExpectPanic, At, Proceed
  <2>2. bss'.panicInProgress = bss.panicInProgress
    BY <1>6, BssAssignments DEF ExpectPanic, TypeOK
  <2> QED BY <2>1, <2>2, QuietOperation
<1>7. CASE Finish
  <2>1. /\ boot = "kernel_init" /\ panicking = "no"
        /\ UNCHANGED <<boot, faults, log, bss, panicking>>
    BY <1>7 DEF Finish, At, history
  <2> QED BY <2>1, QuietOperation
<1>8. CASE PrintLine
  <2>1. /\ boot = "kernel_init" /\ panicking = "no" /\ WriteLine("info")
        /\ UNCHANGED <<boot, faults, bss, panicking>>
    BY <1>8 DEF PrintLine, At, Proceed
  <2>2. (Begun' <=> Begun) /\ AtMostOne'
    BY <2>1, PrintReport DEF PanicInv
  <2> QED BY <2>1, <2>2 DEF PanicInv
<1>9. CASE Fault
  <2>1. faults' = faults + 1 /\ UNCHANGED <<boot, vbar, bss, log>>
    BY <1>9 DEF Fault, hardware
  <2>2. IF vbar THEN panicking' = "enter" ELSE panicking' = panicking
    BY <1>9 DEF Fault, Panic
  <2>3. faults' # 0
    BY <2>1 DEF TypeOK
  <2> QED BY <1>1, <2>1, <2>2, <2>3 DEF PanicInv
<1>10. CASE PanicPreventReenter
  <2>1. /\ panicking = "enter" /\ UNCHANGED <<boot, vbar, log, faults>>
        /\ panicking' = IF bss.panicInProgress THEN "exit" ELSE "print"
    BY <1>10 DEF PanicPreventReenter, hardware, history
  <2>2. bss'.panicInProgress
    BY <1>10, BssAssignments DEF PanicPreventReenter, TypeOK
  <2>3. boot = "kernel_init"
    BY <2>1 DEF PanicInv
  <2> QED BY <1>1, <2>1, <2>2, <2>3 DEF PanicInv
<1>11. CASE PanicReport
  <2>1. /\ panicking = "print" /\ panicking' = "backtrace" /\ WriteLine("panic")
        /\ UNCHANGED <<boot, vbar, bss, faults>>
    BY <1>11 DEF PanicReport, hardware
  <2>2. boot = "kernel_init" /\ ~Begun /\ bss.panicInProgress
    BY <2>1 DEF PanicInv
  <2>3. Begun' /\ AtMostOne'
    BY <2>1, <2>2, PrintReport DEF PanicInv
  <2> QED BY <2>1, <2>2, <2>3 DEF PanicInv
<1>12. CASE PrintBacktrace
  <2>1. /\ panicking = "backtrace" /\ panicking' = "exit"
        /\ UNCHANGED <<boot, vbar, bss, log, faults>>
    BY <1>12 DEF PrintBacktrace, hardware, history
  <2> QED BY <1>1, <2>1 DEF PanicInv
<1>13. CASE PanicExit
  <2>1. panicking = "exit" /\ UNCHANGED <<panicking, boot, vbar, log, faults>>
    BY <1>13 DEF PanicExit, hardware, history
  <2>2. bss'.panicInProgress = bss.panicInProgress
    BY <1>13, BssAssignments DEF PanicExit, TypeOK
  <2> QED BY <1>1, <2>1, <2>2 DEF PanicInv
<1>14. CASE UNCHANGED vars
  BY <1>1, <1>14 DEF vars, hardware, history, thread, PanicInv
<1> QED BY <1>2, <1>3, <1>4, <1>5, <1>6, <1>7, <1>8, <1>9, <1>10, <1>11, <1>12, <1>13, <1>14
        DEF Next, Core, KernelInit, PanicHandler

\* Whatever faults strike, and when: one panic at most is reported, and without
\* a fault behind it the one panic is.
THEOREM OneReportOnly == Spec => []OneReport
<1>1. Init => PanicInv
  BY DEF Init, PanicInv, AtMostOne, ReportAt
<1>2. PanicInv => OneReport
  BY DEF PanicInv, OneReport, AtMostOne, Begun
<1> QED BY <1>1, <1>2, PanicStep, TypeCorrect, PTL DEF Spec

-----------------------------------------------------------------------------
(* Exit codes.                                                             *)

Expects(s) == \E i \in 1..Len(s) : s[i] = "expect_panic"
ExpectsOnce(s) ==
    \A i, j \in 1..Len(s) : s[i] = "expect_panic" /\ s[j] = "expect_panic" => i = j

\* The flag of a test build says whether its test has called expect_panic, which
\* happens once in page_fault and never in another program.
ExitInv ==
    /\ boot # "kernel_init" => todo = Script(program) /\ panicking = "no"
    /\ ExpectsOnce(todo)
    /\ program # "page_fault" => ~Expects(todo)
    /\ boot # "_start" /\ outcome = "running" => bss.expectedPanic = ExpectPanicCalled
    /\ panicking # "no" => expectedAtPanic = ExpectPanicCalled
    /\ ExitCodeTruthful

\* An operation put behind a script that never calls expect_panic.
LEMMA AppendExpects ==
    ASSUME NEW s \in Seq(Operations), NEW last \in Operations, last # "expect_panic",
           ~Expects(s)
    PROVE  ~Expects(Append(s, last)) /\ ExpectsOnce(Append(s, last))
<1>1. /\ Len(Append(s, last)) = Len(s) + 1 /\ Append(s, last)[Len(s) + 1] = last
      /\ \A i \in 1..Len(s) : Append(s, last)[i] = s[i]
      /\ Len(s) \in Nat
  OBVIOUS
<1>2. ASSUME NEW i \in 1..Len(Append(s, last)) PROVE Append(s, last)[i] # "expect_panic"
  BY <1>1 DEF Expects
<1> QED BY <1>2 DEF Expects, ExpectsOnce

\* Of the programs page_fault alone calls expect_panic, and once.
LEMMA ScriptExpects ==
    ASSUME NEW p \in {"kernel", "boot_test", "page_fault", "syscall"}
    PROVE  ExpectsOnce(Script(p)) /\ (Expects(Script(p)) <=> p = "page_fault")
<1> DEFINE kernel == <<"vbar", "mmu", "validate", "register", "init", "callback",
                       "init", "callback", "print", "clear_rx">>
<1>1. /\ Len(kernel) = 10 /\ \A i \in 1..10 : kernel[i] # "expect_panic"
      /\ kernel \in Seq(Operations)
  BY DEF Operations
<1> HIDE DEF kernel
<1>2. ~Expects(kernel)
  BY <1>1 DEF Expects
<1>3. ASSUME NEW last \in {"echo", "success"}
      PROVE  ~Expects(Append(kernel, last)) /\ ExpectsOnce(Append(kernel, last))
  <2>1. last \in Operations /\ last # "expect_panic"
    BY DEF Operations
  <2> QED BY <1>1, <1>2, <2>1, AppendExpects
<1>4. CASE p = "kernel" \/ p = "boot_test"
  <2>1. Script(p) \in {Append(kernel, "echo"), Append(kernel, "success")}
    BY <1>4 DEF Script, kernel
  <2> QED BY <1>3, <1>4, <2>1
<1>5. CASE p = "page_fault"
  BY <1>5 DEF Script, Expects, ExpectsOnce
<1>6. CASE p = "syscall"
  BY <1>6 DEF Script, Expects, ExpectsOnce
<1> QED BY <1>4, <1>5, <1>6

\* What is left to do after an operation.
LEMMA TailExpects ==
    ASSUME NEW s \in Seq(Operations), s # <<>>, ExpectsOnce(s)
    PROVE  /\ ExpectsOnce(Tail(s))
           /\ Expects(Tail(s)) <=> Expects(s) /\ Head(s) # "expect_panic"
<1>1. /\ Len(s) \in Nat \ {0} /\ Len(Tail(s)) = Len(s) - 1 /\ Head(s) = s[1]
      /\ \A i \in 1..Len(s)-1 : Tail(s)[i] = s[i + 1]
  OBVIOUS
<1>2. ExpectsOnce(Tail(s))
  BY <1>1 DEF ExpectsOnce
<1>3. ASSUME Expects(Tail(s)) PROVE Expects(s) /\ Head(s) # "expect_panic"
  BY <1>1, <1>3 DEF Expects, ExpectsOnce
<1>4. ASSUME Expects(s), Head(s) # "expect_panic" PROVE Expects(Tail(s))
  <2>1. PICK i \in 2..Len(s) : s[i] = "expect_panic"
    BY <1>1, <1>4 DEF Expects
  <2>2. i - 1 \in 1..Len(Tail(s)) /\ Tail(s)[i - 1] = "expect_panic"
    BY <1>1, <2>1
  <2> QED BY <2>2 DEF Expects
<1> QED BY <1>2, <1>3, <1>4

\* expect_panic has been called when it is not left to do.
LEMMA CalledMeans == ExpectPanicCalled <=> program = "page_fault" /\ ~Expects(todo)
BY DEF ExpectPanicCalled, Expects

\* An operation of the script: it is done, or it panics.
LEMMA ExitOperation ==
    ASSUME TypeOK, ExitInv, boot = "kernel_init", panicking = "no", outcome = "running",
           todo # <<>>,
           Proceed \/ (Panic /\ todo' = todo /\ Head(todo) # "expect_panic"),
           UNCHANGED <<boot, outcome, program>>,
           bss'.expectedPanic = IF Head(todo) = "expect_panic" THEN TRUE
                                ELSE bss.expectedPanic
    PROVE  ExitInv'
<1>1. CASE Proceed
  <2>1. todo' = Tail(todo) /\ panicking' = "no"
    BY <1>1 DEF Proceed
  <2>2. todo \in Seq(Operations) /\ ExpectsOnce(todo)
    BY DEF TypeOK, ExitInv
  <2>3. /\ ExpectsOnce(todo)'
        /\ Expects(todo)' <=> Expects(todo) /\ Head(todo) # "expect_panic"
    BY <2>1, <2>2, TailExpects DEF ExpectsOnce, Expects
  <2>4. Head(todo) = "expect_panic" => Expects(todo)
    BY <2>2 DEF Expects
  <2>5. ExpectPanicCalled' <=> program = "page_fault" /\ ~Expects(todo)'
    BY DEF ExpectPanicCalled, Expects
  <2>6. bss'.expectedPanic = ExpectPanicCalled'
    <3>1. CASE Head(todo) = "expect_panic"
      <4>1. bss'.expectedPanic = TRUE /\ ExpectPanicCalled'
        BY <2>3, <2>4, <2>5, <3>1 DEF ExitInv
      <4> QED BY <4>1 DEF ExpectPanicCalled
    <3>2. CASE Head(todo) # "expect_panic"
      <4>1. bss'.expectedPanic = bss.expectedPanic /\ bss.expectedPanic = ExpectPanicCalled
        BY <3>2 DEF ExitInv
      <4>2. ExpectPanicCalled' <=> ExpectPanicCalled
        BY <2>3, <2>5, <3>2, CalledMeans
      <4> QED BY <4>1, <4>2 DEF ExpectPanicCalled
    <3> QED BY <3>1, <3>2
  <2> QED BY <2>1, <2>3, <2>6 DEF ExitInv, ExitCodeTruthful
<1>2. CASE Panic /\ todo' = todo /\ Head(todo) # "expect_panic"
  <2>1. /\ panicking' = "enter" /\ expectedAtPanic' = ExpectPanicCalled
        /\ bss'.expectedPanic = bss.expectedPanic
    BY <1>2 DEF Panic
  <2>2. ExpectPanicCalled' = ExpectPanicCalled
    BY <1>2 DEF ExpectPanicCalled
  <2> QED BY <1>2, <2>1, <2>2 DEF ExitInv, ExitCodeTruthful, ExpectsOnce, Expects
<1> QED BY <1>1, <1>2

\* Every step keeps ExitInv.
LEMMA ExitStep == TypeOK /\ PanicInv /\ ExitInv /\ [Next]_vars => ExitInv'
<1> SUFFICES ASSUME TypeOK, PanicInv, ExitInv, [Next]_vars PROVE ExitInv'
  OBVIOUS
<1>1. ASSUME UNCHANGED <<todo, program>>
      PROVE  /\ ExpectPanicCalled' = ExpectPanicCalled
             /\ ExpectsOnce(todo)' /\ (program' # "page_fault" => ~Expects(todo)')
  BY <1>1 DEF ExpectPanicCalled, ExitInv, ExpectsOnce, Expects
<1>2. CASE ParkOrClearBss
  <2>1. /\ boot = "_start" /\ boot' \in {"_start", "frequency"}
        /\ UNCHANGED <<todo, program, panicking, expectedAtPanic>>
    BY <1>2 DEF ParkOrClearBss, firmware, built, history
  <2>2. todo = Script(program) /\ panicking = "no"
    BY <2>1 DEF ExitInv
  <2>3. ExpectPanicCalled' = FALSE
    <3>1. program \in {"kernel", "boot_test", "page_fault", "syscall"}
      BY KernelBootAssumption DEF TypeOK
    <3>2. ~ExpectPanicCalled
      BY <2>2, <3>1, ScriptExpects, CalledMeans
    <3> QED BY <1>1, <2>1, <3>2 DEF ExpectPanicCalled
  <2>4. boot' = "frequency" => bss'.expectedPanic = FALSE
    BY <1>2, <2>1 DEF ParkOrClearBss
  <2> QED BY <1>1, <2>1, <2>2, <2>3, <2>4 DEF ExitInv, ExitCodeTruthful
<1>3. CASE CheckFrequency \/ ReturnToEl1
  <2>1. /\ boot # "_start" /\ boot' # "_start" /\ boot # "kernel_init" /\ outcome = "running"
        /\ UNCHANGED <<todo, program, bss, panicking, expectedAtPanic>>
    BY <1>3 DEF CheckFrequency, ReturnToEl1, firmware, built, history
  <2> QED BY <1>1, <2>1 DEF ExitInv, ExitCodeTruthful
<1>4. CASE HandlingInit \/ EnableMmu \/ ValidateLayout \/ InitDriver \/ PostInit
           \/ QemuBringUpConsole \/ PrintLine \/ ClearRx \/ SystemCall \/ PageFault
  <2>1. /\ boot = "kernel_init" /\ panicking = "no" /\ outcome = "running" /\ todo # <<>>
        /\ Head(todo) # "expect_panic"
    BY <1>4 DEF HandlingInit, EnableMmu, ValidateLayout, InitDriver, PostInit,
       QemuBringUpConsole, PrintLine, ClearRx, SystemCall, PageFault, At
  <2>2. UNCHANGED <<boot, outcome, program, bss>>
    BY <1>4 DEF HandlingInit, EnableMmu, ValidateLayout, InitDriver, PostInit,
       QemuBringUpConsole, PrintLine, ClearRx, SystemCall, PageFault, firmware, built
  <2>3. Proceed \/ (Panic /\ todo' = todo)
    BY <1>4 DEF HandlingInit, EnableMmu, ValidateLayout, InitDriver, PostInit,
       QemuBringUpConsole, PrintLine, ClearRx, SystemCall, PageFault
  <2> QED BY <2>1, <2>2, <2>3, ExitOperation
<1>5. CASE RegisterDrivers
  <2>1. /\ boot = "kernel_init" /\ panicking = "no" /\ outcome = "running" /\ todo # <<>>
        /\ Head(todo) # "expect_panic"
        /\ UNCHANGED <<boot, outcome, program>>
    BY <1>5 DEF RegisterDrivers, At, firmware, built
  <2>2. Proceed \/ (Panic /\ todo' = todo)
    BY <1>5 DEF RegisterDrivers
  <2>3. bss'.expectedPanic = bss.expectedPanic
    BY <1>5, BssAssignments DEF RegisterDrivers, TypeOK
  <2> QED BY <2>1, <2>2, <2>3, ExitOperation
<1>6. CASE ExpectPanic
  <2>1. /\ boot = "kernel_init" /\ panicking = "no" /\ outcome = "running" /\ todo # <<>>
        /\ Head(todo) = "expect_panic" /\ Proceed
        /\ UNCHANGED <<boot, outcome, program>>
    BY <1>6 DEF ExpectPanic, At, firmware, built
  <2>2. bss'.expectedPanic = TRUE
    <3>1. bss' = [bss EXCEPT !.expectedPanic = TRUE] /\ bss \in Bss /\ TRUE \in BOOLEAN
      BY <1>6 DEF ExpectPanic, TypeOK
    <3> QED BY <3>1, BssAssignments
  <2> QED BY <2>1, <2>2, ExitOperation
<1>7. CASE Finish
  <2>1. /\ boot = "kernel_init" /\ panicking = "no" /\ outcome' # "running"
        /\ UNCHANGED <<todo, program, boot, panicking>>
    BY <1>7 DEF Finish, At, firmware, built
  <2> QED BY <1>1, <2>1 DEF ExitInv, ExitCodeTruthful
<1>8. CASE Fault
  <2>1. UNCHANGED <<todo, program, boot, bss>> /\ outcome = "running"
    BY <1>8 DEF Fault, firmware, built
  <2>2. CASE vbar
    <3>1. /\ panicking' = "enter" /\ expectedAtPanic' = ExpectPanicCalled
          /\ outcome' = outcome /\ boot = "kernel_init"
      BY <1>8, <2>2 DEF Fault, Panic, PanicInv
    <3> QED BY <1>1, <2>1, <3>1 DEF ExitInv, ExitCodeTruthful
  <2>3. CASE ~vbar
    <3>1. outcome' = "derailed" /\ UNCHANGED <<panicking, expectedAtPanic>>
      BY <1>8, <2>3 DEF Fault
    <3> QED BY <1>1, <2>1, <3>1 DEF ExitInv, ExitCodeTruthful
  <2> QED BY <2>2, <2>3
<1>9. CASE PanicPreventReenter \/ PanicReport \/ PrintBacktrace
  <2>1. /\ panicking # "no" /\ panicking' # "no" /\ outcome = "running"
        /\ UNCHANGED <<todo, program, boot, outcome, expectedAtPanic>>
    BY <1>9 DEF PanicPreventReenter, PanicReport, PrintBacktrace, firmware, built, history
  <2>2. boot = "kernel_init"
    BY <2>1 DEF ExitInv
  <2>3. bss'.expectedPanic = bss.expectedPanic
    BY <1>9, BssAssignments DEF PanicPreventReenter, PanicReport, PrintBacktrace, TypeOK
  <2> QED BY <1>1, <2>1, <2>2, <2>3 DEF ExitInv, ExitCodeTruthful
<1>10. CASE PanicExit
  <2>1. /\ panicking = "exit" /\ outcome = "running"
        /\ UNCHANGED <<todo, program, boot, panicking, expectedAtPanic>>
    BY <1>10 DEF PanicExit, firmware, built, history
  <2>2. outcome' \in {"halted", IF bss.expectedPanic THEN "success" ELSE "failure"}
    BY <1>10 DEF PanicExit
  <2>3. boot = "kernel_init" /\ bss.expectedPanic = expectedAtPanic
    BY <2>1 DEF ExitInv
  <2>4. ExitCodeTruthful'
    BY <2>1, <2>2, <2>3 DEF ExitCodeTruthful
  <2>5. outcome' # "running"
    BY <2>2
  <2> QED BY <1>1, <2>1, <2>3, <2>4, <2>5 DEF ExitInv
<1>11. CASE UNCHANGED vars
  BY <1>1, <1>11 DEF vars, firmware, built, history, thread, ExitInv, ExitCodeTruthful
<1> QED BY <1>2, <1>3, <1>4, <1>5, <1>6, <1>7, <1>8, <1>9, <1>10, <1>11
        DEF Next, Core, KernelInit, PanicHandler

\* A test that ends in a panic succeeds exactly if it has announced that panic,
\* whatever faults strike and with whatever garbage in .bss it was started.
THEOREM ExitCodesTruthful == Spec => []ExitCodeTruthful
<1>1. Init => ExitInv
  <2> SUFFICES ASSUME Init PROVE ExitInv
    OBVIOUS
  <2>1. program \in {"kernel", "boot_test", "page_fault", "syscall"}
    BY KernelBootAssumption DEF Init
  <2>2. ExpectsOnce(todo) /\ (Expects(todo) <=> program = "page_fault")
    BY <2>1, ScriptExpects DEF Init
  <2> QED BY <2>2 DEF Init, ExitInv, ExitCodeTruthful
<1>2. Init => PanicInv
  BY DEF Init, PanicInv, AtMostOne, ReportAt
<1>3. ExitInv => ExitCodeTruthful
  BY DEF ExitInv
<1> QED BY <1>1, <1>2, <1>3, PanicStep, ExitStep, TypeCorrect, PTL DEF Spec

-----------------------------------------------------------------------------
(* Drivers are used behind the MMU.                                        *)

\* Test kernels have the boards QEMU knows.  On the others the console stays the
\* null console, and no driver runs, until the MMU is on.
MmuFirst ==
    /\ TestBuild => board \in {"rpi3", "rpi4"}
    /\ ~TestBuild /\ ~mmu =>
          console = "null" /\ todo \in {Script("kernel"), Tail(Script("kernel"))}

ReachInv == MmuFirst /\ DriversReachDevices

\* The kernel of a board begins with its vectors and the MMU.
LEMMA KernelScript ==
    LET s == Script("kernel")
    IN  s # <<>> /\ Head(s) = "vbar" /\ Tail(s) # <<>> /\ Head(Tail(s)) = "mmu"
<1> DEFINE kernel == <<"vbar", "mmu", "validate", "register", "init", "callback",
                       "init", "callback", "print", "clear_rx">>
<1>1. /\ Len(kernel) = 10 /\ kernel[1] = "vbar" /\ kernel[2] = "mmu"
      /\ kernel \in Seq(Operations) /\ "echo" \in Operations
  BY DEF Operations
<1>2. Script("kernel") = Append(kernel, "echo")
  BY DEF Script
<1> HIDE DEF kernel
<1> QED BY <1>1, <1>2

\* With the MMU off, a kernel of a board has nothing but these two to do.
LEMMA BeforeMmu ==
    ASSUME ReachInv, ~TestBuild, ~mmu
    PROVE  /\ todo # <<>> /\ Head(todo) \in {"vbar", "mmu"}
           /\ Head(todo) = "vbar" => Tail(todo) = Tail(Script("kernel"))
BY KernelScript DEF ReachInv, MmuFirst

\* Every step keeps ReachInv.
LEMMA ReachStep == TypeOK /\ ReachInv /\ [Next]_vars => ReachInv'
<1> SUFFICES ASSUME TypeOK, ReachInv, [Next]_vars PROVE ReachInv'
  OBVIOUS
<1>1. ASSUME mmu \/ board \in {"rpi3", "rpi4"}, NEW device \in {"uart", "gpio"}
      PROVE  Hits(Reach(device))
  BY <1>1, TypesBuilt, ReachHits
<1>2. ASSUME NEW device \in {"uart", "gpio"}, reached' \in {reached, reached \cup {Reach(device)}},
             board' = board,
             reached' # reached => mmu \/ board \in {"rpi3", "rpi4"}
      PROVE  DriversReachDevices'
  <2>1. \A r : Hits(r)' <=> Hits(r)
    BY <1>2 DEF Hits
  <2> QED BY <1>1, <1>2, <2>1 DEF ReachInv, DriversReachDevices
<1>3. ASSUME UNCHANGED <<mmu, board, program, console, todo>>
      PROVE  MmuFirst'
  BY <1>3 DEF ReachInv, MmuFirst, TestBuild
<1>4. ~TestBuild /\ ~mmu => console = "null"
  BY DEF ReachInv, MmuFirst
<1>5. TestBuild => board \in {"rpi3", "rpi4"}
  BY DEF ReachInv, MmuFirst
<1>6. CASE ParkOrClearBss \/ CheckFrequency \/ ReturnToEl1 \/ Finish \/ Fault
           \/ PanicPreventReenter \/ PrintBacktrace \/ PanicExit \/ UNCHANGED vars
  <2>1. UNCHANGED <<mmu, board, program, console, todo, reached>>
    BY <1>6 DEF ParkOrClearBss, CheckFrequency, ReturnToEl1, Finish, Fault,
       PanicPreventReenter, PrintBacktrace, PanicExit, vars, firmware, built, hardware,
       history, thread
  <2> QED BY <1>2, <1>3, <2>1 DEF ReachInv
<1>7. CASE PanicReport
  <2>1. UNCHANGED <<mmu, board, program, console, todo>>
    BY <1>7 DEF PanicReport, firmware, built, hardware
  <2>2. reached' = IF console = "uart" THEN reached \cup {Reach("uart")} ELSE reached
    BY <1>7 DEF PanicReport, WriteLine
  <2> QED BY <1>2, <1>3, <1>4, <1>5, <2>1, <2>2 DEF ReachInv
<1>8. CASE HandlingInit
  <2>1. /\ todo' = Tail(todo) /\ UNCHANGED <<mmu, board, program, console, reached>>
        /\ Head(todo) = "vbar"
    BY <1>8 DEF HandlingInit, At, Proceed, firmware, built
  <2>2. MmuFirst'
    BY <2>1, BeforeMmu DEF ReachInv, MmuFirst, TestBuild
  <2> QED BY <1>2, <2>1, <2>2 DEF ReachInv
<1>9. CASE EnableMmu
  <2>1. /\ mmu' \/ (mmu' = mmu /\ todo' = todo)
        /\ UNCHANGED <<board, program, console, reached>>
    BY <1>9 DEF EnableMmu, firmware, built
  <2>2. MmuFirst'
    BY <2>1 DEF ReachInv, MmuFirst, TestBuild
  <2> QED BY <1>2, <2>1, <2>2 DEF ReachInv
<1>10. CASE ValidateLayout \/ RegisterDrivers \/ InitDriver \/ PostInit \/ PrintLine
            \/ QemuBringUpConsole \/ ClearRx \/ ExpectPanic \/ PageFault \/ SystemCall
  <2>1. /\ Head(todo) \notin {"vbar", "mmu"}
        /\ UNCHANGED <<mmu, board, program>>
    BY <1>10 DEF ValidateLayout, RegisterDrivers, InitDriver, PostInit, PrintLine,
       QemuBringUpConsole, ClearRx, ExpectPanic, PageFault, SystemCall, At, firmware,
       built, hardware
  <2>2. TestBuild \/ mmu
    BY <2>1, BeforeMmu
  <2>3. MmuFirst'
    BY <2>1, <2>2 DEF ReachInv, MmuFirst, TestBuild
  <2>4. \E device \in {"uart", "gpio"} : reached' \in {reached, reached \cup {Reach(device)}}
    BY <1>10 DEF ValidateLayout, RegisterDrivers, InitDriver, PostInit, PrintLine,
       QemuBringUpConsole, ClearRx, ExpectPanic, PageFault, SystemCall, WriteLine
  <2> QED BY <1>2, <1>5, <2>1, <2>2, <2>3, <2>4 DEF ReachInv
<1> QED BY <1>6, <1>7, <1>8, <1>9, <1>10 DEF Next, Core, KernelInit, PanicHandler

\* On every board, for every size of the code: whenever a driver is used, by the
\* boot or by a panic in the middle of it, it reaches its device, uncached.
THEOREM DriversReach == Spec => []DriversReachDevices
<1>1. Init => ReachInv
  <2> SUFFICES ASSUME Init PROVE ReachInv
    OBVIOUS
  <2>1. TestBuild => board \in {"rpi3", "rpi4"}
    BY DEF Init
  <2>2. ~TestBuild => todo = Script("kernel") /\ console = "null"
    BY DEF Init, TestBuild
  <2> QED BY <2>1, <2>2 DEF Init, ReachInv, MmuFirst, DriversReachDevices
<1>2. ReachInv => DriversReachDevices
  BY DEF ReachInv
<1> QED BY <1>1, <1>2, ReachStep, TypeCorrect, PTL DEF Spec

-----------------------------------------------------------------------------
(* Every line of kernel_main is seen.                                      *)

\* The kernel of a board, for users or for QEMU.
WholeKernel == program \in {"kernel", "boot_test"}

\* How many operations are done; those left are the rest of the script.
Done == Len(Script(program)) - Len(todo)
Follows ==
    /\ Len(todo) <= Len(Script(program))
    /\ \A i \in 1..Len(todo) : todo[i] = Script(program)[Done + i]

\* What the operations done so far have left behind.
Prepared ==
    /\ Done >= 2 => mmu
    /\ ~WholeKernel /\ Done >= 3 => console = "uart"
    /\ WholeKernel =>
          /\ boot # "_start" /\ Done <= 3 => bss.descriptors = <<>>
          /\ Done >= 4 => bss.descriptors = Drivers
          /\ driver = IF Done < 5 THEN 0 ELSE IF Done < 7 THEN 1 ELSE 2
          /\ Done >= 5 => uartOn
          /\ Done >= 6 => console = "uart"
          /\ Done >= 8 => pins

LineInv ==
    /\ Follows /\ (boot # "kernel_init" => Done = 0)
    /\ panicking = "no" => Prepared
    /\ EveryLineSeen

\* Where in the four scripts an operation can be.
PlaceOf(op, whole) ==
    CASE op = "vbar" -> {1}
      [] op = "mmu"  -> {2}
      [] op \in {"validate", "register"} ->
             IF whole THEN (IF op = "validate" THEN {3} ELSE {4}) ELSE {}
      [] op = "init"     -> IF whole THEN {5, 7} ELSE {}
      [] op = "callback" -> IF whole THEN {6, 8} ELSE {}
      [] op = "console"  -> IF whole THEN {} ELSE {3}
      [] OTHER           -> IF whole THEN 9..11 ELSE 4..7

\* What an appended operation leaves of a sequence.
LEMMA AppendedAt ==
    ASSUME NEW s \in Seq(Operations), NEW e \in Operations
    PROVE  /\ Len(s) \in Nat /\ Len(Append(s, e)) = Len(s) + 1
           /\ Append(s, e)[Len(s) + 1] = e
           /\ \A j \in 1..Len(s) : Append(s, e)[j] = s[j]
OBVIOUS

\* The places of the operations in the scripts.
LEMMA ScriptPlaces ==
    ASSUME NEW p \in {"kernel", "boot_test", "page_fault", "syscall"},
           NEW i \in 1..Len(Script(p))
    PROVE  i \in PlaceOf(Script(p)[i], p \in {"kernel", "boot_test"})
<1> DEFINE kernel == <<"vbar", "mmu", "validate", "register", "init", "callback",
                       "init", "callback", "print", "clear_rx">>
<1>1. ASSUME NEW last \in {"echo", "success"}, Script(p) = Append(kernel, last),
             p \in {"kernel", "boot_test"}
      PROVE  i \in PlaceOf(Script(p)[i], TRUE)
  <2>1. Len(kernel) = 10 /\ kernel \in Seq(Operations) /\ last \in Operations
    BY DEF Operations
  <2>2. \A j \in 1..10 : j \in PlaceOf(kernel[j], TRUE)
    BY DEF PlaceOf
  <2>3. 11 \in PlaceOf(last, TRUE)
    BY DEF PlaceOf
  <2> HIDE DEF kernel
  <2>4. Len(Script(p)) = 11 /\ Script(p)[11] = last /\ \A j \in 1..10 : Script(p)[j] = kernel[j]
    <3>1. /\ Len(Append(kernel, last)) = 11 /\ Append(kernel, last)[11] = last
          /\ \A j \in 1..10 : Append(kernel, last)[j] = kernel[j]
      <4>1. /\ Len(kernel) \in Nat /\ Len(Append(kernel, last)) = Len(kernel) + 1
            /\ Append(kernel, last)[Len(kernel) + 1] = last
            /\ \A j \in 1..Len(kernel) : Append(kernel, last)[j] = kernel[j]
        BY <2>1, AppendedAt, Zenon
      <4> QED BY <2>1, <4>1
    <3> QED BY <1>1, <3>1, Zenon
  <2>5. i \in 1..10 \/ i = 11
    BY <2>4
  <2>6. CASE i \in 1..10
    BY <2>2, <2>4, <2>6, Zenon
  <2>7. CASE i = 11
    BY <2>3, <2>4, <2>7, Zenon
  <2> QED BY <2>5, <2>6, <2>7
<1>2. CASE p \in {"kernel", "boot_test"}
  <2>1. PICK last \in {"echo", "success"} : Script(p) = Append(kernel, last)
    BY <1>2 DEF Script
  <2> QED BY <1>1, <1>2, <2>1
<1>3. CASE p = "page_fault"
  <2>1. Script(p) = <<"vbar", "mmu", "console", "print", "expect_panic", "fault", "failure">>
    BY <1>3 DEF Script
  <2> QED BY <1>3, <2>1 DEF PlaceOf
<1>4. CASE p = "syscall"
  <2>1. Script(p) = <<"vbar", "mmu", "console", "print", "svc", "print", "success">>
    BY <1>4 DEF Script
  <2> QED BY <1>4, <2>1 DEF PlaceOf
<1> QED BY <1>2, <1>3, <1>4

\* The next operation to do, and its place.
LEMMA NextOperation ==
    ASSUME TypeOK, LineInv, todo # <<>>
    PROVE  Done \in Nat /\ Done + 1 \in PlaceOf(Head(todo), WholeKernel)
<1>1. program \in {"kernel", "boot_test", "page_fault", "syscall"}
  BY KernelBootAssumption DEF TypeOK
<1>2. Script(program) \in Seq(Operations) /\ todo \in Seq(Operations)
  BY <1>1, ScriptType DEF TypeOK
<1> DEFINE s == Script(program)
<1> HIDE DEF s
<1>3. /\ s \in Seq(Operations) /\ Len(todo) <= Len(s) /\ Done = Len(s) - Len(todo)
      /\ \A i \in 1..Len(todo) : todo[i] = s[Done + i]
  BY <1>2 DEF s, LineInv, Follows, Done
<1>4. Done \in Nat /\ Done + 1 \in 1..Len(s) /\ Head(todo) = s[Done + 1]
  BY <1>2, <1>3
<1>5. Done + 1 \in PlaceOf(s[Done + 1], WholeKernel)
  BY <1>1, <1>4, ScriptPlaces DEF s, WholeKernel
<1> QED BY <1>4, <1>5

\* One operation more is done.
LEMMA DoneNext ==
    ASSUME TypeOK, LineInv, todo # <<>>, program' = program, todo' = Tail(todo)
    PROVE  Follows' /\ Done' = Done + 1
<1>1. program \in {"kernel", "boot_test", "page_fault", "syscall"}
  BY KernelBootAssumption DEF TypeOK
<1>2. Script(program) \in Seq(Operations) /\ todo \in Seq(Operations)
  BY <1>1, ScriptType DEF TypeOK
<1>3. Script(program') = Script(program)
  OBVIOUS
<1> DEFINE s == Script(program)
<1> HIDE DEF s
<1>4. /\ Len(s) \in Nat /\ Len(todo) <= Len(s) /\ Done = Len(s) - Len(todo)
      /\ \A i \in 1..Len(todo) : todo[i] = s[Done + i]
  BY <1>2 DEF s, LineInv, Follows, Done
<1>5. /\ Len(todo) \in Nat \ {0} /\ Len(todo') = Len(todo) - 1
      /\ \A i \in 1..Len(todo') : todo'[i] = todo[i + 1] /\ i + 1 \in 1..Len(todo)
  BY <1>2
<1>6. Done' = Len(s) - Len(todo')
  BY <1>3 DEF s, Done
<1>7. Done' = Done + 1 /\ Len(todo') <= Len(s)
  BY <1>4, <1>5, <1>6
<1>8. \A i \in 1..Len(todo') : todo'[i] = s[Done' + i]
  BY <1>4, <1>5, <1>7
<1> QED BY <1>3, <1>7, <1>8 DEF s, Follows

\* With nothing done, nothing changes.
LEMMA DoneSame ==
    ASSUME LineInv, UNCHANGED <<program, todo>>
    PROVE  Follows' /\ Done' = Done
BY DEF LineInv, Follows, Done

\* A line that is printed is seen, or it is not one of kernel_main.
LEMMA PrintSeen ==
    ASSUME TypeOK, LineInv, NEW line \in {"info", "panic"}, WriteLine(line),
           line = "info" => Seen
    PROVE  EveryLineSeen'
<1> DEFINE e == [line |-> line, seen |-> Seen]
<1>1. log' = Append(log, e) /\ e.line = line /\ (line = "info" => e.seen)
  BY DEF WriteLine
<1>2. log \in Seq([line : {"info", "panic"}, seen : BOOLEAN]) /\ Len(log) \in Nat
  BY DEF TypeOK
<1> HIDE DEF e
<1>3. /\ Len(log') = Len(log) + 1
      /\ \A i \in 1..Len(log) : log'[i] = log[i]
      /\ log'[Len(log) + 1] = e
  BY <1>1, <1>2
<1> QED BY <1>1, <1>2, <1>3 DEF LineInv, EveryLineSeen

\* A step after which a panic runs.
LEMMA LineQuit ==
    ASSUME LineInv, UNCHANGED <<program, todo, boot>>, panicking' # "no", EveryLineSeen'
    PROVE  LineInv'
BY DoneSame DEF LineInv, EveryLineSeen

\* A step that leaves operations and devices alone.
LEMMA LineStays ==
    ASSUME LineInv, UNCHANGED <<program, todo, boot, log, panicking, mmu, console, uartOn,
                                pins, driver>>,
           bss'.descriptors = bss.descriptors
    PROVE  LineInv'
<1>1. Follows' /\ Done' = Done
  BY DoneSame
<1>2. Prepared => Prepared'
  BY <1>1 DEF Prepared, WholeKernel
<1> QED BY <1>1, <1>2 DEF LineInv, EveryLineSeen

\* The table of drivers, which boot.s has cleared, has both of them.
LEMMA BothRegistered ==
    ASSUME bss \in Bss, bss.descriptors = <<>>, Fits(Drivers)
    PROVE  Registered(Drivers) = Drivers
<1>1. <<>> \o Drivers = Drivers
  BY DEF Drivers
<1> QED BY <1>1 DEF Registered

\* The place tells the operations that prepare something apart.
LEMMA PlaceTells ==
    ASSUME NEW op \in Operations, NEW n \in Nat
    PROVE  /\ n \in PlaceOf(op, TRUE) =>
                 /\ n = 2 <=> op = "mmu"
                 /\ n = 4 <=> op = "register"
                 /\ n \in {5, 7} <=> op = "init"
                 /\ n \in {6, 8} <=> op = "callback"
                 /\ n >= 1 /\ op # "console"
           /\ n \in PlaceOf(op, FALSE) =>
                 /\ n = 2 <=> op = "mmu"
                 /\ n = 3 <=> op = "console"
                 /\ n >= 1 /\ op \notin {"validate", "register", "init", "callback"}
BY DEF PlaceOf, Operations

\* What an operation that is done leaves behind.
LEMMA LineOperation ==
    ASSUME TypeOK, LineInv, panicking = "no", boot = "kernel_init", todo # <<>>,
           UNCHANGED <<program, boot>>, Proceed,
           EveryLineSeen',
           mmu \/ Head(todo) = "mmu" => mmu',
           bss'.descriptors = IF Head(todo) = "register" THEN Drivers ELSE bss.descriptors,
           driver' = IF Head(todo) = "init" THEN driver + 1 ELSE driver,
           uartOn \/ (Head(todo) = "init" /\ driver = 0) => uartOn',
           console' = IF Head(todo) = "console" \/ (Head(todo) = "callback" /\ driver = 1)
                      THEN "uart" ELSE console,
           pins \/ (Head(todo) = "callback" /\ driver = 2) => pins'
    PROVE  LineInv'
<1> DEFINE op == Head(todo)
           n  == Done + 1
<1>1. Done \in Nat /\ n \in Nat /\ n \in PlaceOf(op, WholeKernel)
  BY NextOperation
<1>2. Follows' /\ Done' = n
  BY DoneNext DEF Proceed
<1>3. op \in Operations
  BY DEF TypeOK
<1>4. Prepared /\ WholeKernel' = WholeKernel /\ panicking' = "no"
  BY DEF LineInv, WholeKernel, Proceed
<1> HIDE DEF op
<1>5. CASE ~WholeKernel
  <2>1. (n = 2 <=> op = "mmu") /\ (n = 3 <=> op = "console") /\ n >= 1
    <3>1. WholeKernel = FALSE
      BY <1>5 DEF WholeKernel
    <3>2. n \in PlaceOf(op, FALSE)
      BY <1>1, <3>1
    <3> QED BY <1>1, <1>3, <3>2, PlaceTells
  <2>2. (Done' >= 2 => mmu') /\ (Done' >= 3 => console' = "uart")
    BY <1>1, <1>2, <1>4, <1>5, <2>1 DEF Prepared, op
  <2>3. Prepared'
    BY <1>4, <1>5, <2>2 DEF Prepared
  <2> QED BY <1>2, <2>3 DEF LineInv
<1>6. CASE WholeKernel
  <2>1. /\ n = 2 <=> op = "mmu"
        /\ n = 4 <=> op = "register"
        /\ n \in {5, 7} <=> op = "init"
        /\ n \in {6, 8} <=> op = "callback"
        /\ n >= 1
    <3>1. WholeKernel = TRUE
      BY <1>6 DEF WholeKernel
    <3>2. n \in PlaceOf(op, TRUE)
      BY <1>1, <3>1
    <3> QED BY <1>1, <1>3, <3>2, PlaceTells
  <2>2. /\ Done >= 2 => mmu
        /\ Done <= 3 => bss.descriptors = <<>>
        /\ Done >= 4 => bss.descriptors = Drivers
        /\ driver = IF Done < 5 THEN 0 ELSE IF Done < 7 THEN 1 ELSE 2
        /\ Done >= 5 => uartOn
        /\ Done >= 6 => console = "uart"
        /\ Done >= 8 => pins
    BY <1>4, <1>6 DEF Prepared
  <2>3. Done' >= 2 => mmu'
    BY <1>1, <1>2, <2>1, <2>2 DEF op
  <2>4. /\ Done' <= 3 => bss'.descriptors = <<>>
        /\ Done' >= 4 => bss'.descriptors = Drivers
    BY <1>1, <1>2, <2>1, <2>2 DEF op
  <2>5. driver' = IF Done' < 5 THEN 0 ELSE IF Done' < 7 THEN 1 ELSE 2
    BY <1>1, <1>2, <2>1, <2>2 DEF op
  <2>6. Done' >= 5 => uartOn'
    BY <1>1, <1>2, <2>1, <2>2 DEF op
  <2>7. Done' >= 6 => console' = "uart"
    BY <1>1, <1>2, <2>1, <2>2 DEF op
  <2>8. Done' >= 8 => pins'
    BY <1>1, <1>2, <2>1, <2>2 DEF op
  <2>9. Drivers' = Drivers
    BY DEF Drivers
  <2>10. Prepared'
    BY <1>4, <1>6, <2>3, <2>4, <2>5, <2>6, <2>7, <2>8, <2>9 DEF Prepared
  <2> QED BY <1>2, <2>10 DEF LineInv
<1> QED BY <1>5, <1>6

\* The debug UART, which init leaves as it is, is on from power-up.
EarlyUartOn == board = "rpi5_early" => uartOn

\* No step turns a UART off.
LEMMA EarlyUartStep == EarlyUartOn /\ [Next]_vars => EarlyUartOn'
<1> SUFFICES ASSUME EarlyUartOn, [Next]_vars PROVE EarlyUartOn'
  OBVIOUS
<1> USE DEF firmware, built, hardware, history, thread
<1>1. CASE InitDriver
  BY <1>1 DEF InitDriver, EarlyUartOn
<1>2. CASE ~InitDriver
  <2>1. UNCHANGED <<board, uartOn>>
    <3>1. CASE HandlingInit \/ EnableMmu \/ ValidateLayout \/ RegisterDrivers \/ PostInit
      BY <3>1 DEF HandlingInit, EnableMmu, ValidateLayout, RegisterDrivers, PostInit
    <3>2. CASE QemuBringUpConsole \/ PrintLine \/ ClearRx \/ ExpectPanic \/ PageFault
               \/ SystemCall \/ Finish
      BY <3>2 DEF QemuBringUpConsole, PrintLine, ClearRx, ExpectPanic, PageFault,
                  SystemCall, Finish
    <3>3. CASE PanicHandler \/ Fault
      BY <3>3 DEF PanicHandler, PanicPreventReenter, PanicReport, PrintBacktrace,
                  PanicExit, Fault
    <3>4. CASE ParkOrClearBss \/ CheckFrequency \/ ReturnToEl1 \/ UNCHANGED vars
      BY <3>4 DEF ParkOrClearBss, CheckFrequency, ReturnToEl1, vars
    <3> QED BY <1>2, <3>1, <3>2, <3>3, <3>4 DEF Next, Core, KernelInit
  <2> QED BY <2>1 DEF EarlyUartOn
<1> QED BY <1>1, <1>2

\* Every step keeps LineInv.
LEMMA LineStep == TypeOK /\ PanicInv /\ EarlyUartOn /\ LineInv /\ [Next]_vars => LineInv'
<1> SUFFICES ASSUME TypeOK, PanicInv, EarlyUartOn, LineInv, [Next]_vars PROVE LineInv'
  OBVIOUS
<1> USE DEF firmware, built, hardware, history, thread
<1>1. log' = log => EveryLineSeen'
  BY DEF LineInv, EveryLineSeen
<1>2. bss \in Bss
  BY DEF TypeOK
<1>3. ASSUME Panic, UNCHANGED <<program, todo, boot, log>> PROVE LineInv'
  BY <1>1, <1>3, LineQuit DEF Panic
\* What is known when an operation starts.
<1>4. ASSUME NEW op, At(op)
      PROVE  /\ panicking = "no" /\ boot = "kernel_init" /\ todo # <<>> /\ Head(todo) = op
             /\ Prepared /\ Done \in Nat /\ Done + 1 \in PlaceOf(op, WholeKernel)
  BY <1>4, NextOperation DEF At, LineInv
<1>5. ASSUME NEW op \in {"vbar", "validate", "clear_rx", "expect_panic", "svc", "fault"}, At(op), Proceed,
             UNCHANGED <<program, boot, log, mmu, console, uartOn, pins, driver>>,
             bss'.descriptors = bss.descriptors
      PROVE  LineInv'
  BY <1>1, <1>4, <1>5, LineOperation
<1>6. CASE ParkOrClearBss
  <2>1. boot = "_start" /\ Done = 0 /\ panicking = "no"
    BY <1>6 DEF ParkOrClearBss, LineInv, PanicInv
  <2>2. /\ UNCHANGED <<program, todo, log, panicking, mmu, console, uartOn, pins, driver>>
        /\ bss'.descriptors = <<>> \/ boot' = "_start"
        /\ boot' # "kernel_init"
    BY <1>6, <2>1 DEF ParkOrClearBss
  <2>3. Follows' /\ Done' = 0
    BY <2>1, <2>2, DoneSame
  <2>4. Prepared'
    BY <2>1, <2>2, <2>3 DEF LineInv, Prepared, WholeKernel
  <2> QED BY <1>1, <2>2, <2>3, <2>4 DEF LineInv
<1>7. CASE CheckFrequency \/ ReturnToEl1
  <2>1. /\ boot \in {"frequency", "_start_rust"} /\ boot' # "_start" /\ bss' = bss
        /\ UNCHANGED <<program, todo, log, panicking, mmu, console, uartOn, pins, driver>>
    BY <1>7 DEF CheckFrequency, ReturnToEl1
  <2>2. Follows' /\ Done' = Done /\ Done = 0
    BY <2>1, DoneSame DEF LineInv
  <2>3. Prepared => Prepared'
    BY <2>1, <2>2 DEF Prepared, WholeKernel
  <2> QED BY <1>1, <2>1, <2>2, <2>3 DEF LineInv
<1>8. CASE HandlingInit
  BY <1>5, <1>8 DEF HandlingInit
<1>9. CASE EnableMmu
  <2>1. CASE granule64 /\ ~mmu
    BY <1>1, <1>4, <1>9, <2>1, LineOperation DEF EnableMmu
  <2>2. CASE ~(granule64 /\ ~mmu)
    BY <1>3, <1>9, <2>2 DEF EnableMmu
  <2> QED BY <2>1, <2>2
<1>10. CASE ValidateLayout
  <2>1. Proceed \/ (Panic /\ todo' = todo)
    BY <1>10 DEF ValidateLayout
  <2>2. At("validate") /\ UNCHANGED <<program, boot, log, mmu, console, uartOn, pins, driver, bss>>
    BY <1>10 DEF ValidateLayout
  <2> QED BY <1>3, <1>5, <2>1, <2>2
<1>11. CASE RegisterDrivers
  <2>1. At("register") /\ UNCHANGED <<program, boot, log, mmu, console, uartOn, pins, driver>>
    BY <1>11 DEF RegisterDrivers
  <2>2. CASE Panic /\ todo' = todo
    BY <1>3, <2>1, <2>2
  <2>3. CASE ~(Panic /\ todo' = todo)
    <3>1. /\ bss' = [bss EXCEPT !.descriptors = Registered(Drivers), !.initDone = Fits(Drivers)]
          /\ Fits(Drivers) /\ Proceed
      BY <1>11, <2>3 DEF RegisterDrivers
    <3>2. bss'.descriptors = Registered(Drivers)
      BY <1>2, <3>1 DEF Bss
    <3>3. bss.descriptors = <<>>
      <4>1. /\ Done \in Nat /\ Done + 1 \in PlaceOf("register", WholeKernel)
            /\ Prepared /\ boot = "kernel_init"
        BY <1>4, <2>1
      <4>2. WholeKernel /\ Done = 3
        BY <4>1 DEF PlaceOf
      <4> QED BY <4>1, <4>2 DEF Prepared
    <3>4. bss'.descriptors = Drivers
      BY <1>2, <3>1, <3>2, <3>3, BothRegistered
    <3> QED BY <1>1, <1>4, <2>1, <3>1, <3>4, LineOperation
  <2> QED BY <2>2, <2>3
<1>12. CASE InitDriver \/ PostInit
  <2>1. PICK op \in {"init", "callback"} : At(op) /\ (op = "init" <=> InitDriver)
                                              /\ (op = "callback" <=> PostInit)
    BY <1>12 DEF InitDriver, PostInit, At
  <2>2. /\ WholeKernel /\ Prepared
        /\ op = "init" => Done \in {4, 6}
        /\ op = "callback" => Done \in {5, 7}
    BY <1>4, <2>1 DEF PlaceOf
  <2>3. /\ bss.descriptors = Drivers
        /\ op = "init" => driver \in {0, 1}
        /\ op = "callback" => driver \in {1, 2}
    BY <2>1, <2>2 DEF Prepared
  <2>4. Drivers[1] = "uart" /\ Drivers[2] = "gpio"
    BY DEF Drivers
  <2>5. CASE InitDriver
    <3>1. /\ Proceed /\ driver' = driver + 1
          /\ UNCHANGED <<program, boot, log, mmu, console, pins, bss>>
          /\ uartOn' = (uartOn \/ board # "rpi5_early") \/ uartOn' = uartOn
      BY <2>5 DEF InitDriver
    <3>2. driver = 0 => uartOn' = (uartOn \/ board # "rpi5_early")
      BY <2>1, <2>3, <2>4, <2>5 DEF InitDriver
    <3>3. uartOn \/ driver = 0 => uartOn'
      BY <3>1, <3>2, Zenon DEF EarlyUartOn
    <3> QED BY <1>1, <1>4, <2>1, <2>5, <3>1, <3>3, LineOperation
  <2>6. CASE PostInit
    <3>1. /\ Proceed /\ UNCHANGED <<program, boot, log, mmu, uartOn, driver, bss>>
          /\ pins \/ driver = 2 => pins'
          /\ console' = IF driver = 1 THEN "uart" ELSE console
      BY <2>1, <2>3, <2>4, <2>6 DEF PostInit, RegisterConsole
    <3> QED BY <1>1, <1>4, <2>1, <2>6, <3>1, LineOperation
  <2> QED BY <1>12, <2>5, <2>6
<1>13. CASE QemuBringUpConsole
  BY <1>1, <1>4, <1>13, LineOperation DEF QemuBringUpConsole, RegisterConsole
<1>14. CASE PrintLine
  <2>1. /\ At("print") /\ Proceed /\ WriteLine("info")
        /\ UNCHANGED <<program, boot, mmu, console, uartOn, pins, driver, bss>>
    BY <1>14 DEF PrintLine
  <2>2. Done >= IF WholeKernel THEN 8 ELSE 3
    BY <1>4, <2>1 DEF PlaceOf
  <2>3. mmu /\ console = "uart" /\ (TestBuild \/ (uartOn /\ pins))
    BY <1>4, <2>1, <2>2 DEF Prepared, WholeKernel, TestBuild
  <2>4. Seen
    BY <2>3, TypesBuilt, ReachHits DEF Seen
  <2>5. EveryLineSeen'
    BY <2>1, <2>4, PrintSeen
  <2> QED BY <1>4, <2>1, <2>5, LineOperation
<1>15. CASE ClearRx \/ SystemCall \/ ExpectPanic
  <2>1. bss'.descriptors = bss.descriptors
    BY <1>2, <1>15 DEF ClearRx, SystemCall, ExpectPanic, Bss
  <2> QED BY <1>5, <1>15, <2>1 DEF ClearRx, SystemCall, ExpectPanic
<1>16. CASE PageFault
  <2>1. At("fault") /\ (Proceed \/ (Panic /\ todo' = todo))
        /\ UNCHANGED <<program, boot, log, mmu, console, uartOn, pins, driver, bss>>
    BY <1>16 DEF PageFault
  <2> QED BY <1>3, <1>5, <2>1
<1>17. CASE Finish \/ UNCHANGED vars
  <2>1. UNCHANGED <<program, todo, boot, log, panicking, mmu, console, uartOn, pins, driver, bss>>
    BY <1>17 DEF Finish, vars
  <2> QED BY <2>1, LineStays
<1>18. CASE Fault
  <2>1. UNCHANGED <<program, todo, boot, log, mmu, console, uartOn, pins, driver, bss>>
        /\ (Panic \/ panicking' = panicking)
    BY <1>18 DEF Fault
  <2> QED BY <1>3, <2>1, LineStays
<1>19. CASE PanicPreventReenter \/ PrintBacktrace \/ PanicExit
  <2>1. UNCHANGED <<program, todo, boot, log>> /\ panicking' # "no"
    BY <1>19 DEF PanicPreventReenter, PrintBacktrace, PanicExit
  <2> QED BY <1>1, <2>1, LineQuit
<1>20. CASE PanicReport
  <2>1. UNCHANGED <<program, todo, boot>> /\ panicking' # "no" /\ WriteLine("panic")
    BY <1>20 DEF PanicReport
  <2> QED BY <2>1, PrintSeen, LineQuit
<1> QED BY <1>6, <1>7, <1>8, <1>9, <1>10, <1>11, <1>12, <1>13, <1>14, <1>15, <1>16, <1>17,
           <1>18, <1>19, <1>20 DEF Next, Core, KernelInit, PanicHandler

\* Whether the UART of the header is on or off at power-up - the debug UART, on
\* which init only flushes, is on - and whatever the size of the code and the
\* moment of a fault: each line kernel_main prints goes to a UART that is on,
\* mapped, and has its pins.  Each line of the QEMU tests goes to one that is
\* mapped; QEMU asks for no more.
THEOREM EveryLineIsSeen == Spec => []EveryLineSeen
<1>1. Init => LineInv
  <2> SUFFICES ASSUME Init PROVE LineInv
    OBVIOUS
  <2>1. /\ todo = Script(program) /\ boot = "_start" /\ driver = 0 /\ log = <<>>
        /\ panicking = "no" /\ program \in Programs
    BY DEF Init
  <2>2. Script(program) \in Seq(Operations)
    <3>1. program \in {"kernel", "boot_test", "page_fault", "syscall"}
      BY <2>1, KernelBootAssumption
    <3> QED
      BY ONLY <3>1, ScriptType
  <2>3. Follows /\ Done = 0
    BY <2>1, <2>2 DEF Follows, Done
  <2> QED BY <2>1, <2>3 DEF LineInv, Prepared, EveryLineSeen
<1>2. Init => PanicInv
  BY DEF Init, PanicInv, AtMostOne, ReportAt
<1>3. LineInv => EveryLineSeen
  BY DEF LineInv
<1>4. Init => EarlyUartOn
  BY DEF Init, EarlyUartOn
<1> QED BY <1>1, <1>2, <1>3, <1>4, LineStep, EarlyUartStep, PanicStep, TypeCorrect, PTL DEF Spec
=============================================================================
