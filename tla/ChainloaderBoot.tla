--------------------------- MODULE ChainloaderBoot --------------------------
(***************************************************************************)
(* chainloader.s: every core that arrives at _start copies the device tree *)
(* behind the relocated loader; the boot core clears the BSS, copies the   *)
(* loader from the load address to its link address and enters it there;   *)
(* the others park.  The relocated loader then fills the load address with *)
(* the payload (module Chainloader) and enters it.                         *)
(*                                                                         *)
(* Memory is a function on units of four bytes.  A unit is a pair of where *)
(* its content comes from and a number: the index in the original, or for  *)
(* the second unit of a device tree its size.                              *)
(***************************************************************************)
EXTENDS Naturals

CONSTANTS Cores, BootCore,
          MemSize,          \* units of memory
          Load,             \* the load address, 0x80000
          Link,             \* __binary_nonzero_start
          BinarySize,       \* up to __binary_nonzero_end_exclusive
          BssStart, BssEnd, \* BssEnd is __device_tree_start as well
          Parking,          \* offset of .L_parking_loop in the binary
          DtAt, DtSize,     \* the firmware's device tree
          DtPointer,        \* x0 of each core on arrival
          PayloadSize

DtStart == BssEnd
Addr    == 0..MemSize-1

\* What the firmware leaves in memory.
FirmwareMem ==
    [a \in Addr |->
        CASE a = DtAt + 1                       -> <<"dt", DtSize>>
          [] a \in DtAt..DtAt + DtSize - 1 /\ a # DtAt + 1 -> <<"dt", a - DtAt>>
          [] a \in Load..Load + BinarySize - 1  -> <<"bin", a - Load>>
          [] OTHER                              -> <<"junk", a + 4>>]

\* What a core takes for the size of a device tree, and the last unit of it that
\* its copy loop, which compares behind the copy, may get to.
DtLength(c) == FirmwareMem[DtPointer[c] + 1][2]
DtExtent(c) == IF DtLength(c) = 0 THEN 1 ELSE DtLength(c)

ASSUME BootAssumption ==
    /\ BootCore \in Cores /\ DtPointer \in [Cores -> Nat]
    /\ DtPointer[BootCore] = DtAt
    /\ {MemSize, Load, Link, BinarySize, BssStart, BssEnd, Parking, DtAt,
        DtSize, PayloadSize} \subseteq Nat
    /\ DtSize > 1 /\ Parking \in 3..BinarySize-1
    /\ BinarySize % 2 = 0 /\ BssStart % 4 = 0 /\ BssEnd % 4 = 0
    \* chainloader.ld: binary, BSS and device tree in this order, away from
    \* the load address; the device tree where the firmware put it is neither
    \* in the loader nor in the way of it.
    /\ Load + BinarySize <= Link
    /\ Link + BinarySize <= BssStart /\ BssStart <= BssEnd
    /\ BssEnd + DtSize + 1 <= MemSize
    /\ DtAt + DtSize < Load \/ BssEnd + DtSize + 1 <= DtAt
    /\ DtAt + DtSize + 1 <= MemSize
    /\ Load + PayloadSize <= Link
    \* What the other cores have in x0 is up to the firmware.  Wherever it points,
    \* the copy made of it stays in memory, and no core copies over what another
    \* one is reading: nothing in the code sees to that.
    /\ \A c \in Cores :
         /\ DtPointer[c] + 1 < MemSize
         /\ DtPointer[c] + DtExtent(c) < MemSize /\ BssEnd + DtExtent(c) < MemSize
         /\ \/ DtPointer[c] + DtExtent(c) < Load
            \/ \A d \in Cores : BssEnd + DtExtent(d) < DtPointer[c]

VARIABLES
    mem,
    cpc,            \* per core: the label it executes
    x0, x1, x2,     \* per core: the registers of the copy loops
    filled          \* units of the payload written by the relocated loader

core == <<cpc, x0, x1, x2>>
bootVars == <<mem, core, filled>>

BootInit ==
    /\ mem = FirmwareMem
    /\ cpc = [c \in Cores |-> "_start"]
    /\ x0 = DtPointer
    /\ x1 = [c \in Cores |-> 0] /\ x2 = [c \in Cores |-> 0]
    /\ filled = 0

\* Where in the binary the code of a label is, for the labels that execute at
\* the load address before the boot core branches away.
Offset == [l \in {"_start", "dt_copy", "core_check", "parked"} |->
              CASE l = "_start" -> 0 [] l = "dt_copy" -> 1
                [] l = "core_check" -> 2 [] OTHER -> Parking]
CodeThere(c) ==
    cpc[c] \in DOMAIN Offset =>
        mem[Load + Offset[cpc[c]]] = <<"bin", Offset[cpc[c]]>>

Goto(c, label) == cpc' = [cpc EXCEPT ![c] = label]

\* Store two units at a (str x3, [x1], #8).
Store(a, u, v) == mem' = [mem EXCEPT ![a] = u, ![a + 1] = v]

\* ldr w1, [x0, #4]; rev; x1 and x2 are the bounds of the copy.
DeviceTreeBounds(c) ==
    /\ cpc[c] = "_start"
    /\ x1' = [x1 EXCEPT ![c] = DtStart]
    /\ x2' = [x2 EXCEPT ![c] = DtStart + mem[x0[c] + 1][2]]
    /\ Goto(c, "dt_copy")
    /\ UNCHANGED <<mem, x0, filled>>

\* Fault variant: the copy stops when fewer than eight bytes are left.
DeviceTreeCopy_Short(c) ==
    /\ cpc[c] = "dt_copy"
    /\ Store(x1[c], mem[x0[c]], mem[x0[c] + 1])
    /\ x0' = [x0 EXCEPT ![c] = @ + 2]
    /\ x1' = [x1 EXCEPT ![c] = @ + 2]
    /\ Goto(c, IF x1[c] + 4 <= x2[c] THEN "dt_copy" ELSE "core_check")
    /\ UNCHANGED <<x2, filled>>

DeviceTreeCopy(c) ==
    /\ cpc[c] = "dt_copy"
    /\ Store(x1[c], mem[x0[c]], mem[x0[c] + 1])
    /\ x0' = [x0 EXCEPT ![c] = @ + 2]
    /\ x1' = [x1 EXCEPT ![c] = @ + 2]
    /\ Goto(c, IF x1[c] + 2 < x2[c] THEN "dt_copy" ELSE "core_check")
    /\ UNCHANGED <<x2, filled>>

\* Fault variant: the condition of the branch is inverted.
CoreCheck_Inverted(c) ==
    /\ cpc[c] = "core_check"
    /\ IF c # BootCore
       THEN /\ Goto(c, "bss_init")
            /\ x0' = [x0 EXCEPT ![c] = BssStart]
            /\ x1' = [x1 EXCEPT ![c] = BssEnd]
       ELSE Goto(c, "parked") /\ UNCHANGED <<x0, x1>>
    /\ UNCHANGED <<mem, x2, filled>>

CoreCheck(c) ==
    /\ cpc[c] = "core_check"
    /\ IF c = BootCore
       THEN /\ Goto(c, "bss_init")
            /\ x0' = [x0 EXCEPT ![c] = BssStart]
            /\ x1' = [x1 EXCEPT ![c] = BssEnd]
       ELSE Goto(c, "parked") /\ UNCHANGED <<x0, x1>>
    /\ UNCHANGED <<mem, x2, filled>>

BssInit(c) ==
    /\ cpc[c] = "bss_init" /\ x0[c] # x1[c]
    /\ mem' = [a \in Addr |->
                  IF a \in x0[c]..x0[c] + 3 THEN <<"zero", 0>> ELSE mem[a]]
    /\ x0' = [x0 EXCEPT ![c] = @ + 4]
    /\ UNCHANGED <<cpc, x1, x2, filled>>

\* Fault variant: source and destination of the relocation swapped.
BssDone_Swapped(c) ==
    /\ cpc[c] = "bss_init" /\ x0[c] = x1[c]
    /\ x0' = [x0 EXCEPT ![c] = Link]
    /\ x1' = [x1 EXCEPT ![c] = Load]
    /\ x2' = [x2 EXCEPT ![c] = Load + BinarySize]
    /\ Goto(c, "relocate")
    /\ UNCHANGED <<mem, filled>>

BssDone(c) ==
    /\ cpc[c] = "bss_init" /\ x0[c] = x1[c]
    /\ x0' = [x0 EXCEPT ![c] = Load]
    /\ x1' = [x1 EXCEPT ![c] = Link]
    /\ x2' = [x2 EXCEPT ![c] = Link + BinarySize]
    /\ Goto(c, "relocate")
    /\ UNCHANGED <<mem, filled>>

\* Fault variant: the last eight bytes are left behind.
Relocate_Short(c) ==
    /\ cpc[c] = "relocate"
    /\ Store(x1[c], mem[x0[c]], mem[x0[c] + 1])
    /\ x1' = [x1 EXCEPT ![c] = @ + 2]
    /\ IF x1[c] + 4 < x2[c]
       THEN cpc' = cpc /\ x0' = [x0 EXCEPT ![c] = @ + 2]
       ELSE Goto(c, "_start_rust") /\ x0' = [x0 EXCEPT ![c] = DtStart]
    /\ UNCHANGED <<x2, filled>>

\* The copy loop, and behind it the branch to _start_rust with x0 on the copy
\* of the device tree.
Relocate(c) ==
    /\ cpc[c] = "relocate"
    /\ Store(x1[c], mem[x0[c]], mem[x0[c] + 1])
    /\ x1' = [x1 EXCEPT ![c] = @ + 2]
    /\ IF x1[c] + 2 < x2[c]
       THEN cpc' = cpc /\ x0' = [x0 EXCEPT ![c] = @ + 2]
       ELSE Goto(c, "_start_rust") /\ x0' = [x0 EXCEPT ![c] = DtStart]
    /\ UNCHANGED <<x2, filled>>

\* chainloader.rs::run, as far as memory is concerned.
WritePayload(c) ==
    /\ cpc[c] = "_start_rust" /\ filled < PayloadSize
    /\ mem' = [mem EXCEPT ![Load + filled] = <<"payload", filled>>]
    /\ filled' = filled + 1
    /\ UNCHANGED core

JumpToKernel(c) ==
    /\ cpc[c] = "_start_rust" /\ filled = PayloadSize
    /\ Goto(c, "kernel")
    /\ UNCHANGED <<mem, x0, x1, x2, filled>>

\* A core fetches what the payload has put in the place of its code.
Derail(c) ==
    /\ ~CodeThere(c)
    /\ Goto(c, "derailed")
    /\ UNCHANGED <<mem, x0, x1, x2, filled>>

Step(c) ==
    \/ /\ CodeThere(c)
       /\ \/ DeviceTreeBounds(c) \/ DeviceTreeCopy(c) \/ CoreCheck(c)
          \/ BssInit(c) \/ BssDone(c) \/ Relocate(c)
          \/ WritePayload(c) \/ JumpToKernel(c)
    \/ Derail(c)

BootNext == \E c \in Cores : Step(c)

BootSpec == BootInit /\ [][BootNext]_bootVars /\ \A c \in Cores : WF_bootVars(Step(c))

-----------------------------------------------------------------------------
(* Properties.                                                             *)

Relocated(c) == cpc[c] \in {"_start_rust", "kernel"}

\* chainloader.s:19, "Preserve the firmware device tree": the relocated loader,
\* and the kernel after it, find it whole where x0 points.  All cores copy before
\* the check that lets one of them through, so that this is true only if every
\* core that arrives has that device tree in x0.
DeviceTreePreserved ==
    Relocated(BootCore) =>
        /\ x0[BootCore] = DtStart
        /\ \A i \in 0..DtSize-1 : mem[DtStart + i] = FirmwareMem[DtAt + i]

\* What is left when the other cores arrive with anything else in x0: each unit
\* of the copy is that unit of what some core found where its x0 pointed.  The
\* copy is complete although it moves eight bytes at a time, and neither the BSS
\* nor the binary nor the payload, and no copy out of step, falls on it.
Candidates(i) ==
    {FirmwareMem[DtPointer[c] + i] : c \in {d \in Cores : i <= DtExtent(d)}}
CopyOfSources ==
    Relocated(BootCore) =>
        /\ x0[BootCore] = DtStart
        /\ \A i \in 0..DtSize-1 : mem[DtStart + i] \in Candidates(i)

\* The loader that is entered is the loader that was loaded, with a zero BSS,
\* and it stays so while it writes the payload over its old place.
LoaderRelocated ==
    Relocated(BootCore) =>
        /\ \A i \in 0..BinarySize-1 : mem[Link + i] = <<"bin", i>>
        /\ \A a \in BssStart..BssEnd-1 : mem[a] = <<"zero", 0>>

\* Until the first byte of the payload is written every core, parked or not,
\* executes an unchanged loader: nothing that is copied or cleared falls on it.
ExecutesIntactCode ==
    filled = 0 => \A i \in 0..BinarySize-1 : mem[Load + i] = <<"bin", i>>

\* The boot core gets to the kernel, and every other core to its parking loop
\* (which lies at the load address, so that the payload may overwrite it).
BootCompletes ==
    <>(/\ cpc[BootCore] = "kernel"
       /\ \A c \in Cores \ {BootCore} : cpc[c] \in {"parked", "derailed"})
=============================================================================
