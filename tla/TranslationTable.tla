-------------------------- MODULE TranslationTable --------------------------
(***************************************************************************)
(* enable_mmu_and_caching: the checks, the memory attribute register, the  *)
(* two nested loops that fill the level 2 and level 3 tables, the table    *)
(* base, the translation control register and the bit that turns the MMU   *)
(* on - and the walk the hardware does from then on.                       *)
(*                                                                         *)
(* NumTables level 2 entries (8), each for a level 3 table of Entries      *)
(* (8192) pages of PageSize (64 KiB) bytes.                                *)
(***************************************************************************)
EXTENDS VirtualLayout

CONSTANTS NumTables, Entries, PageSize,
          Layouts,          \* the virtual memory layouts BSPs define
          MaxVirtAddrs,     \* and their max_virt_addr_inclusive
          TablesAt          \* physical address of KERNEL_TABLES

ASSUME TableAssumption ==
    /\ NumTables \in Nat \ {0} /\ Entries \in Nat \ {0}
    /\ PageSize \in Nat \ {0}
    /\ Layouts \subseteq Seq(Descriptor)
    /\ MaxVirtAddrs \subseteq Nat /\ TablesAt \in Nat

VARIABLES Layout, MaxVirtAddr,  \* those of this BSP
          lvl2, lvl3,           \* the tables in .bss
          mair, ttbr0, tcr, sctlr_m,
          pc, l2_nr, l3_nr,
          granule64             \* ID_AA64MMFR0_EL1: 64 KiB granule supported

bsp    == <<Layout, MaxVirtAddr, granule64>>
tables == <<lvl2, lvl3>>
vars   == <<bsp, tables, mair, ttbr0, tcr, sctlr_m, pc, l2_nr, l3_nr>>

L2 == 0..NumTables-1
L3 == 0..Entries-1

Invalid == [valid |-> FALSE]

\* Table and page descriptors.  The output address fields of both hold the
\* address without its 16 low bits.
TableDescriptor(addr) == [valid |-> TRUE, next |-> addr \div PageSize]

\* Fault variant: PXN inverted.
PageDescriptor_Pxn(addr, attrs) ==
    [valid |-> TRUE, out |-> addr \div PageSize,
     attrIndx |-> IF attrs.mem = "Device" THEN 0 ELSE 1,
     ap |-> IF attrs.perms = "ReadOnly" THEN "RO_EL1" ELSE "RW_EL1",
     pxn |-> ~attrs.execute_never, uxn |-> TRUE]

PageDescriptor(addr, attrs) ==
    [valid |-> TRUE, out |-> addr \div PageSize,
     attrIndx |-> IF attrs.mem = "Device" THEN 0 ELSE 1,
     ap |-> IF attrs.perms = "ReadOnly" THEN "RO_EL1" ELSE "RW_EL1",
     pxn |-> attrs.execute_never, uxn |-> TRUE]

Lvl3At(l2) == TablesAt + l2 * Entries * 8
Lvl2At     == Lvl3At(NumTables)

VirtAddr(l2, l3) == (l2 * Entries + l3) * PageSize

Init ==
    /\ Layout \in Layouts /\ MaxVirtAddr \in MaxVirtAddrs
    /\ lvl2 = [i \in L2 |-> Invalid]
    /\ lvl3 = [i \in L2 |-> [j \in L3 |-> Invalid]]
    /\ mair = <<>> /\ ttbr0 = 0 /\ tcr = FALSE /\ sctlr_m = FALSE
    /\ pc = "check" /\ l2_nr = 0 /\ l3_nr = 0
    /\ granule64 \in BOOLEAN

\* Fault variant: the granule check is inverted.
Check_Inverted ==
    /\ pc = "check"
    /\ pc' = IF sctlr_m \/ granule64 THEN "error" ELSE "mair"
    /\ UNCHANGED <<bsp, tables, mair, ttbr0, tcr, sctlr_m, l2_nr, l3_nr>>

Check ==
    /\ pc = "check"
    /\ pc' = IF sctlr_m \/ ~granule64 THEN "error" ELSE "mair"
    /\ UNCHANGED <<bsp, tables, mair, ttbr0, tcr, sctlr_m, l2_nr, l3_nr>>

SetUpMair ==
    /\ pc = "mair"
    /\ mair' = <<"Device", "CacheableDRAM">>
    /\ pc' = "lvl2"
    /\ UNCHANGED <<bsp, tables, ttbr0, tcr, sctlr_m, l2_nr, l3_nr>>

\* Fault variant: the inner loop goes on where it stopped in the last table.
FillLvl2Entry_NoReset ==
    /\ pc = "lvl2" /\ l2_nr < NumTables
    /\ lvl2' = [lvl2 EXCEPT ![l2_nr] = TableDescriptor(Lvl3At(l2_nr))]
    /\ pc' = "lvl3"
    /\ UNCHANGED <<bsp, lvl3, mair, ttbr0, tcr, sctlr_m, l2_nr, l3_nr>>

FillLvl2Entry ==
    /\ pc = "lvl2" /\ l2_nr < NumTables
    /\ lvl2' = [lvl2 EXCEPT ![l2_nr] = TableDescriptor(Lvl3At(l2_nr))]
    /\ pc' = "lvl3" /\ l3_nr' = 0
    /\ UNCHANGED <<bsp, lvl3, mair, ttbr0, tcr, sctlr_m, l2_nr>>

FillLvl3Entry ==
    /\ pc = "lvl3" /\ l3_nr < Entries
    /\ LET virt_addr == VirtAddr(l2_nr, l3_nr)
           props     == VirtAddrProperties(Layout, virt_addr)
       IN  IF virt_addr > MaxVirtAddr
           THEN pc' = "error" /\ UNCHANGED <<lvl3, l3_nr>>
           ELSE /\ lvl3' = [lvl3 EXCEPT ![l2_nr] = [@ EXCEPT ![l3_nr] =
                                PageDescriptor(props.out, props.attrs)]]
                /\ l3_nr' = l3_nr + 1 /\ pc' = pc
    /\ UNCHANGED <<bsp, lvl2, mair, ttbr0, tcr, sctlr_m, l2_nr>>

NextLvl2Entry ==
    /\ pc = "lvl3" /\ l3_nr = Entries
    /\ l2_nr' = l2_nr + 1 /\ pc' = "lvl2"
    /\ UNCHANGED <<bsp, tables, mair, ttbr0, tcr, sctlr_m, l3_nr>>

SetTtbr0 ==
    /\ pc = "lvl2" /\ l2_nr = NumTables
    /\ ttbr0' = Lvl2At
    /\ pc' = "tcr"
    /\ UNCHANGED <<bsp, tables, mair, tcr, sctlr_m, l2_nr, l3_nr>>

ConfigureTranslationControl ==
    /\ pc = "tcr"
    /\ tcr' = TRUE
    /\ pc' = "on"
    /\ UNCHANGED <<bsp, tables, mair, ttbr0, sctlr_m, l2_nr, l3_nr>>

EnableMmu ==
    /\ pc = "on"
    /\ sctlr_m' = TRUE
    /\ pc' = "done"
    /\ UNCHANGED <<bsp, tables, mair, ttbr0, tcr, l2_nr, l3_nr>>

Next ==
    \/ Check \/ SetUpMair \/ FillLvl2Entry \/ FillLvl3Entry \/ NextLvl2Entry
    \/ SetTtbr0 \/ ConfigureTranslationControl \/ EnableMmu

Spec == Init /\ [][Next]_vars /\ WF_vars(Next)

-----------------------------------------------------------------------------
(* The walk of the hardware, from the registers and tables alone.          *)

Mapped(va) ==
    LET l2 == va \div (Entries * PageSize)
        l3 == (va \div PageSize) % Entries
    IN  /\ tcr /\ ttbr0 = Lvl2At /\ l2 \in L2
        /\ lvl2[l2].valid /\ lvl2[l2].next = Lvl3At(l2) \div PageSize
        /\ lvl3[l2][l3].valid

Translate(va) ==
    LET d == lvl3[va \div (Entries * PageSize)][(va \div PageSize) % Entries]
    IN  [out   |-> d.out * PageSize + (va % PageSize),
         attrs |-> [mem           |-> mair[d.attrIndx + 1],
                    perms         |-> IF d.ap = "RO_EL1" THEN "ReadOnly" ELSE "ReadWrite",
                    execute_never |-> d.pxn]]

-----------------------------------------------------------------------------
(* Properties.                                                             *)

Entry(l2, l3) ==
    LET props == VirtAddrProperties(Layout, VirtAddr(l2, l3))
    IN  PageDescriptor(props.out, props.attrs)

TableDescriptors == {Invalid} \cup [valid : {TRUE}, next : Nat]
PageDescriptors  == {Invalid} \cup
    [valid : {TRUE}, out : Nat, attrIndx : {0, 1}, ap : {"RO_EL1", "RW_EL1"},
     pxn : BOOLEAN, uxn : {TRUE}]

\* Every variable holds a value of its type.
TypeOK ==
    /\ Layout \in Layouts /\ MaxVirtAddr \in MaxVirtAddrs
    /\ lvl2 \in [L2 -> TableDescriptors]
    /\ lvl3 \in [L2 -> [L3 -> PageDescriptors]]
    /\ mair \in {<<>>, <<"Device", "CacheableDRAM">>} /\ ttbr0 \in {0, Lvl2At}
    /\ tcr \in BOOLEAN /\ sctlr_m \in BOOLEAN /\ granule64 \in BOOLEAN
    /\ pc \in {"check", "mair", "lvl2", "lvl3", "tcr", "on", "done", "error"}
    /\ l2_nr \in 0..NumTables /\ l3_nr \in 0..Entries

\* The loops fill the tables in order and leave no entry out: those before
\* their position hold what the layout says, those behind it are invalid.
FilledSoFar ==
    \A i \in L2, j \in L3 :
        IF i < l2_nr \/ (i = l2_nr /\ pc # "lvl2" /\ j < l3_nr)
        THEN lvl3[i][j] = Entry(i, j) /\ lvl2[i] = TableDescriptor(Lvl3At(i))
        ELSE lvl3[i][j] = Invalid

\* With the MMU on, every address of the address space translates to what the
\* layout says of that very address - not only of the first one of its page -
\* provided the ranges of the layout are made of whole pages.
Size == NumTables * Entries * PageSize
WholePages ==
    \A i \in 1..Len(Layout) :
        /\ Layout[i].first % PageSize = 0 /\ (Layout[i].last + 1) % PageSize = 0
        /\ Layout[i].phys % PageSize = 0
LayoutInForce ==
    sctlr_m /\ WholePages =>
        \A va \in 0..Size-1 :
            Mapped(va) /\ Translate(va) = VirtAddrProperties(Layout, va)

\* The MMU is turned on with complete tables or not at all: no entry is
\* invalid, and an early return leaves the translation off.
AllOrNothing ==
    /\ sctlr_m => \A i \in L2, j \in L3 : lvl2[i].valid /\ lvl3[i][j].valid
    /\ pc = "error" => ~sctlr_m /\ ttbr0 = 0

\* No page is both writable and executable once the MMU is on, if no range of
\* the layout is: the default and the conversion of attributes add none.
NoWritableCode ==
    (\A i \in 1..Len(Layout) :
        Layout[i].attrs.perms = "ReadOnly" \/ Layout[i].attrs.execute_never)
    => \A i \in L2, j \in L3 :
          lvl3[i][j].valid => lvl3[i][j].ap = "RO_EL1" \/ lvl3[i][j].pxn

\* The MMU comes on whenever the hardware supports the granule and the layout
\* covers the address space; the loops end.
ComesOn == granule64 /\ MaxVirtAddr >= Size - 1 ~> sctlr_m
=============================================================================
