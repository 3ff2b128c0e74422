----------------------- MODULE TranslationTable_proofs ----------------------
(***************************************************************************)
(* Proofs about enable_mmu_and_caching, for every size of the tables, every *)
(* page size and every layout: the tables are filled in order, the MMU     *)
(* comes on with complete tables only, and once it is on the hardware's    *)
(* walk gives every address what the layout says of it.                    *)
(***************************************************************************)
EXTENDS TranslationTable, TLAPS, WellFoundedInduction

\* A non-empty set of numbers has a smallest one.
LEMMA SmallestNat ==
    ASSUME NEW T \in SUBSET Nat, T # {}
    PROVE  \E m \in T : \A k \in T : m <= k
<1>1. PICK m \in T : \A k \in T : ~(<<k, m>> \in OpToRel(<, Nat))
  BY WFMin, NatLessThanWellFounded
<1>2. \A k \in T : ~(k < m)
  BY <1>1 DEF OpToRel
<1> QED
  BY <1>2

-----------------------------------------------------------------------------
(* Division by a page size.                                                *)

\* Quotient and remainder.
LEMMA DivMod ==
    ASSUME NEW a \in Nat, NEW p \in Nat \ {0}
    PROVE  /\ a \div p \in Nat /\ a % p \in 0..p-1
           /\ a = p * (a \div p) + (a % p)
OBVIOUS

\* Quotient and remainder are unique.
LEMMA DivModUnique ==
    ASSUME NEW q \in Nat, NEW p \in Nat \ {0}, NEW r \in 0..p-1
    PROVE  (q * p + r) \div p = q /\ (q * p + r) % p = r
OBVIOUS

\* Multiples of p added and subtracted give a multiple of p.
LEMMA MultipleSum ==
    ASSUME NEW p \in Nat \ {0}, NEW a \in Nat, NEW b \in Nat, NEW c \in Nat,
           a % p = 0, b % p = 0, c % p = 0, c <= b
    PROVE  (a + (b - c)) % p = 0
<1>1. PICK x \in Nat, y \in Nat, z \in Nat : a = p * x /\ b = p * y /\ c = p * z
  <2>1. a = p * (a \div p) /\ b = p * (b \div p) /\ c = p * (c \div p)
    BY DivMod
  <2> QED
    BY <2>1, DivMod
<1>2. z <= y
  BY <1>1
<1>3. x + (y - z) \in Nat /\ a + (b - c) = (x + (y - z)) * p + 0
  BY <1>1, <1>2
<1>4. ((x + (y - z)) * p + 0) % p = 0
  BY <1>3, DivModUnique
<1> QED
  BY <1>3, <1>4

\* An offset into a range grows with the address.
LEMMA OffsetSum ==
    ASSUME NEW a \in Nat, NEW b \in Nat, NEW r \in Nat, NEW first \in Nat,
           NEW phys \in Nat, a = b + r, first <= b
    PROVE  phys + (a - first) = (phys + (b - first)) + r
OBVIOUS

\* The first address of the page of an address.
PageStart(a, p) == p * (a \div p)

\* The page start is the multiple of p at most a page below the address.
LEMMA PageStartProperties ==
    ASSUME NEW a \in Nat, NEW p \in Nat \ {0}
    PROVE  /\ PageStart(a, p) \in Nat /\ PageStart(a, p) <= a
           /\ a = PageStart(a, p) + (a % p) /\ a % p \in 0..p-1
           /\ PageStart(a, p) % p = 0
<1>1. a \div p \in Nat /\ a % p \in 0..p-1 /\ a = p * (a \div p) + (a % p)
  BY DivMod
<1>2. ((a \div p) * p + 0) % p = 0
  BY <1>1, DivModUnique
<1>3. (a \div p) * p + 0 = p * (a \div p) /\ p * (a \div p) \in Nat
  BY <1>1
<1> QED
  BY <1>1, <1>2, <1>3 DEF PageStart

\* A multiple of p is below an address exactly if it is below its page.
LEMMA MultipleBelow ==
    ASSUME NEW a \in Nat, NEW p \in Nat \ {0}, NEW m \in Nat, m % p = 0
    PROVE  m <= a <=> m <= PageStart(a, p)
<1>1. m = p * (m \div p) /\ m \div p \in Nat
  BY DivMod
<1>2. PageStart(a, p) = p * (a \div p) /\ a \div p \in Nat
  BY DivMod DEF PageStart
<1>3. PageStart(a, p) <= a /\ a < PageStart(a, p) + p /\ PageStart(a, p) \in Nat
  BY PageStartProperties
<1>4. ASSUME m <= a, ~(m \div p <= a \div p) PROVE FALSE
  <2>1. m \div p >= (a \div p) + 1
    BY <1>1, <1>2, <1>4
  <2>2. p * (m \div p) >= p * ((a \div p) + 1)
    BY <1>1, <1>2, <2>1
  <2>3. p * ((a \div p) + 1) = p * (a \div p) + p
    BY <1>2
  <2> QED
    BY <1>1, <1>2, <1>3, <1>4, <2>2, <2>3
<1>5. m \div p <= a \div p => m <= PageStart(a, p)
  BY <1>1, <1>2
<1> QED
  BY <1>1, <1>2, <1>3, <1>4, <1>5

-----------------------------------------------------------------------------
(* The descriptor that decides.                                            *)

\* virt_addr_properties stops at a descriptor that contains the address, the
\* first one.
LEMMA OwnerProperties ==
    ASSUME NEW layout \in Seq(Descriptor), NEW addr \in Nat,
           \E i \in 1..Len(layout) : Contains(layout[i], addr)
    PROVE  /\ Owner(layout, addr) \in 1..Len(layout)
           /\ Contains(layout[Owner(layout, addr)], addr)
           /\ \A j \in 1..Owner(layout, addr)-1 : ~Contains(layout[j], addr)
<1> DEFINE T == {i \in 1..Len(layout) : Contains(layout[i], addr)}
<1>1. T \in SUBSET Nat /\ T # {}
  OBVIOUS
<1>2. PICK m \in T : \A k \in T : m <= k
  BY <1>1, SmallestNat
<1>3. /\ m \in 1..Len(layout) /\ Contains(layout[m], addr)
      /\ \A j \in 1..m-1 : ~Contains(layout[j], addr)
  BY <1>2
<1> QED
  BY <1>3 DEF Owner

\* There is one such descriptor.
LEMMA OwnerUnique ==
    ASSUME NEW layout \in Seq(Descriptor), NEW addr \in Nat,
           NEW m \in 1..Len(layout), Contains(layout[m], addr),
           \A j \in 1..m-1 : ~Contains(layout[j], addr)
    PROVE  Owner(layout, addr) = m
<1>1. /\ Owner(layout, addr) \in 1..Len(layout)
      /\ Contains(layout[Owner(layout, addr)], addr)
      /\ \A j \in 1..Owner(layout, addr)-1 : ~Contains(layout[j], addr)
  BY OwnerProperties
<1> QED
  BY <1>1

\* A descriptor translates the addresses it contains to natural numbers.
LEMMA OutputType ==
    ASSUME NEW d \in Descriptor, NEW addr \in Nat, Contains(d, addr)
    PROVE  OutputAddr(d, addr) \in Nat /\ d.attrs \in AttributeFields
<1>1. d.first \in Nat /\ d.phys \in Nat /\ d.attrs \in AttributeFields
  BY DEF Descriptor
<1>2. addr - d.first \in Nat
  BY <1>1 DEF Contains
<1> QED
  BY <1>1, <1>2 DEF OutputAddr

\* A look-up returns an address and attributes.
LEMMA LookupType ==
    ASSUME NEW layout \in Seq(Descriptor), NEW addr \in Nat
    PROVE  VirtAddrProperties(layout, addr) \in [out : Nat, attrs : AttributeFields]
<1>1. CASE \E i \in 1..Len(layout) : Contains(layout[i], addr)
  <2> DEFINE d == layout[Owner(layout, addr)]
  <2>1. d \in Descriptor /\ Contains(d, addr)
    BY <1>1, OwnerProperties
  <2>2. OutputAddr(d, addr) \in Nat /\ d.attrs \in AttributeFields
    BY <2>1, OutputType
  <2>3. VirtAddrProperties(layout, addr) = [out |-> OutputAddr(d, addr), attrs |-> d.attrs]
    BY <1>1 DEF VirtAddrProperties
  <2> QED
    BY <2>2, <2>3
<1>2. CASE ~\E i \in 1..Len(layout) : Contains(layout[i], addr)
  BY <1>2 DEF VirtAddrProperties, DefaultAttributes, AttributeFields
<1> QED
  BY <1>1, <1>2

-----------------------------------------------------------------------------
(* Whole pages.                                                            *)

WholePagesOf(layout, p) ==
    \A i \in 1..Len(layout) :
        /\ layout[i].first % p = 0 /\ (layout[i].last + 1) % p = 0
        /\ layout[i].phys % p = 0

\* A range of whole pages contains an address exactly if it contains the start
\* of its page.
LEMMA SameOwner ==
    ASSUME NEW layout \in Seq(Descriptor), NEW p \in Nat \ {0},
           WholePagesOf(layout, p), NEW a \in Nat, NEW i \in 1..Len(layout)
    PROVE  Contains(layout[i], a) <=> Contains(layout[i], PageStart(a, p))
<1> DEFINE d == layout[i]
<1>1. d.first \in Nat /\ d.last \in Nat /\ d.last + 1 \in Nat
  <2>1. layout[i] \in Descriptor
    OBVIOUS
  <2> QED
    BY <2>1 DEF Descriptor
<1>2. d.first % p = 0 /\ (d.last + 1) % p = 0
  BY DEF WholePagesOf
<1>3. d.first <= a <=> d.first <= PageStart(a, p)
  BY <1>1, <1>2, MultipleBelow
<1>4. d.last + 1 <= a <=> d.last + 1 <= PageStart(a, p)
  BY <1>1, <1>2, MultipleBelow
<1>5. PageStart(a, p) \in Nat
  BY PageStartProperties
<1> QED
  BY <1>1, <1>3, <1>4, <1>5 DEF Contains

\* The look-up of an address is the look-up of its page, at the same offset.
LEMMA LookupByPage ==
    ASSUME NEW layout \in Seq(Descriptor), NEW p \in Nat \ {0},
           WholePagesOf(layout, p), NEW a \in Nat
    PROVE  LET page == VirtAddrProperties(layout, PageStart(a, p))
           IN  /\ page.out % p = 0
               /\ VirtAddrProperties(layout, a)
                    = [out |-> page.out + (a % p), attrs |-> page.attrs]
<1> DEFINE b == PageStart(a, p)
<1>1. b \in Nat /\ b <= a /\ a = b + (a % p) /\ a % p \in 0..p-1 /\ b % p = 0
  BY PageStartProperties
<1>2. \A i \in 1..Len(layout) : Contains(layout[i], a) <=> Contains(layout[i], b)
  BY SameOwner
<1> HIDE DEF b
<1>3. CASE \E i \in 1..Len(layout) : Contains(layout[i], b)
  <2> DEFINE o == Owner(layout, b)
             d == layout[o]
  <2>1. /\ o \in 1..Len(layout) /\ Contains(layout[o], b)
        /\ \A j \in 1..o-1 : ~Contains(layout[j], b)
    BY <1>1, <1>3, OwnerProperties
  <2>2. Contains(layout[o], a) /\ \A j \in 1..o-1 : ~Contains(layout[j], a)
    BY <1>2, <2>1
  <2>3. Owner(layout, a) = o
    BY <2>1, <2>2, OwnerUnique
  <2>4. /\ d.first % p = 0 /\ d.phys % p = 0
        /\ d.first \in Nat /\ d.phys \in Nat /\ d.first <= b /\ d.offset \in BOOLEAN
    <3>1. d \in Descriptor
      BY <2>1
    <3>2. d.first % p = 0 /\ d.phys % p = 0 /\ d.first <= b
      BY <2>1 DEF WholePagesOf, Contains
    <3> QED
      BY <3>1, <3>2 DEF Descriptor
  <2>5. /\ VirtAddrProperties(layout, b) = [out |-> OutputAddr(d, b), attrs |-> d.attrs]
        /\ VirtAddrProperties(layout, a) = [out |-> OutputAddr(d, a), attrs |-> d.attrs]
    BY <1>2, <1>3, <2>3 DEF VirtAddrProperties
  <2>6. OutputAddr(d, a) = OutputAddr(d, b) + (a % p)
    <3> HIDE DEF d
    <3>1. CASE d.offset
      <4>1. OutputAddr(d, a) = d.phys + (a - d.first)
        BY <3>1 DEF OutputAddr
      <4>2. OutputAddr(d, b) = d.phys + (b - d.first)
        BY <3>1 DEF OutputAddr
      <4>3. a % p \in Nat
        BY <1>1
      <4>4. PICK f \in Nat, q \in Nat : f = d.first /\ q = d.phys
        BY <2>4
      <4>5. PICK r \in Nat : r = a % p
        BY <4>3
      <4>6. f <= b /\ a = b + r /\ b \in Nat
        BY <1>1, <2>4, <4>4, <4>5
      <4>7. q + (a - f) = (q + (b - f)) + r
        BY ONLY <4>6, a \in Nat, f \in Nat, q \in Nat, r \in Nat, OffsetSum
      <4> QED
        BY <4>1, <4>2, <4>4, <4>5, <4>7
    <3>2. CASE ~d.offset
      BY <1>1, <3>2 DEF OutputAddr
    <3> QED
      BY <3>1, <3>2
  <2>7. OutputAddr(d, b) % p = 0
    <3>1. (d.phys + (b - d.first)) % p = 0
      BY <1>1, <2>4, MultipleSum
    <3> QED
      BY <1>1, <3>1 DEF OutputAddr
  <2> QED
    BY <2>5, <2>6, <2>7 DEF b
<1>4. CASE ~\E i \in 1..Len(layout) : Contains(layout[i], b)
  <2>1. /\ VirtAddrProperties(layout, b) = [out |-> b, attrs |-> DefaultAttributes]
        /\ VirtAddrProperties(layout, a) = [out |-> a, attrs |-> DefaultAttributes]
    BY <1>2, <1>4 DEF VirtAddrProperties
  <2> QED
    BY <1>1, <2>1 DEF b
<1> QED
  BY <1>3, <1>4

-----------------------------------------------------------------------------
(* How far enable_mmu_and_caching has come, told by its position.          *)
Sequencing ==
    /\ pc \in {"check", "mair"} => l2_nr = 0 /\ l3_nr = 0
    /\ pc = "lvl3" => l2_nr < NumTables
                      /\ lvl2[l2_nr] = TableDescriptor(Lvl3At(l2_nr))
    /\ pc \in {"tcr", "on", "done"} => l2_nr = NumTables /\ ttbr0 = Lvl2At
    /\ pc \notin {"tcr", "on", "done"} => ttbr0 = 0
    /\ pc \notin {"check", "mair", "error"} => mair = <<"Device", "CacheableDRAM">>
    /\ pc \in {"on", "done"} => tcr
    /\ sctlr_m <=> pc = "done"

IInv == TypeOK /\ FilledSoFar /\ Sequencing

-----------------------------------------------------------------------------
(* What the descriptors hold.                                              *)

\* The addresses of the tables and of the pages are natural numbers, and the
\* table descriptors hold natural numbers.
LEMMA Addresses ==
    ASSUME NEW i \in 0..NumTables, NEW j \in Nat
    PROVE  /\ Lvl3At(i) \in Nat /\ VirtAddr(i, j) \in Nat
           /\ TableDescriptor(Lvl3At(i)) \in TableDescriptors
           /\ TableDescriptor(Lvl3At(i)).valid
<1>1. i \in Nat /\ Entries \in Nat /\ PageSize \in Nat \ {0} /\ TablesAt \in Nat
  BY TableAssumption
<1>2. i * Entries \in Nat
  BY <1>1
<1>3. Lvl3At(i) \in Nat
  BY <1>1, <1>2 DEF Lvl3At
<1>4. VirtAddr(i, j) \in Nat
  <2>1. i * Entries + j \in Nat
    BY <1>2
  <2> QED
    BY <1>1, <2>1 DEF VirtAddr
<1>5. Lvl3At(i) \div PageSize \in Nat
  BY <1>1, <1>3, DivMod
<1> QED
  BY <1>3, <1>4, <1>5 DEF TableDescriptor, TableDescriptors

\* The conversion of a look-up's result is a valid page descriptor.
LEMMA PageDescriptorType ==
    ASSUME NEW addr \in Nat, NEW attrs \in AttributeFields
    PROVE  /\ PageDescriptor(addr, attrs) \in PageDescriptors
           /\ PageDescriptor(addr, attrs).valid
<1>1. addr \div PageSize \in Nat
  BY TableAssumption, DivMod
<1>2. attrs.execute_never \in BOOLEAN
  BY DEF AttributeFields
<1> QED
  BY <1>1, <1>2 DEF PageDescriptor, PageDescriptors

\* What the layout says of a page is a valid page descriptor.
LEMMA EntryType ==
    ASSUME TypeOK, NEW i \in L2, NEW j \in L3
    PROVE  Entry(i, j) \in PageDescriptors /\ Entry(i, j).valid
<1> DEFINE props == VirtAddrProperties(Layout, VirtAddr(i, j))
<1>1. Layout \in Seq(Descriptor)
  BY TableAssumption DEF TypeOK
<1>2. i \in 0..NumTables /\ j \in Nat
  BY TableAssumption DEF L2, L3
<1>3. props \in [out : Nat, attrs : AttributeFields]
  BY <1>1, <1>2, Addresses, LookupType
<1> QED
  BY <1>3, PageDescriptorType DEF Entry

-----------------------------------------------------------------------------
(* The inductive invariant.                                                *)

\* The tables start invalid and nothing has been set up.
THEOREM InitIInv == Init => IInv
<1> SUFFICES ASSUME Init PROVE IInv
  OBVIOUS
<1> USE TableAssumption
<1>1. TypeOK
  <2>1. Invalid \in TableDescriptors /\ Invalid \in PageDescriptors
    BY DEF TableDescriptors, PageDescriptors
  <2>2. lvl2 \in [L2 -> TableDescriptors]
    BY <2>1 DEF Init
  <2>3. lvl3 \in [L2 -> [L3 -> PageDescriptors]]
    BY <2>1 DEF Init
  <2>4. l2_nr \in 0..NumTables /\ l3_nr \in 0..Entries
    BY DEF Init
  <2> QED
    BY <2>2, <2>3, <2>4 DEF Init, TypeOK
<1>2. FilledSoFar
  BY DEF Init, FilledSoFar, L2, L3
<1>3. Sequencing
  BY DEF Init, Sequencing
<1> QED
  BY <1>1, <1>2, <1>3 DEF IInv

\* Every step of enable_mmu_and_caching preserves the invariant.
THEOREM NextIInv == IInv /\ [Next]_vars => IInv'
<1> SUFFICES ASSUME IInv, [Next]_vars PROVE IInv'
  OBVIOUS
<1> USE TableAssumption
<1>a. TypeOK /\ FilledSoFar /\ Sequencing
  BY DEF IInv
<1>b. ASSUME Layout' = Layout
      PROVE  \A i, j : Entry(i, j)' = Entry(i, j)
  BY <1>b DEF Entry
<1>1. CASE Check
  <2>1. TypeOK'
    BY <1>1, <1>a DEF Check, TypeOK, bsp, tables
  <2>2. FilledSoFar'
    BY <1>1, <1>a, <1>b DEF Check, FilledSoFar, Sequencing, bsp, tables
  <2>3. Sequencing'
    BY <1>1, <1>a DEF Check, Sequencing, bsp, tables
  <2> QED
    BY <2>1, <2>2, <2>3 DEF IInv
<1>2. CASE SetUpMair
  <2>1. TypeOK'
    BY <1>2, <1>a DEF SetUpMair, TypeOK, bsp, tables
  <2>2. FilledSoFar'
    <3>1. l2_nr = 0 /\ l3_nr = 0 /\ pc = "mair"
      BY <1>2, <1>a DEF SetUpMair, Sequencing
    <3>2. \A i \in L2, j \in L3 : lvl3[i][j] = Invalid
      BY <1>a, <3>1 DEF FilledSoFar, L2, L3
    <3>3. l2_nr' = 0 /\ lvl3' = lvl3 /\ pc' = "lvl2"
      BY <1>2, <3>1 DEF SetUpMair, bsp, tables
    <3> QED
      BY <3>2, <3>3 DEF FilledSoFar, L2
  <2>3. Sequencing'
    BY <1>2, <1>a DEF SetUpMair, Sequencing, bsp, tables
  <2> QED
    BY <2>1, <2>2, <2>3 DEF IInv
<1>3. CASE FillLvl2Entry
  <2>0. l2_nr \in L2 /\ l2_nr \in 0..NumTables
    BY <1>3, <1>a DEF FillLvl2Entry, TypeOK, L2
  <2>1. TypeOK'
    <3>1. TableDescriptor(Lvl3At(l2_nr)) \in TableDescriptors
      BY <2>0, Addresses
    <3> QED
      BY <1>3, <1>a, <2>0, <3>1 DEF FillLvl2Entry, TypeOK, bsp, tables
  <2>2. lvl2'[l2_nr] = TableDescriptor(Lvl3At(l2_nr))
    BY <1>3, <1>a, <2>0 DEF FillLvl2Entry, TypeOK
  <2>3. FilledSoFar'
    <3> SUFFICES ASSUME NEW i \in L2, NEW j \in L3
                 PROVE  IF i < l2_nr
                        THEN lvl3[i][j] = Entry(i, j)
                             /\ lvl2'[i] = TableDescriptor(Lvl3At(i))
                        ELSE lvl3[i][j] = Invalid
      BY <1>3, <1>a, <1>b DEF FillLvl2Entry, FilledSoFar, bsp, tables, L2, L3
    <3>1. CASE i < l2_nr
      <4>1. lvl2'[i] = lvl2[i]
        BY <1>3, <1>a, <2>0, <3>1 DEF FillLvl2Entry, TypeOK, L2
      <4> QED
        BY <1>a, <3>1, <4>1 DEF FilledSoFar
    <3>2. CASE ~(i < l2_nr)
      BY <1>3, <1>a, <3>2 DEF FillLvl2Entry, FilledSoFar
    <3> QED
      BY <3>1, <3>2
  <2>4. Sequencing'
    BY <1>3, <1>a, <2>2 DEF FillLvl2Entry, Sequencing, bsp, tables
  <2> QED
    BY <2>1, <2>3, <2>4 DEF IInv
<1>4. CASE FillLvl3Entry
  <2> DEFINE e == Entry(l2_nr, l3_nr)
  <2>0. /\ l2_nr \in L2 /\ l3_nr \in L3
        /\ pc = "lvl3" /\ lvl2[l2_nr] = TableDescriptor(Lvl3At(l2_nr))
    BY <1>4, <1>a DEF FillLvl3Entry, TypeOK, Sequencing, L2, L3
  <2>1. e \in PageDescriptors
    BY <1>a, <2>0, EntryType
  <2>2. /\ UNCHANGED <<Layout, MaxVirtAddr, granule64, lvl2, mair, ttbr0, tcr,
                       sctlr_m, l2_nr>>
        /\ \/ pc' = "error" /\ UNCHANGED <<lvl3, l3_nr>>
           \/ /\ lvl3' = [lvl3 EXCEPT ![l2_nr] = [@ EXCEPT ![l3_nr] = e]]
              /\ l3_nr' = l3_nr + 1 /\ pc' = "lvl3"
    BY <1>4, <2>0 DEF FillLvl3Entry, Entry, bsp
  <2> HIDE DEF e
  <2>3. CASE pc' = "error" /\ UNCHANGED <<lvl3, l3_nr>>
    <3>1. TypeOK'
      BY <1>a, <2>2, <2>3 DEF TypeOK
    <3>2. FilledSoFar'
      BY <1>a, <1>b, <2>0, <2>2, <2>3 DEF FilledSoFar
    <3>3. Sequencing'
      BY <1>a, <2>0, <2>2, <2>3 DEF Sequencing
    <3> QED
      BY <3>1, <3>2, <3>3 DEF IInv
  <2>4. CASE /\ lvl3' = [lvl3 EXCEPT ![l2_nr] = [@ EXCEPT ![l3_nr] = e]]
             /\ l3_nr' = l3_nr + 1 /\ pc' = "lvl3"
    <3>1. TypeOK'
      <4>1. lvl3' \in [L2 -> [L3 -> PageDescriptors]]
        BY <1>a, <2>0, <2>1, <2>4 DEF TypeOK
      <4>2. l3_nr' \in 0..Entries
        BY <2>0, <2>4 DEF L3
      <4> QED
        BY <1>a, <2>2, <2>4, <4>1, <4>2 DEF TypeOK
    <3>2. FilledSoFar'
      <4>1. \A i \in L2, j \in L3 :
               lvl3'[i][j] = IF i = l2_nr /\ j = l3_nr THEN e ELSE lvl3[i][j]
        BY <1>a, <2>0, <2>4 DEF TypeOK
      <4> SUFFICES ASSUME NEW i \in L2, NEW j \in L3
                   PROVE  IF i < l2_nr \/ (i = l2_nr /\ j < l3_nr + 1)
                          THEN lvl3'[i][j] = Entry(i, j)
                               /\ lvl2[i] = TableDescriptor(Lvl3At(i))
                          ELSE lvl3'[i][j] = Invalid
        BY <1>b, <2>2, <2>4 DEF FilledSoFar
      <4>2. CASE i = l2_nr /\ j = l3_nr
        BY <2>0, <4>1, <4>2 DEF e, L2, L3
      <4>3. CASE ~(i = l2_nr /\ j = l3_nr)
        <5>1. i < l2_nr \/ (i = l2_nr /\ j < l3_nr + 1)
              <=> i < l2_nr \/ (i = l2_nr /\ j < l3_nr)
          BY <2>0, <4>3 DEF L2, L3
        <5>2. lvl3'[i][j] = lvl3[i][j]
          BY <4>1, <4>3
        <5> QED
          BY <1>a, <2>0, <5>1, <5>2 DEF FilledSoFar
      <4> QED
        BY <4>2, <4>3
    <3>3. Sequencing'
      BY <1>a, <2>0, <2>2, <2>4 DEF Sequencing
    <3> QED
      BY <3>1, <3>2, <3>3 DEF IInv
  <2> QED
    BY <2>2, <2>3, <2>4
<1>5. CASE NextLvl2Entry
  <2>0. l2_nr \in L2 /\ l2_nr < NumTables /\ l3_nr = Entries /\ pc = "lvl3"
    BY <1>5, <1>a DEF NextLvl2Entry, TypeOK, Sequencing, L2
  <2>1. TypeOK'
    BY <1>5, <1>a, <2>0 DEF NextLvl2Entry, TypeOK, bsp, tables, L2
  <2>2. FilledSoFar'
    <3> SUFFICES ASSUME NEW i \in L2, NEW j \in L3
                 PROVE  IF i < l2_nr + 1
                        THEN lvl3[i][j] = Entry(i, j)
                             /\ lvl2[i] = TableDescriptor(Lvl3At(i))
                        ELSE lvl3[i][j] = Invalid
      BY <1>5, <1>b DEF NextLvl2Entry, FilledSoFar, bsp, tables
    <3>1. i < l2_nr + 1 <=> i < l2_nr \/ (i = l2_nr /\ j < l3_nr)
      BY <2>0 DEF L2, L3
    <3> QED
      BY <1>a, <2>0, <3>1 DEF FilledSoFar
  <2>3. Sequencing'
    BY <1>5, <1>a DEF NextLvl2Entry, Sequencing, bsp, tables
  <2> QED
    BY <2>1, <2>2, <2>3 DEF IInv
<1>6. CASE SetTtbr0
  <2>1. TypeOK'
    BY <1>6, <1>a DEF SetTtbr0, TypeOK, bsp, tables
  <2>2. FilledSoFar'
    <3> SUFFICES ASSUME NEW i \in L2, NEW j \in L3
                 PROVE  lvl3[i][j] = Entry(i, j)
                        /\ lvl2[i] = TableDescriptor(Lvl3At(i))
      BY <1>6, <1>b DEF SetTtbr0, FilledSoFar, bsp, tables, L2
    <3>1. i < l2_nr
      BY <1>6 DEF SetTtbr0, L2
    <3> QED
      BY <1>a, <3>1 DEF FilledSoFar
  <2>3. Sequencing'
    BY <1>6, <1>a DEF SetTtbr0, Sequencing, bsp, tables
  <2> QED
    BY <2>1, <2>2, <2>3 DEF IInv
<1>7. CASE ConfigureTranslationControl
  <2>1. TypeOK'
    BY <1>7, <1>a DEF ConfigureTranslationControl, TypeOK, bsp, tables
  <2>2. FilledSoFar'
    BY <1>7, <1>a, <1>b DEF ConfigureTranslationControl, FilledSoFar, bsp, tables
  <2>3. Sequencing'
    BY <1>7, <1>a DEF ConfigureTranslationControl, Sequencing, bsp, tables
  <2> QED
    BY <2>1, <2>2, <2>3 DEF IInv
<1>8. CASE EnableMmu
  <2>1. TypeOK'
    BY <1>8, <1>a DEF EnableMmu, TypeOK, bsp, tables
  <2>2. FilledSoFar'
    BY <1>8, <1>a, <1>b DEF EnableMmu, FilledSoFar, bsp, tables
  <2>3. Sequencing'
    BY <1>8, <1>a DEF EnableMmu, Sequencing, bsp, tables
  <2> QED
    BY <2>1, <2>2, <2>3 DEF IInv
<1>9. CASE UNCHANGED vars
  BY <1>9, <1>a, <1>b DEF vars, bsp, tables, IInv, TypeOK, FilledSoFar, Sequencing
<1> QED
  BY <1>1, <1>2, <1>3, <1>4, <1>5, <1>6, <1>7, <1>8, <1>9 DEF Next
-----------------------------------------------------------------------------
(* The results.                                                            *)

\* The invariant holds throughout enable_mmu_and_caching.
THEOREM Invariance == Spec => []IInv
  BY InitIInv, NextIInv, PTL DEF Spec

\* Every variable keeps its type: the indices of both loops of
\* populate_tt_entries stay within the tables.
THEOREM TypeCorrect == Spec => []TypeOK
<1>1. IInv => TypeOK
  BY DEF IInv
<1> QED
  BY <1>1, Invariance, PTL

\* populate_tt_entries fills the tables in order and leaves no entry out.
THEOREM FilledInOrder == Spec => []FilledSoFar
<1>1. IInv => FilledSoFar
  BY DEF IInv
<1> QED
  BY <1>1, Invariance, PTL

\* Once the MMU is on, every entry holds what the layout says.
LEMMA Complete ==
    ASSUME IInv, sctlr_m, NEW i \in L2, NEW j \in L3
    PROVE  lvl3[i][j] = Entry(i, j) /\ lvl2[i] = TableDescriptor(Lvl3At(i))
<1>1. l2_nr = NumTables
  BY DEF IInv, Sequencing
<1>2. i < l2_nr
  BY <1>1, TableAssumption DEF L2
<1> QED
  BY <1>2 DEF IInv, FilledSoFar

\* enable_mmu_and_caching turns the MMU on with complete tables or returns an
\* error with the translation off.
THEOREM CompleteTables == Spec => []AllOrNothing
<1>1. IInv => AllOrNothing
  <2> SUFFICES ASSUME IInv PROVE AllOrNothing
    OBVIOUS
  <2>1. ASSUME sctlr_m, NEW i \in L2, NEW j \in L3
        PROVE  lvl2[i].valid /\ lvl3[i][j].valid
    <3>1. TypeOK
      BY DEF IInv
    <3>2. lvl3[i][j] = Entry(i, j) /\ lvl2[i] = TableDescriptor(Lvl3At(i))
      BY <2>1, Complete
    <3>3. Entry(i, j).valid
      BY <3>1, EntryType
    <3>4. i \in 0..NumTables /\ 0 \in Nat
      BY TableAssumption DEF L2
    <3>5. TableDescriptor(Lvl3At(i)).valid
      BY <3>4, Addresses
    <3> QED
      BY <3>2, <3>3, <3>5
  <2>2. pc = "error" => ~sctlr_m /\ ttbr0 = 0
    BY DEF IInv, Sequencing
  <2> QED
    BY <2>1, <2>2 DEF AllOrNothing
<1> QED
  BY <1>1, Invariance, PTL

\* A layout without writable code gives tables without writable code.
THEOREM WritableOrExecutable == Spec => []NoWritableCode
<1>1. IInv => NoWritableCode
  <2> SUFFICES ASSUME IInv,
                      \A k \in 1..Len(Layout) : Layout[k].attrs.perms = "ReadOnly"
                                                \/ Layout[k].attrs.execute_never,
                      NEW i \in L2, NEW j \in L3, lvl3[i][j].valid
               PROVE  lvl3[i][j].ap = "RO_EL1" \/ lvl3[i][j].pxn
    BY DEF NoWritableCode
  <2> DEFINE props == VirtAddrProperties(Layout, VirtAddr(i, j))
  <2>1. Layout \in Seq(Descriptor)
    BY TableAssumption DEF IInv, TypeOK
  <2>2. VirtAddr(i, j) \in Nat
    <3>1. i \in 0..NumTables /\ j \in Nat
      BY TableAssumption DEF L2, L3
    <3> QED
      BY <3>1, Addresses
  <2>3. lvl3[i][j] = Entry(i, j)
    BY DEF IInv, FilledSoFar, Invalid
  <2>4. props.attrs.perms = "ReadOnly" \/ props.attrs.execute_never
    <3>1. CASE \E k \in 1..Len(Layout) : Contains(Layout[k], VirtAddr(i, j))
      <4>1. Owner(Layout, VirtAddr(i, j)) \in 1..Len(Layout)
        BY <2>1, <2>2, <3>1, OwnerProperties
      <4>2. props.attrs = Layout[Owner(Layout, VirtAddr(i, j))].attrs
        BY <3>1 DEF VirtAddrProperties
      <4> QED
        BY <4>1, <4>2
    <3>2. CASE ~\E k \in 1..Len(Layout) : Contains(Layout[k], VirtAddr(i, j))
      BY <3>2 DEF VirtAddrProperties, DefaultAttributes
    <3> QED
      BY <3>1, <3>2
  <2> HIDE DEF props
  <2>5. Entry(i, j) = PageDescriptor(props.out, props.attrs)
    BY DEF Entry, props
  <2> QED
    BY <2>3, <2>4, <2>5 DEF PageDescriptor
<1> QED
  BY <1>1, Invariance, PTL

-----------------------------------------------------------------------------
(* The hardware's walk.                                                    *)

\* Dividing by the size of a table is dividing by a page, then by the entries.
LEMMA DivideTwice ==
    ASSUME NEW a \in Nat, NEW p \in Nat \ {0}, NEW e \in Nat \ {0}
    PROVE  a \div (e * p) = (a \div p) \div e
<1>1. PICK q \in Nat, r \in 0..p-1 : a = p * q + r /\ q = a \div p
  BY DivMod
<1>2. PICK x \in Nat, s \in 0..e-1 : q = e * x + s /\ x = q \div e
  BY DivMod
<1>3. a = x * (e * p) + (p * s + r)
  <2>1. a = p * (e * x + s) + r
    BY <1>1, <1>2
  <2>2. p * (e * x + s) = p * (e * x) + p * s
    BY <1>2
  <2>3. p * (e * x) = x * (e * p)
    BY <1>2
  <2> QED
    BY <2>1, <2>2, <2>3, <1>1, <1>2
<1>4. p * s + r \in 0..(e * p)-1
  <2>1. s <= e - 1 /\ e - 1 \in Nat
    BY <1>2
  <2>2. p * s <= p * (e - 1)
    BY <2>1, <1>2
  <2>3. p * (e - 1) = e * p - p
    OBVIOUS
  <2>4. p * s \in Nat /\ e * p \in Nat
    BY <1>2
  <2> QED
    BY <1>1, <2>2, <2>3, <2>4
<1>5. e * p \in Nat \ {0}
  OBVIOUS
<1>6. (x * (e * p) + (p * s + r)) \div (e * p) = x
  BY <1>4, <1>5, DivModUnique
<1> QED
  BY <1>1, <1>2, <1>3, <1>6

\* An address of the address space lies in the page that its two table
\* indices stand for.
LEMMA Indices ==
    ASSUME NEW va \in 0..Size-1
    PROVE  LET i == va \div (Entries * PageSize)
               j == (va \div PageSize) % Entries
           IN  i \in L2 /\ j \in L3 /\ VirtAddr(i, j) = PageStart(va, PageSize)
<1> DEFINE q == va \div PageSize
           i == va \div (Entries * PageSize)
           j == q % Entries
<1>1. /\ va \in Nat /\ NumTables \in Nat \ {0} /\ Entries \in Nat \ {0}
      /\ PageSize \in Nat \ {0} /\ va < Size
  BY TableAssumption DEF Size
<1>2. q \in Nat /\ va = PageSize * q + (va % PageSize) /\ va % PageSize \in Nat
  <2>1. va % PageSize \in 0..PageSize-1
    BY <1>1, DivMod
  <2>2. q \in Nat /\ va = PageSize * q + (va % PageSize)
    BY <1>1, DivMod
  <2> QED
    BY <1>1, <2>1, <2>2
<1>3. i = q \div Entries
  BY <1>1, DivideTwice
<1>4. i \in Nat /\ j \in 0..Entries-1 /\ q = Entries * i + j
  BY <1>1, <1>2, <1>3, DivMod
<1>5. VirtAddr(i, j) = PageStart(va, PageSize)
  <2> HIDE DEF q, i, j
  <2>1. i * Entries + j = q
    BY <1>1, <1>4
  <2>2. VirtAddr(i, j) = q * PageSize
    BY <2>1 DEF VirtAddr
  <2>3. q * PageSize = PageSize * q
    BY <1>1, <1>2
  <2> QED
    BY <2>2, <2>3 DEF PageStart, q
<1>6. i < NumTables
  <2> DEFINE t == Entries * PageSize
  <2>0. t \in Nat \ {0} /\ Size = NumTables * t
    BY <1>1 DEF Size
  <2> HIDE DEF t
  <2>1. i = va \div t
    BY DEF t
  <2>2. t * i <= va
    <3>1. va = t * (va \div t) + (va % t) /\ va % t \in Nat /\ va \div t \in Nat
      BY <1>1, <2>0, DivMod
    <3> QED
      BY <3>1, <2>0, <2>1, <1>1
  <2> HIDE DEF i
  <2>3. ASSUME i >= NumTables PROVE FALSE
    <3>1. t * i >= t * NumTables
      BY <1>1, <1>4, <2>0, <2>3
    <3>2. t * NumTables = Size
      BY <1>1, <2>0
    <3>3. t * i \in Nat /\ Size \in Nat
      BY <1>1, <1>4, <2>0
    <3> QED
      BY <1>1, <2>2, <3>1, <3>2, <3>3
  <2> QED
    BY <1>1, <1>4, <2>3
<1> QED
  BY <1>1, <1>4, <1>5, <1>6 DEF L2, L3

\* A page descriptor gives back, through MAIR, what it was made from, if the
\* output address is that of a whole page.
LEMMA DescriptorRoundTrip ==
    ASSUME NEW addr \in Nat, NEW attrs \in AttributeFields,
           addr % PageSize = 0, mair = <<"Device", "CacheableDRAM">>
    PROVE  LET d == PageDescriptor(addr, attrs)
           IN  /\ d.out * PageSize = addr
               /\ [mem           |-> mair[d.attrIndx + 1],
                   perms         |-> IF d.ap = "RO_EL1" THEN "ReadOnly"
                                     ELSE "ReadWrite",
                   execute_never |-> d.pxn] = attrs
<1> DEFINE d == PageDescriptor(addr, attrs)
<1>1. PageSize \in Nat \ {0}
  BY TableAssumption
<1>2. d.out * PageSize = addr
  <2>1. d.out = addr \div PageSize
    BY DEF PageDescriptor
  <2>2. addr = PageSize * (addr \div PageSize) + 0 /\ addr \div PageSize \in Nat
    BY <1>1, DivMod
  <2> QED
    BY <1>1, <2>1, <2>2
<1>3. mair[1] = "Device" /\ mair[2] = "CacheableDRAM"
  OBVIOUS
<1>4. mair[d.attrIndx + 1] = attrs.mem
  BY <1>3 DEF PageDescriptor, AttributeFields
<1>5. (IF d.ap = "RO_EL1" THEN "ReadOnly" ELSE "ReadWrite") = attrs.perms
  BY DEF PageDescriptor, AttributeFields
<1>6. d.pxn = attrs.execute_never
  BY DEF PageDescriptor
<1>7. attrs = [mem |-> attrs.mem, perms |-> attrs.perms,
               execute_never |-> attrs.execute_never]
  BY DEF AttributeFields
<1> HIDE DEF d
<1> QED
  BY <1>2, <1>4, <1>5, <1>6, <1>7 DEF d

\* With the MMU on, the walk of the hardware gives every address of the
\* address space the output address and the attributes the layout says.
THEOREM WalkFollowsLayout == Spec => []LayoutInForce
<1>1. IInv => LayoutInForce
  <2> SUFFICES ASSUME IInv, sctlr_m, WholePages, NEW va \in 0..Size-1
               PROVE  Mapped(va) /\ Translate(va) = VirtAddrProperties(Layout, va)
    BY DEF LayoutInForce
  <2> DEFINE i == va \div (Entries * PageSize)
             j == (va \div PageSize) % Entries
             page == VirtAddrProperties(Layout, PageStart(va, PageSize))
  <2>1. i \in L2 /\ j \in L3 /\ VirtAddr(i, j) = PageStart(va, PageSize)
    BY Indices
  <2>2. /\ tcr /\ ttbr0 = Lvl2At /\ mair = <<"Device", "CacheableDRAM">>
        /\ TypeOK /\ Layout \in Seq(Descriptor) /\ PageSize \in Nat \ {0}
        /\ va \in Nat
    BY TableAssumption DEF IInv, Sequencing, TypeOK
  <2>3. lvl3[i][j] = Entry(i, j) /\ lvl2[i] = TableDescriptor(Lvl3At(i))
    BY <2>1, Complete
  <2>4. Mapped(va)
    <3>1. i \in 0..NumTables /\ 0 \in Nat
      BY <2>1, TableAssumption DEF L2
    <3>2. lvl2[i].valid /\ lvl2[i].next = Lvl3At(i) \div PageSize
      BY <2>3, <3>1, Addresses DEF TableDescriptor
    <3>3. lvl3[i][j].valid
      BY <2>1, <2>2, <2>3, EntryType
    <3> QED
      BY <2>1, <2>2, <3>2, <3>3 DEF Mapped
  <2>5. PageStart(va, PageSize) \in Nat
    BY <2>2, PageStartProperties
  <2>6. /\ page.out % PageSize = 0
        /\ VirtAddrProperties(Layout, va)
             = [out |-> page.out + (va % PageSize), attrs |-> page.attrs]
    <3>1. WholePagesOf(Layout, PageSize)
      BY DEF WholePages, WholePagesOf
    <3> QED
      BY <2>2, <3>1, LookupByPage
  <2>7. page.out \in Nat /\ page.attrs \in AttributeFields
    BY <2>2, <2>5, LookupType
  <2>8. lvl3[i][j] = PageDescriptor(page.out, page.attrs)
    BY <2>1, <2>3 DEF Entry
  <2> HIDE DEF page
  <2>9. Translate(va) = [out |-> page.out + (va % PageSize), attrs |-> page.attrs]
    BY <2>2, <2>6, <2>7, <2>8, DescriptorRoundTrip DEF Translate
  <2> QED
    BY <2>4, <2>6, <2>9
<1> QED
  BY <1>1, Invariance, PTL
=============================================================================
