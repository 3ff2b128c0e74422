---------------------------- MODULE VirtualLayout ---------------------------
(***************************************************************************)
(* KernelVirtualLayout: what the kernel wants each virtual address to be.  *)
(* A layout is a sequence of descriptors                                   *)
(*    [first, last : addresses, offset : TRUE for Translation::Offset,     *)
(*     phys : the physical start of an Offset, attrs : AttributeFields]    *)
(***************************************************************************)
EXTENDS Naturals, Sequences

AttributeFields ==
    [mem : {"CacheableDRAM", "Device"}, perms : {"ReadOnly", "ReadWrite"},
     execute_never : BOOLEAN]

Descriptor == [first : Nat, last : Nat, offset : BOOLEAN, phys : Nat,
               attrs : AttributeFields]

\* Fault variant: unlisted memory is executable.
DefaultAttributes_Executable ==
    [mem |-> "CacheableDRAM", perms |-> "ReadWrite", execute_never |-> FALSE]

DefaultAttributes ==
    [mem |-> "CacheableDRAM", perms |-> "ReadWrite", execute_never |-> TRUE]

Contains(d, addr) == d.first <= addr /\ addr <= d.last

OutputAddr(d, addr) ==
    IF d.offset THEN d.phys + (addr - d.first) ELSE addr

\* The first descriptor that contains the address decides; an address in none
\* of them is identity mapped normal memory.
Owner(layout, addr) ==
    CHOOSE i \in 1..Len(layout) :
        /\ Contains(layout[i], addr)
        /\ \A j \in 1..i-1 : ~Contains(layout[j], addr)

VirtAddrProperties(layout, addr) ==
    IF \E i \in 1..Len(layout) : Contains(layout[i], addr)
    THEN LET d == layout[Owner(layout, addr)]
         IN  [out |-> OutputAddr(d, addr), attrs |-> d.attrs]
    ELSE [out |-> addr, attrs |-> DefaultAttributes]
=============================================================================
