------------------------- MODULE MCTranslationTable -------------------------
EXTENDS TranslationTable

\* Two tables of four pages of four bytes.
Attrs(m, p, x) == [mem |-> m, perms |-> p, execute_never |-> x]
Range(f, l, o, ph, a) ==
    [first |-> f, last |-> l, offset |-> o, phys |-> ph, attrs |-> a]

Code == Range(4, 11, FALSE, 0, Attrs("CacheableDRAM", "ReadOnly", FALSE))
Mmio(f, l, o) == Range(f, l, o, 64, Attrs("Device", "ReadWrite", TRUE))

\* Code and an MMIO window: identity mapped or moved, of whole pages or not,
\* on one page or over the border of the two tables, apart from the code or
\* over its last page, with a second window at the end of the address space.
MCLayouts ==
    {<<Code, Mmio(f, l, o)>> : f \in {8, 10, 12, 14}, l \in {15, 17, 19}, o \in BOOLEAN}
      \cup { <<Code, Mmio(12, 19, TRUE), Mmio(28, 31, TRUE)>>, <<>> }

\* The whole address space of 32 bytes, or less.
MCMaxVirtAddrs == {17, 28, 31}
=============================================================================
