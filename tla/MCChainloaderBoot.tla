------------------------- MODULE MCChainloaderBoot -------------------------
EXTENDS ChainloaderBoot, TLC

CONSTANT Late   \* a core that is not given the device tree

\* The firmware gives the device tree to all cores but one, whose x0 is 0.
MixedPointers == [c \in Cores |-> IF c = Late THEN 0 ELSE DtAt]
=============================================================================
