--------------------------- MODULE MCChainloader ---------------------------
EXTENDS Chainloader

\* Nothing to upload, a byte, a file up to the relocated loader, one over it.
MCFiles    == { <<>>, <<1>>, <<0, 1, 1, 0>>, <<1, 0, 1, 1, 0>> }
MCBanner   == <<LF, "t">>
MCLoaded   == <<LF, "t", LF>>
MCText     == {"t"}
MCResidues == { <<>>, <<"t">> }
=============================================================================
