-------------------------- MODULE MCSerialConsole --------------------------
EXTENDS SerialConsole

\* Two strings that fit a FIFO of three in their CRLF form, or one that does not.
ShortMessages == << <<"k", "LF">>, <<"x", "LF">>, <<>> >>
LongMessages  == << <<"k", "k", "LF", "x">>, <<"LF">> >>
MCKeys     == {"k", "x", "CR"}
MCResidues == { <<>>, <<"x">>, <<"x", "k">> }
=============================================================================
