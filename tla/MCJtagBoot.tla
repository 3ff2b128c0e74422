----------------------------- MODULE MCJtagBoot -----------------------------
EXTENDS JtagBoot

MCBoards      == {"rpi3", "rpi4", "rpi5_early"}
RPi3          == {"rpi3"}
MCOtherPins   == {13}
MCPins        == {13, 14, 15}
\* The firmware has used the pins for the UART already, or for nothing.
MCPowerOnPins == {<<[p \in MCPins |-> f], [p \in MCPins |-> "down"]>> :
                    f \in {"input", "alt0"}}
MCChar        == {"c", "j", "p", "CR", "LF"}
MCResidues    == {<<>>, <<"c", "c">>}
\* A message longer than the FIFO.
MCMessage     == <<"j", "LF", "j", "LF">>
MCReport      == <<"p", "LF">>
=============================================================================
