------------------------------- MODULE MCGpio -------------------------------
EXTENDS Gpio

MCBoards    == {"rpi3", "rpi4", "rpi5", "rpi5_early"}
MCOtherPins == {13}
=============================================================================
