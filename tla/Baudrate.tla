------------------------------ MODULE Baudrate ------------------------------
(***************************************************************************)
(* The divisor arithmetic of the PL011 driver.  IBRD is a 16 bit field and *)
(* FBRD a 6 bit field; a value that does not fit is masked by the register *)
(* accessor.                                                               *)
(***************************************************************************)
EXTENDS Naturals

\* clock * 1000 / 16 / baudrate, with the u64 intermediate of the code split
\* so that no partial result exceeds the integers TLC has.
DivX1000(clock, baudrate) ==
    LET units == clock \div 16
        rest  == ((clock % 16) * 1000) \div 16
    IN  (units \div baudrate) * 1000
          + ((units % baudrate) * 1000 + rest) \div baudrate

Divisor(clock, baudrate) ==
    LET div_x1000       == DivX1000(clock, baudrate)
        integer_part    == div_x1000 \div 1000
        fractional_part == ((div_x1000 % 1000) * 64 + 500) \div 1000
    IN  <<integer_part % 65536, fractional_part % 64>>

\* What the chainloader writes to IBRD and FBRD.
ChainloaderDivisor == <<26, 3>>
=============================================================================
