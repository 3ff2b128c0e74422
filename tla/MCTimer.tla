------------------------------ MODULE MCTimer -------------------------------
EXTENDS Timer

\* A second of 5 ns and a counter of 5 bits: frequencies below, at and above
\* one count per nanosecond, durations about the resolution, of some seconds,
\* and about the longest one each frequency accepts.
MCDurations == (0..6) \cup {12, 21, 22, 23, 51, 52, 154, 155, 156}
=============================================================================
