---------------------------- MODULE MCTestRunner ----------------------------
EXTENDS TestRunner

\* No time at all, less and more than a nap, and more than an Instant holds.
MCTimeouts == {0, 1, 3, 8}
=============================================================================
