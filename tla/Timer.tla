-------------------------------- MODULE Timer -------------------------------
(***************************************************************************)
(* The architectural timer: the conversions between counter values and     *)
(* durations, and spin_for, which polls a counter that goes on by itself.  *)
(*                                                                         *)
(* A Duration is its number of nanoseconds; there are NANOSEC_PER_SEC in a *)
(* second (10^9) and counter values are those up to MAX (2^64 - 1).        *)
(***************************************************************************)
EXTENDS Naturals

CONSTANTS NANOSEC_PER_SEC, MAX,
          Frequencies,      \* what CNTFRQ_EL0 may hold
          Durations,        \* what spin_for may be asked for
          PowerOnCounts     \* CNTPCT_EL0 when the timer is first used

\* A frequency is a non-zero u32, so that the nanoseconds of less than a second
\* of counts fit a u64: checked_mul never fails in Duration::from.
ASSUME TimerAssumption ==
    /\ NANOSEC_PER_SEC \in Nat \ {0} /\ MAX \in Nat \ {0}
    /\ Frequencies \subseteq Nat \ {0}
    /\ \A f \in Frequencies : (f - 1) * NANOSEC_PER_SEC <= MAX
    /\ Durations \subseteq Nat /\ PowerOnCounts \subseteq 0..MAX

VARIABLES
    frequency,      \* ARCH_TIMER_COUNTER_FREQUENCY
    cntpct,         \* CNTPCT_EL0
    pc,
    duration,       \* the argument of spin_for
    curr_counter_value,
    counter_value_target

vars == <<frequency, cntpct, pc, duration, curr_counter_value, counter_value_target>>

Wrap(n) == n % (MAX + 1)

\* Duration::from: whole seconds and the nanoseconds of the rest, rounded down.
DurationOf(counter_value, f) ==
    (counter_value \div f) * NANOSEC_PER_SEC
        + ((counter_value % f) * NANOSEC_PER_SEC) \div f

resolution(f)   == DurationOf(1, f)
max_duration(f) == DurationOf(MAX, f)

\* try_from: too short is no count at all, too long is an error.
TooLong(d, f) == d >= resolution(f) /\ d > max_duration(f)

CounterValueOf(d, f) ==
    IF d < resolution(f) THEN 0 ELSE Wrap((d * f) \div NANOSEC_PER_SEC)

Init ==
    /\ frequency \in Frequencies /\ cntpct \in PowerOnCounts
    /\ pc = "idle" /\ duration = 0
    /\ curr_counter_value = 0 /\ counter_value_target = 0

\* The first lines of spin_for: read the counter, then convert the duration.
SpinFor ==
    /\ pc = "idle"
    /\ curr_counter_value' = cntpct
    /\ duration' \in Durations
    /\ pc' = "convert"
    /\ UNCHANGED <<frequency, cntpct, counter_value_target>>

\* Fault variant: the target is counted from zero instead of from now.
Convert_FromZero ==
    /\ pc = "convert"
    /\ IF TooLong(duration, frequency)
       THEN pc' = "skipped" /\ UNCHANGED counter_value_target
       ELSE /\ pc' = "spinning"
            /\ counter_value_target' = CounterValueOf(duration, frequency)
    /\ UNCHANGED <<frequency, cntpct, duration, curr_counter_value>>

Convert ==
    /\ pc = "convert"
    /\ IF TooLong(duration, frequency)
       THEN pc' = "skipped" /\ UNCHANGED counter_value_target
       ELSE /\ pc' = "spinning"
            /\ counter_value_target' =
                   Wrap(curr_counter_value + CounterValueOf(duration, frequency))
    /\ UNCHANGED <<frequency, cntpct, duration, curr_counter_value>>

\* Fault variant: the loop waits for the very value of the target.
Poll_Exact ==
    /\ pc = "spinning" /\ cntpct = counter_value_target
    /\ pc' = "returned"
    /\ UNCHANGED <<frequency, cntpct, duration, curr_counter_value,
                   counter_value_target>>

\* The poll that ends the busy wait.
Poll ==
    /\ pc = "spinning" /\ cntpct >= counter_value_target
    /\ pc' = "returned"
    /\ UNCHANGED <<frequency, cntpct, duration, curr_counter_value,
                   counter_value_target>>

\* spin_for returns and drops its locals; the next call may come at any time.
Return ==
    /\ pc \in {"returned", "skipped"}
    /\ pc' = "idle" /\ duration' = 0
    /\ curr_counter_value' = 0 /\ counter_value_target' = 0
    /\ UNCHANGED <<frequency, cntpct>>

\* The counter goes on, whatever the core does.  It does not wrap: 2^64 counts
\* are more than 10,000 years (time.rs leaves that out as well).
Tick ==
    /\ cntpct < MAX
    /\ cntpct' = cntpct + 1
    /\ UNCHANGED <<frequency, pc, duration, curr_counter_value,
                   counter_value_target>>

Thread == SpinFor \/ Convert \/ Poll \/ Return
Next   == Thread \/ Tick

\* The core runs, and so does the counter.
Spec == Init /\ [][Next]_vars /\ WF_vars(Convert \/ Poll) /\ WF_vars(Tick)

-----------------------------------------------------------------------------
(* Properties.                                                             *)

\* Every variable holds a value of its type.
TypeOK ==
    /\ frequency \in Frequencies /\ cntpct \in 0..MAX
    /\ pc \in {"idle", "convert", "spinning", "returned", "skipped"}
    /\ duration \in Nat
    /\ curr_counter_value \in 0..MAX /\ counter_value_target \in 0..MAX

\* A spin_for that is not skipped lasts as long as it was asked to, but for
\* the one count the conversion rounds down - unless the target lies beyond
\* the end of the counter, where the wrapping sum ends the wait at once.
Elapsed == cntpct - curr_counter_value
SpinsLongEnough ==
    pc = "returned" =>
        \/ (Elapsed + 1) * NANOSEC_PER_SEC > duration * frequency
        \/ curr_counter_value + CounterValueOf(duration, frequency) > MAX

\* A spin_for ends.
SpinEnds == pc = "convert" ~> pc \in {"returned", "skipped"}
=============================================================================
