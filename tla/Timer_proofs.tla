----------------------------- MODULE Timer_proofs ---------------------------
(***************************************************************************)
(* Proofs about module Timer, for every frequency, width of the counter    *)
(* and duration: the cast of try_from truncates nothing, and spin_for      *)
(* lasts as long as it was asked to but for one count.                     *)
(***************************************************************************)
EXTENDS Timer, TLAPS

\* Quotient and remainder.
LEMMA DivMod ==
    ASSUME NEW a \in Nat, NEW p \in Nat \ {0}
    PROVE  /\ a \div p \in Nat /\ a % p \in 0..p-1
           /\ a = p * (a \div p) + (a % p)
OBVIOUS

\* Duration::from rounds down: no more nanoseconds than the counts are worth.
LEMMA DurationRoundsDown ==
    ASSUME NEW c \in Nat, NEW f \in Nat \ {0}
    PROVE  /\ DurationOf(c, f) \in Nat
           /\ DurationOf(c, f) * f <= c * NANOSEC_PER_SEC
<1> DEFINE N == NANOSEC_PER_SEC
<1>0. N \in Nat \ {0}
  BY TimerAssumption
<1> HIDE DEF N
<1>1. PICK q \in Nat, r \in Nat : q = c \div f /\ r = c % f /\ c = f * q + r
  <2>1. c \div f \in Nat /\ c % f \in Nat /\ c = f * (c \div f) + (c % f)
    BY DivMod
  <2> QED
    BY <2>1
<1>2. r * N \in Nat
  BY <1>0
<1>3. PICK x \in Nat, y \in Nat : x = (r * N) \div f /\ r * N = f * x + y
  <2>1. PICK s \in Nat : s = r * N
    BY <1>2
  <2>2. s \div f \in Nat /\ s % f \in Nat /\ s = f * (s \div f) + (s % f)
    BY DivMod
  <2> QED
    BY <2>1, <2>2
<1>4. DurationOf(c, f) = q * N + x
  BY <1>1, <1>3 DEF DurationOf, N
<1>5. q * N \in Nat
  BY <1>0
<1>6. (q * N + x) * f = (f * q) * N + f * x
  BY <1>0, <1>5
<1>7. c * N = (f * q) * N + r * N
  BY <1>0, <1>1
<1>8. f * x <= r * N
  BY <1>2, <1>3
<1>9. (f * q) * N \in Nat /\ f * x \in Nat
  BY <1>0
<1>10. DurationOf(c, f) * f <= c * N
  BY <1>2, <1>4, <1>6, <1>7, <1>8, <1>9
<1> QED
  BY <1>4, <1>5, <1>10 DEF N

\* try_from: "Since we checked above that we are <= max_duration(), just cast
\* to u64" - the cast changes nothing, and the result is short of the duration
\* by less than one count.
LEMMA ConversionRoundsDown ==
    ASSUME NEW d \in Nat, NEW f \in Nat \ {0}, ~TooLong(d, f)
    PROVE  /\ CounterValueOf(d, f) \in 0..MAX
           /\ (CounterValueOf(d, f) + 1) * NANOSEC_PER_SEC > d * f
<1> DEFINE N == NANOSEC_PER_SEC
           v == (d * f) \div N
<1>0. N \in Nat \ {0} /\ MAX \in Nat \ {0}
  BY TimerAssumption
<1>1. /\ resolution(f) \in Nat /\ resolution(f) * f <= N
      /\ max_duration(f) \in Nat /\ max_duration(f) * f <= MAX * N
  <2>1. resolution(f) \in Nat /\ resolution(f) * f <= 1 * N
    BY DurationRoundsDown DEF resolution
  <2>2. max_duration(f) \in Nat /\ max_duration(f) * f <= MAX * N
    BY <1>0, DurationRoundsDown DEF max_duration
  <2> QED
    BY <1>0, <2>1, <2>2
<1>2. CASE d < resolution(f)
  <2>1. d * f < resolution(f) * f
    BY <1>1, <1>2
  <2>2. d * f < N
    <3>1. d * f \in Nat /\ resolution(f) * f \in Nat
      BY <1>1
    <3> QED
      BY <1>0, <1>1, <2>1, <3>1
  <2>3. CounterValueOf(d, f) = 0
    BY <1>2 DEF CounterValueOf
  <2> QED
    BY <1>0, <2>2, <2>3
<1>3. CASE ~(d < resolution(f))
  <2>1. d <= max_duration(f)
    BY <1>1, <1>3 DEF TooLong
  <2>2. d * f <= max_duration(f) * f
    BY <1>1, <2>1
  <2>3. d * f <= MAX * N /\ d * f \in Nat /\ MAX * N \in Nat
    <3>1. d * f \in Nat /\ max_duration(f) * f \in Nat /\ MAX * N \in Nat
      BY <1>0, <1>1
    <3> QED
      BY <1>1, <2>2, <3>1
  <2>4. v \in Nat /\ d * f < N * v + N /\ N * v <= d * f
    <3>1. v \in Nat /\ (d * f) % N \in 0..N-1 /\ d * f = N * v + ((d * f) % N)
      BY <1>0, <2>3, DivMod
    <3> HIDE DEF v
    <3>2. N * v \in Nat
      BY <1>0, <3>1
    <3> QED
      BY <1>0, <2>3, <3>1, <3>2
  <2> HIDE DEF v, N
  <2>5. v <= MAX
    <3>1. ASSUME v >= MAX + 1 PROVE FALSE
      <4>1. N * v >= N * (MAX + 1)
        BY <1>0, <2>4, <3>1
      <4>2. N * (MAX + 1) = MAX * N + N
        BY <1>0
      <4> QED
        BY <1>0, <2>3, <2>4, <4>1, <4>2
    <3> QED
      BY <1>0, <2>4, <3>1
  <2>6. Wrap(v) = v
    BY <1>0, <2>4, <2>5 DEF Wrap
  <2>7. CounterValueOf(d, f) = v
    BY <1>3, <2>6 DEF CounterValueOf, v, N
  <2>8. (v + 1) * N = N * v + N
    BY <1>0, <2>4
  <2>9. (v + 1) * N > d * f
    BY <1>0, <2>3, <2>4, <2>8
  <2> QED
    BY <1>0, <2>4, <2>5, <2>7, <2>9 DEF N
<1> QED
  BY <1>2, <1>3

-----------------------------------------------------------------------------
(* The inductive invariant: what spin_for knows at each of its lines.      *)

Progress ==
    /\ pc # "idle" => curr_counter_value <= cntpct
    /\ pc \in {"spinning", "returned"} =>
           /\ ~TooLong(duration, frequency)
           /\ counter_value_target =
                  Wrap(curr_counter_value + CounterValueOf(duration, frequency))
    /\ pc = "returned" => cntpct >= counter_value_target

IInv == TypeOK /\ Progress

\* Before the first call there is nothing to know.
THEOREM InitIInv == Init => IInv
BY TimerAssumption DEF Init, IInv, TypeOK, Progress

\* Every line of spin_for, and the counter, preserve the invariant.
THEOREM NextIInv == IInv /\ [Next]_vars => IInv'
<1> SUFFICES ASSUME IInv, [Next]_vars PROVE IInv'
  OBVIOUS
<1>0. MAX \in Nat \ {0} /\ Durations \subseteq Nat /\ TypeOK /\ Progress
  BY TimerAssumption DEF IInv
<1>1. CASE SpinFor
  BY <1>0, <1>1 DEF SpinFor, IInv, TypeOK, Progress
<1>2. CASE Convert
  <2> DEFINE v == CounterValueOf(duration, frequency)
             t == Wrap(curr_counter_value + v)
  <2>1. CASE TooLong(duration, frequency)
    BY <1>0, <1>2, <2>1 DEF Convert, IInv, TypeOK, Progress
  <2>2. CASE ~TooLong(duration, frequency)
    <3>1. duration \in Nat /\ frequency \in Nat \ {0} /\ curr_counter_value \in 0..MAX
      BY <1>0, TimerAssumption DEF TypeOK
    <3>2. v \in 0..MAX
      BY <2>2, <3>1, ConversionRoundsDown
    <3>3. t \in 0..MAX
      <4> HIDE DEF v
      <4>1. curr_counter_value + v \in Nat /\ MAX + 1 \in Nat \ {0}
        BY <1>0, <3>1, <3>2
      <4> QED
        BY <1>0, <4>1, DivMod DEF Wrap
    <3> HIDE DEF t
    <3>4. counter_value_target' = t /\ pc' = "spinning" /\ pc = "convert"
          /\ UNCHANGED <<frequency, cntpct, duration, curr_counter_value>>
      BY <1>2, <2>2 DEF Convert, t
    <3>5. TypeOK'
      BY <1>0, <3>3, <3>4 DEF TypeOK
    <3>6. Progress'
      BY <1>0, <2>2, <3>4 DEF Progress, t
    <3> QED
      BY <3>5, <3>6 DEF IInv
  <2> QED
    BY <2>1, <2>2
<1>3. CASE Poll
  BY <1>0, <1>3 DEF Poll, IInv, TypeOK, Progress
<1>4. CASE Return
  BY <1>0, <1>4 DEF Return, IInv, TypeOK, Progress
<1>5. CASE Tick
  BY <1>0, <1>5 DEF Tick, IInv, TypeOK, Progress
<1>6. CASE UNCHANGED vars
  BY <1>0, <1>6 DEF vars, IInv, TypeOK, Progress
<1> QED
  BY <1>1, <1>2, <1>3, <1>4, <1>5, <1>6 DEF Next, Thread

\* A target that was not wrapped is as far away as the conversion says.
LEMMA LongEnough == IInv => SpinsLongEnough
<1> SUFFICES ASSUME IInv, pc = "returned",
                    curr_counter_value + CounterValueOf(duration, frequency) <= MAX
             PROVE  (Elapsed + 1) * NANOSEC_PER_SEC > duration * frequency
  <2>1. ASSUME IInv, pc = "returned"
        PROVE  curr_counter_value + CounterValueOf(duration, frequency) \in Nat
               /\ MAX \in Nat
    <3>1. /\ duration \in Nat /\ frequency \in Nat \ {0} /\ MAX \in Nat
          /\ curr_counter_value \in Nat /\ ~TooLong(duration, frequency)
      BY <2>1, TimerAssumption DEF IInv, TypeOK, Progress
    <3>2. CounterValueOf(duration, frequency) \in 0..MAX
      BY <3>1, ConversionRoundsDown
    <3> QED
      BY <3>1, <3>2
  <2> QED
    BY <2>1 DEF SpinsLongEnough
<1> DEFINE v == CounterValueOf(duration, frequency)
           N == NANOSEC_PER_SEC
<1>1. /\ duration \in Nat /\ frequency \in Nat \ {0} /\ cntpct \in Nat
      /\ curr_counter_value \in Nat /\ MAX \in Nat /\ N \in Nat \ {0}
      /\ ~TooLong(duration, frequency)
      /\ counter_value_target = Wrap(curr_counter_value + v)
      /\ cntpct >= counter_value_target
  BY TimerAssumption DEF IInv, TypeOK, Progress
<1>2. v \in 0..MAX /\ (v + 1) * N > duration * frequency
  BY <1>1, ConversionRoundsDown
<1> HIDE DEF v, N
<1>3. curr_counter_value + v <= MAX
  BY DEF v
<1>4. counter_value_target = curr_counter_value + v
  BY <1>1, <1>2, <1>3 DEF Wrap
<1>5. Elapsed \in Nat /\ Elapsed >= v
  BY <1>1, <1>2, <1>4 DEF Elapsed
<1>6. (Elapsed + 1) * N >= (v + 1) * N
  BY <1>1, <1>2, <1>5
<1>7. duration * frequency \in Nat /\ (v + 1) * N \in Nat /\ (Elapsed + 1) * N \in Nat
  BY <1>1, <1>2, <1>5
<1>8. (Elapsed + 1) * N > duration * frequency
  BY <1>2, <1>6, <1>7
<1> QED
  BY <1>8 DEF N

\* spin_for lasts as long as it was asked to, but for one count, whatever the
\* frequency of the board, unless its target lies beyond the counter.
THEOREM SpinForIsLongEnough == Spec => []SpinsLongEnough
<1>1. Spec => []IInv
  BY InitIInv, NextIInv, PTL DEF Spec
<1> QED
  BY <1>1, LongEnough, PTL

\* Every variable keeps its type: no count outgrows the counter's register.
THEOREM TypeCorrect == Spec => []TypeOK
<1>1. Spec => []IInv
  BY InitIInv, NextIInv, PTL DEF Spec
<1>2. IInv => TypeOK
  BY DEF IInv
<1> QED
  BY <1>1, <1>2, PTL
=============================================================================
