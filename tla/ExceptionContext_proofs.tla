----------------------- MODULE ExceptionContext_proofs ----------------------
(***************************************************************************)
(* Proofs about module ExceptionContext, for every number of register      *)
(* pairs, calls and faults: the frame on top of the stack agrees with the  *)
(* interrupted machine up to the pair that is being saved (Saving), agrees *)
(* with it as a whole from the handler on, and the registers agree with it *)
(* up to the pair that is being loaded (Restoring).  The frames below the  *)
(* top one are never loaded, because only a system call returns and only   *)
(* the program makes one (Depth).                                          *)
(*                                                                         *)
(* The second part is about module TestRunner, the program that runs the   *)
(* kernel's tests, the one of that system call among them: its safety      *)
(* properties follow from where the runner is (Phases), what that says of  *)
(* the child (Child), and when the child can have ended unseen (Unseen).   *)
(***************************************************************************)
EXTENDS ExceptionContext, TestRunner, Integers, SequenceTheorems, TLAPS

\* Where the vector may be.
Labels == {"program", "save", "save_system", "handler", "restore",
           "write_system", "load", "panicked"}

\* What a register may hold.
Val == {"junk", "sp", "vector", "svc", "abort", "masked"}
         \cup ({"x"} \X Gpr \X Nat) \cup ({"pstate"} \X Nat)
         \cup (Labels \X Nat \X Nat)

\* A frame, and the machine an exception interrupts.
Frame   == [0..ESR -> Val]
Machine == [reg : [Gpr -> Val], elr : Val, spsr : Val, esr : Val]

\* Every variable holds a value of its type.
TypeInv ==
    /\ reg \in [Gpr -> Val]
    /\ sys \in [elr : Val, spsr : Val, esr : Val]
    /\ stack \in Seq(Frame) /\ taken \in Seq(Machine)
    /\ pc \in Labels /\ n \in 0..Pairs
    /\ calls \in 0..MaxCalls /\ faults \in 0..MaxFaults

\* There is a frame for every exception that was taken, and a system call is
\* taken by the program only.
Depth ==
    /\ Len(stack) = Len(taken)
    /\ pc = "program" <=> Len(stack) = 0
    /\ Len(stack) > 0 /\ Top(taken).esr = "svc" => Len(stack) = 1

\* While the frame is filled: the registers are still those of the program, or
\* already in the frame, and ELR, SPSR and ESR are those of this exception.
Saving ==
    /\ pc = "save" =>
         /\ reg = Top(taken).reg
         /\ sys.elr = Top(taken).elr /\ sys.spsr = Top(taken).spsr
         /\ sys.esr = Top(taken).esr
         /\ \A i \in 0..2 * n - 1 : Top(stack)[i] = Top(taken).reg[i]
    /\ pc = "save_system" =>
         /\ reg[lr] = Top(taken).reg[lr]
         /\ reg[1] = Top(taken).elr /\ reg[2] = Top(taken).spsr
         /\ reg[3] = Top(taken).esr
         /\ \A i \in 0..lr - 1 : Top(stack)[i] = Top(taken).reg[i]

\* The frame is the machine of the exception.
Framed ==
    /\ \A i \in Gpr : Top(stack)[i] = Top(taken).reg[i]
    /\ Top(stack)[ELR] = Top(taken).elr /\ Top(stack)[SPSR] = Top(taken).spsr
    /\ Top(stack)[ESR] = Top(taken).esr

\* While it is loaded: x19 and x20 carry SPSR and ELR, and are loaded like
\* every other register when both have been written.
Restoring ==
    /\ pc \in {"handler", "restore", "write_system", "load"} => Framed
    /\ pc \in {"restore", "write_system", "load"} => Top(taken).esr = "svc"
    /\ pc \in {"restore", "write_system"} => n = 0
    /\ pc = "write_system" =>
         reg[19] = Top(taken).spsr /\ reg[20] = Top(taken).elr
    /\ pc \in {"write_system", "load"} => reg[lr] = Top(taken).reg[lr]
    /\ pc = "load" =>
         /\ sys.elr = Top(taken).elr /\ sys.spsr = Top(taken).spsr
         /\ \A i \in 0..2 * n - 1 : reg[i] = Top(taken).reg[i]

\* The inductive invariant.
IInv == TypeInv /\ Depth /\ Saving /\ Restoring

-----------------------------------------------------------------------------
(* The stack.                                                              *)

\* A new frame is the top one.
LEMMA TopAppend ==
    ASSUME NEW S, NEW s \in Seq(S), NEW x \in S
    PROVE  /\ Append(s, x) \in Seq(S) /\ Len(Append(s, x)) = Len(s) + 1
           /\ Top(Append(s, x)) = x
BY DEF Top

\* Writing to the top frame changes no other.
LEMMA TopSet ==
    ASSUME NEW S, NEW s \in Seq(S), NEW x \in S, Len(s) > 0
    PROVE  /\ Top(s) \in S /\ SetTop(s, x) \in Seq(S)
           /\ Len(SetTop(s, x)) = Len(s) /\ Top(SetTop(s, x)) = x
BY DEF Top, SetTop

\* Without its top frame the stack is one frame shorter.
LEMMA PopType ==
    ASSUME NEW S, NEW s \in Seq(S), Len(s) > 0
    PROVE  Pop(s) \in Seq(S) /\ Len(Pop(s)) = Len(s) - 1
<1>1. PICK k : k = Len(s) - 1
  OBVIOUS
<1>2. k \in Nat /\ k <= Len(s)
  BY <1>1
<1>3. \A i \in 1..k : s[i] \in S
  BY <1>2
<1>4. SubSeq(s, 1, k) \in Seq(S) /\ Len(SubSeq(s, 1, k)) = k
  BY <1>2, <1>3, SubSeqProperties
<1> QED
  BY <1>1, <1>4 DEF Pop

\* The registers, and the fields of a frame.
LEMMA Registers ==
    /\ Pairs \in Nat /\ lr \in Nat /\ lr = 2 * Pairs /\ lr > 20
    /\ Gpr = 0..lr /\ {0, 1, 2, 3, 19, 20, lr} \subseteq Gpr
    /\ ELR = lr + 1 /\ SPSR = lr + 2 /\ ESR = lr + 3
    /\ Gpr \subseteq 0..ESR /\ {ELR, SPSR, ESR} \subseteq 0..ESR
    /\ \A k \in 0..Pairs-1 : 2 * k \in 0..lr-1 /\ 2 * k + 1 \in 0..lr-1
    /\ MaxCalls \in Nat /\ MaxFaults \in Nat
<1>1. Pairs \in Nat /\ Pairs > 10 /\ MaxCalls \in Nat /\ MaxFaults \in Nat
  BY ContextAssumption
<1>2. lr \in Nat /\ lr = 2 * Pairs /\ lr > 20 /\ Gpr = 0..lr
  BY <1>1 DEF lr, Gpr
<1>3. ELR = lr + 1 /\ SPSR = lr + 2 /\ ESR = lr + 3
  BY DEF ELR, SPSR, ESR
<1> HIDE DEF lr, Gpr, ELR, SPSR, ESR
<1>4. \A k \in 0..Pairs-1 : 2 * k \in 0..lr-1 /\ 2 * k + 1 \in 0..lr-1
  BY <1>1, <1>2
<1> QED
  BY <1>1, <1>2, <1>3, <1>4

\* What the registers are given is what a register may hold.
LEMMA Values ==
    /\ {"junk", "sp", "vector", "svc", "abort", "masked"} \subseteq Val
    /\ \A i \in Gpr, k \in Nat : Value(i, k) \in Val
    /\ \A k \in Nat : <<"pstate", k>> \in Val
    /\ \A l \in Labels, k \in Nat, c \in Nat : <<l, k, c>> \in Val
<1>1. \A i \in Gpr, k \in Nat : Value(i, k) \in {"x"} \X Gpr \X Nat
  BY DEF Value
<1>2. \A k \in Nat : <<"pstate", k>> \in {"pstate"} \X Nat
  OBVIOUS
<1>3. \A l \in Labels, k \in Nat, c \in Nat : <<l, k, c>> \in Labels \X Nat \X Nat
  OBVIOUS
<1> QED
  BY <1>1, <1>2, <1>3 DEF Val

\* The top of the stack.
LEMMA Tops ==
    ASSUME TypeInv, Depth, pc # "program"
    PROVE  /\ Len(stack) > 0 /\ Len(taken) > 0 /\ Len(stack) \in Nat
           /\ Top(stack) \in Frame /\ Top(taken) \in Machine
           /\ taken # <<>>
<1>1. stack \in Seq(Frame) /\ taken \in Seq(Machine)
  BY DEF TypeInv
<1>2. Len(stack) \in Nat /\ Len(stack) # 0 /\ Len(taken) = Len(stack)
  BY <1>1 DEF Depth
<1> QED
  BY <1>1, <1>2 DEF Top

-----------------------------------------------------------------------------
(* Steps.                                                                  *)

\* The program starts without a frame.
LEMMA InitHolds == Init => IInv
<1> SUFFICES ASSUME Init PROVE IInv
  OBVIOUS
<1>1. reg \in [Gpr -> Val] /\ sys \in [elr : Val, spsr : Val, esr : Val]
  BY Values DEF Init
<1>2. TypeInv
  BY <1>1, Registers DEF Init, TypeInv, Labels
<1>3. Len(stack) = 0 /\ Len(taken) = 0
  BY DEF Init
<1> QED
  BY <1>2, <1>3 DEF Init, IInv, Depth, Saving, Restoring

\* An exception makes a frame of its own.
LEMMA ExceptionStep ==
    ASSUME IInv, NEW cause \in {"svc", "abort"}, NEW pstate \in Val,
           Exception(cause, pstate), UNCHANGED reg,
           cause = "svc" => pc = "program",
           calls' \in 0..MaxCalls, faults' \in 0..MaxFaults
    PROVE  IInv'
<1>1. TypeInv /\ Depth
  BY DEF IInv
<1> DEFINE at == <<pc, n, calls>>
           m == [reg |-> reg, elr |-> at, spsr |-> pstate, esr |-> cause]
           f == [i \in 0..ESR |-> "junk"]
<1>2. at \in Val /\ cause \in Val
  <2>1. pc \in Labels /\ n \in Nat /\ calls \in Nat
    BY <1>1, Registers DEF TypeInv
  <2> QED
    BY <2>1, Values
<1>3. m \in Machine /\ f \in Frame
  BY <1>1, <1>2, Values DEF TypeInv, Machine, Frame
<1>4. /\ m.reg = reg /\ m.elr = at /\ m.spsr = pstate /\ m.esr = cause
  OBVIOUS
<1>5. /\ sys' = [elr |-> at, spsr |-> pstate, esr |-> cause]
      /\ stack' = Append(stack, f) /\ taken' = Append(taken, m)
      /\ pc' = "save" /\ n' = 0 /\ reg' = reg
  BY DEF Exception
<1> HIDE DEF at, m, f
<1>6. /\ stack \in Seq(Frame) /\ taken \in Seq(Machine)
      /\ Len(stack) \in Nat /\ Len(taken) = Len(stack)
  BY <1>1 DEF TypeInv, Depth
<1>7. /\ stack' \in Seq(Frame) /\ taken' \in Seq(Machine)
      /\ Len(stack') = Len(stack) + 1 /\ Len(taken') = Len(taken) + 1
      /\ Top(taken)' = m
  <2>1. Append(stack, f) \in Seq(Frame) /\ Len(Append(stack, f)) = Len(stack) + 1
    BY <1>3, <1>6, TopAppend
  <2>2. /\ Append(taken, m) \in Seq(Machine) /\ Len(Append(taken, m)) = Len(taken) + 1
        /\ Top(Append(taken, m)) = m
    BY <1>3, <1>6, TopAppend
  <2>3. Top(taken)' = Top(Append(taken, m))
    BY <1>5 DEF Top
  <2> QED
    BY <1>5, <2>1, <2>2, <2>3
<1>8. TypeInv'
  <2>1. sys' \in [elr : Val, spsr : Val, esr : Val]
    BY <1>2, <1>5
  <2> QED
    BY <1>1, <1>5, <1>7, <2>1, Registers DEF TypeInv, Labels
<1>9. Depth'
  <2>1. cause = "svc" => Len(stack) = 0
    BY <1>1 DEF Depth
  <2> QED
    BY <1>4, <1>5, <1>6, <1>7, <2>1 DEF Depth
<1>10. Saving'
  <2>1. \A i \in 0..2 * n' - 1 : FALSE
    BY <1>5
  <2>2. sys'.elr = at /\ sys'.spsr = pstate /\ sys'.esr = cause
    BY <1>5
  <2> QED
    BY <1>4, <1>5, <1>7, <2>1, <2>2 DEF Saving
<1>11. Restoring'
  BY <1>5 DEF Restoring
<1> QED
  BY <1>8, <1>9, <1>10, <1>11 DEF IInv

\* A step that writes to the frame.
LEMMA FrameWritten ==
    ASSUME TypeInv, Depth, pc # "program", NEW f \in Frame, stack' = SetTop(stack, f),
           UNCHANGED <<taken, calls, faults>>, pc' # "program"
    PROVE  /\ stack' \in Seq(Frame) /\ Top(stack)' = f /\ Top(taken)' = Top(taken)
           /\ Depth'
<1>1. stack \in Seq(Frame) /\ Len(stack) > 0
  BY Tops DEF TypeInv
<1>2. /\ SetTop(stack, f) \in Seq(Frame) /\ Len(SetTop(stack, f)) = Len(stack)
      /\ Top(SetTop(stack, f)) = f
  BY <1>1, TopSet
<1>3. Top(stack)' = f /\ Top(taken)' = Top(taken)
  BY <1>2 DEF Top
<1> QED
  BY <1>1, <1>2, <1>3 DEF Depth

\* A step that leaves it alone.
LEMMA FrameKept ==
    ASSUME Depth, pc # "program", UNCHANGED <<stack, taken>>, pc' # "program"
    PROVE  /\ Top(stack)' = Top(stack) /\ Top(taken)' = Top(taken) /\ Depth'
<1>1. Top(stack)' = Top(stack) /\ Top(taken)' = Top(taken)
  BY DEF Top
<1> QED
  BY <1>1 DEF Depth

\* stp: two more registers of the program are in the frame.
LEMMA SavePairStep == ASSUME IInv, SavePair PROVE IInv'
<1> DEFINE t == Top(taken)
           f == [Top(stack) EXCEPT ![2 * n] = reg[2 * n], ![2 * n + 1] = reg[2 * n + 1]]
<1>1. TypeInv /\ Depth /\ pc = "save" /\ n < Pairs
  BY DEF IInv, SavePair
<1>2. Top(stack) \in Frame /\ t \in Machine
  BY <1>1, Tops
<1>3. PICK k \in 0..Pairs-1 : k = n
  BY <1>1, Registers DEF TypeInv
<1>4. /\ 2 * k \in 0..ESR /\ 2 * k + 1 \in 0..ESR /\ 2 * k \in Gpr /\ 2 * k + 1 \in Gpr
  BY Registers
<1>5. /\ f \in Frame /\ f[2 * k] = reg[2 * k] /\ f[2 * k + 1] = reg[2 * k + 1]
      /\ \A i \in 0..ESR : i # 2 * k /\ i # 2 * k + 1 => f[i] = Top(stack)[i]
  <2>1. reg[2 * k] \in Val /\ reg[2 * k + 1] \in Val
    BY <1>1, <1>4 DEF TypeInv
  <2>2. 2 * k # 2 * k + 1
    OBVIOUS
  <2> QED
    BY <1>2, <1>3, <1>4, <2>1, <2>2 DEF Frame
<1>6. /\ stack' = SetTop(stack, f) /\ n' = k + 1
      /\ UNCHANGED <<reg, sys, pc, calls, faults, taken>>
  BY <1>3 DEF SavePair
<1> HIDE DEF f
<1>7. stack' \in Seq(Frame) /\ Top(stack)' = f /\ Top(taken)' = t /\ Depth'
  BY <1>1, <1>5, <1>6, FrameWritten
<1>8. TypeInv'
  BY <1>1, <1>6, <1>7, Registers DEF TypeInv
<1>9. Saving'
  <2>1. /\ reg = t.reg /\ sys.elr = t.elr /\ sys.spsr = t.spsr /\ sys.esr = t.esr
        /\ \A i \in 0..2 * k - 1 : Top(stack)[i] = t.reg[i]
    BY <1>1, <1>3 DEF IInv, Saving
  <2>2. ASSUME NEW i \in 0..2 * (k + 1) - 1 PROVE f[i] = t.reg[i]
    <3>1. i = 2 * k \/ i = 2 * k + 1 \/ (i \in 0..2 * k - 1 /\ i \in 0..ESR)
      BY <1>4, Registers
    <3>2. i \in 0..2 * k - 1 => i # 2 * k /\ i # 2 * k + 1
      OBVIOUS
    <3> QED
      BY <1>5, <2>1, <3>1, <3>2
  <2> QED
    BY <1>1, <1>6, <1>7, <2>1, <2>2 DEF Saving
<1>10. Restoring'
  BY <1>1, <1>6 DEF Restoring
<1> QED
  BY <1>7, <1>8, <1>9, <1>10 DEF IInv

\* mrs x1 to x3: what they held is in the frame by now.
LEMMA ReadSystemStep == ASSUME IInv, ReadSystemRegisters PROVE IInv'
<1>1. TypeInv /\ Depth /\ pc = "save" /\ n = Pairs
  BY DEF IInv, ReadSystemRegisters
<1>2. /\ reg' = [reg EXCEPT ![1] = sys.elr, ![2] = sys.spsr, ![3] = sys.esr]
      /\ pc' = "save_system" /\ UNCHANGED <<sys, stack, n, calls, faults, taken>>
  BY DEF ReadSystemRegisters
<1>3. Top(stack)' = Top(stack) /\ Top(taken)' = Top(taken) /\ Depth'
  BY <1>1, <1>2, FrameKept
<1>4. 1 \in Gpr /\ 2 \in Gpr /\ 3 \in Gpr /\ lr \in Gpr /\ lr # 1 /\ lr # 2 /\ lr # 3
  BY Registers
<1>5. /\ reg' \in [Gpr -> Val] /\ reg'[lr] = reg[lr]
      /\ reg'[1] = sys.elr /\ reg'[2] = sys.spsr /\ reg'[3] = sys.esr
  <2>1. reg \in [Gpr -> Val] /\ sys.elr \in Val /\ sys.spsr \in Val /\ sys.esr \in Val
    BY <1>1 DEF TypeInv
  <2> QED
    BY <1>2, <1>4, <2>1
<1>6. TypeInv'
  BY <1>1, <1>2, <1>5 DEF TypeInv, Labels
<1>7. Saving'
  <2>1. 2 * n - 1 = lr - 1
    BY <1>1, Registers
  <2> QED
    BY <1>1, <1>2, <1>3, <1>5, <2>1 DEF IInv, Saving
<1>8. Restoring'
  BY <1>2 DEF Restoring
<1> QED
  BY <1>3, <1>6, <1>7, <1>8 DEF IInv

\* With lr and the system registers the frame is complete.
LEMMA SaveSystemStep == ASSUME IInv, SaveSystemRegisters PROVE IInv'
<1> DEFINE t == Top(taken)
           f == [Top(stack) EXCEPT ![lr] = reg[lr], ![ELR] = reg[1],
                                   ![SPSR] = reg[2], ![ESR] = reg[3]]
<1>1. TypeInv /\ Depth /\ pc = "save_system"
  BY DEF IInv, SaveSystemRegisters
<1>2. Top(stack) \in Frame /\ t \in Machine
  BY <1>1, Tops
<1>3. /\ lr \in 0..ESR /\ ELR \in 0..ESR /\ SPSR \in 0..ESR /\ ESR \in 0..ESR
      /\ lr # ELR /\ lr # SPSR /\ lr # ESR /\ ELR # SPSR /\ ELR # ESR /\ SPSR # ESR
      /\ \A i \in 0..lr-1 : i \in 0..ESR /\ i # lr /\ i # ELR /\ i # SPSR /\ i # ESR
  BY Registers
<1>4. reg \in [Gpr -> Val] /\ reg[lr] \in Val /\ reg[1] \in Val /\ reg[2] \in Val /\ reg[3] \in Val
  BY <1>1, Registers DEF TypeInv
<1>5. /\ f \in Frame /\ f[lr] = reg[lr] /\ f[ELR] = reg[1] /\ f[SPSR] = reg[2]
      /\ f[ESR] = reg[3] /\ \A i \in 0..lr-1 : f[i] = Top(stack)[i]
  BY <1>2, <1>3, <1>4 DEF Frame
<1>6. /\ stack' = SetTop(stack, f) /\ reg' = [reg EXCEPT ![0] = "sp", ![lr] = "vector"]
      /\ pc' = "handler" /\ UNCHANGED <<sys, n, calls, faults, taken>>
  BY DEF SaveSystemRegisters
<1> HIDE DEF f
<1>7. stack' \in Seq(Frame) /\ Top(stack)' = f /\ Top(taken)' = t /\ Depth'
  BY <1>1, <1>5, <1>6, FrameWritten
<1>8. TypeInv'
  <2>1. reg' \in [Gpr -> Val]
    BY <1>4, <1>6, Values
  <2> QED
    BY <1>1, <1>6, <1>7, <2>1 DEF TypeInv, Labels
<1>9. Saving'
  BY <1>6 DEF Saving
<1>10. Restoring'
  <2>1. /\ reg[lr] = t.reg[lr] /\ reg[1] = t.elr /\ reg[2] = t.spsr /\ reg[3] = t.esr
        /\ \A i \in 0..lr - 1 : Top(stack)[i] = t.reg[i]
    BY <1>1 DEF IInv, Saving
  <2>2. \A i \in Gpr : i = lr \/ i \in 0..lr-1
    BY Registers
  <2>3. \A i \in Gpr : f[i] = t.reg[i]
    BY <1>5, <2>1, <2>2
  <2>4. Framed'
    BY <1>5, <1>7, <2>1, <2>3 DEF Framed
  <2> QED
    BY <1>6, <2>4 DEF Restoring
<1> QED
  BY <1>7, <1>8, <1>9, <1>10 DEF IInv

\* The handler changes the registers a function may change, and no frame.
LEMMA HandlerReturnsStep == ASSUME IInv, HandlerReturns PROVE IInv'
<1>1. TypeInv /\ Depth /\ pc = "handler" /\ Framed /\ Top(stack)[ESR] = "svc"
  BY DEF IInv, HandlerReturns, Restoring
<1>2. /\ reg' = [i \in Gpr |-> IF i \in CallerSaved THEN "junk" ELSE reg[i]]
      /\ pc' = "restore" /\ n' = 0 /\ UNCHANGED <<sys, stack, calls, faults, taken>>
  BY DEF HandlerReturns
<1>3. Top(stack)' = Top(stack) /\ Top(taken)' = Top(taken) /\ Depth'
  BY <1>1, <1>2, FrameKept
<1>4. TypeInv'
  <2>1. reg' \in [Gpr -> Val]
    BY <1>1, <1>2, Values DEF TypeInv
  <2> QED
    BY <1>1, <1>2, <2>1, Registers DEF TypeInv, Labels
<1>5. Restoring'
  BY <1>1, <1>2, <1>3 DEF Restoring, Framed
<1> QED
  BY <1>2, <1>3, <1>4, <1>5 DEF IInv, Saving

\* A panic never returns, and whatever it leaves is not looked at.
LEMMA HandlerPanicsStep == ASSUME IInv, HandlerPanics PROVE IInv'
<1>1. TypeInv /\ Depth /\ pc = "handler"
  BY DEF IInv, HandlerPanics
<1>2. pc' = "panicked" /\ UNCHANGED <<reg, sys, stack, n, calls, faults, taken>>
  BY DEF HandlerPanics
<1>3. Depth'
  BY <1>1, <1>2, FrameKept
<1>4. TypeInv'
  BY <1>1, <1>2 DEF TypeInv, Labels
<1> QED
  BY <1>2, <1>3, <1>4 DEF IInv, Saving, Restoring

\* The frame's SPSR, lr and ELR are in x19, lr and x20.
LEMMA LoadSystemStep == ASSUME IInv, LoadSystemRegisters PROVE IInv'
<1> DEFINE f == Top(stack)
           t == Top(taken)
<1>1. TypeInv /\ Depth /\ pc = "restore" /\ Framed /\ n = 0 /\ t.esr = "svc"
  BY DEF IInv, LoadSystemRegisters, Restoring
<1>2. /\ reg' = [reg EXCEPT ![19] = f[SPSR], ![lr] = f[lr], ![20] = f[ELR]]
      /\ pc' = "write_system" /\ UNCHANGED <<sys, stack, n, calls, faults, taken>>
  BY DEF LoadSystemRegisters
<1>3. Top(stack)' = f /\ Top(taken)' = t /\ Depth'
  BY <1>1, <1>2, FrameKept
<1>4. f[SPSR] \in Val /\ f[lr] \in Val /\ f[ELR] \in Val
  BY <1>1, Tops, Registers DEF Frame
<1>5. 19 \in Gpr /\ 20 \in Gpr /\ lr \in Gpr /\ lr # 19 /\ lr # 20
  BY Registers
<1>6. /\ reg' \in [Gpr -> Val] /\ reg'[19] = f[SPSR] /\ reg'[20] = f[ELR]
      /\ reg'[lr] = f[lr]
  <2>1. reg \in [Gpr -> Val]
    BY <1>1 DEF TypeInv
  <2> QED
    BY <1>2, <1>4, <1>5, <2>1
<1>7. TypeInv'
  BY <1>1, <1>2, <1>6 DEF TypeInv, Labels
<1>8. Restoring'
  BY <1>1, <1>2, <1>3, <1>5, <1>6 DEF Restoring, Framed
<1> QED
  BY <1>2, <1>3, <1>7, <1>8 DEF IInv, Saving

\* msr: SPSR and ELR are those of the frame, and x19 and x20 are free.
LEMMA WriteSystemStep == ASSUME IInv, WriteSystemRegisters PROVE IInv'
<1> DEFINE f == Top(stack)
           t == Top(taken)
<1>1. /\ TypeInv /\ Depth /\ pc = "write_system" /\ Framed /\ n = 0 /\ t.esr = "svc"
      /\ reg[19] = t.spsr /\ reg[20] = t.elr /\ reg[lr] = t.reg[lr]
  BY DEF IInv, WriteSystemRegisters, Restoring
<1>2. /\ sys' = [sys EXCEPT !.spsr = reg[19], !.elr = reg[20]]
      /\ pc' = "load" /\ UNCHANGED <<reg, stack, n, calls, faults, taken>>
  BY DEF WriteSystemRegisters
<1>3. Top(stack)' = f /\ Top(taken)' = t /\ Depth'
  BY <1>1, <1>2, FrameKept
<1>4. /\ sys' \in [elr : Val, spsr : Val, esr : Val]
      /\ sys'.elr = t.elr /\ sys'.spsr = t.spsr
  <2>1. sys \in [elr : Val, spsr : Val, esr : Val] /\ reg[19] \in Val /\ reg[20] \in Val
    BY <1>1, Registers DEF TypeInv
  <2> QED
    BY <1>1, <1>2, <2>1
<1>5. TypeInv'
  BY <1>1, <1>2, <1>4 DEF TypeInv, Labels
<1>6. Restoring'
  <2>1. \A i \in 0..2 * n' - 1 : FALSE
    BY <1>1, <1>2
  <2> QED
    BY <1>1, <1>2, <1>3, <1>4, <2>1 DEF Restoring, Framed
<1> QED
  BY <1>2, <1>3, <1>5, <1>6 DEF IInv, Saving

\* ldp: two more registers are those of the program.
LEMMA LoadPairStep == ASSUME IInv, LoadPair PROVE IInv'
<1> DEFINE f == Top(stack)
           t == Top(taken)
<1>1. /\ TypeInv /\ Depth /\ pc = "load" /\ Framed /\ n < Pairs /\ t.esr = "svc"
      /\ reg[lr] = t.reg[lr] /\ sys.elr = t.elr /\ sys.spsr = t.spsr
  BY DEF IInv, LoadPair, Restoring
<1>2. PICK k \in 0..Pairs-1 : k = n
  BY <1>1, Registers DEF TypeInv
<1>3. /\ reg' = [reg EXCEPT ![2 * k] = f[2 * k], ![2 * k + 1] = f[2 * k + 1]]
      /\ n' = k + 1 /\ UNCHANGED <<sys, stack, pc, calls, faults, taken>>
  BY <1>2 DEF LoadPair
<1>4. Top(stack)' = f /\ Top(taken)' = t /\ Depth'
  BY <1>1, <1>3, FrameKept
<1>5. 2 * k \in Gpr /\ 2 * k + 1 \in Gpr /\ 2 * k # lr /\ 2 * k + 1 # lr /\ 2 * k # 2 * k + 1
      /\ 2 * k \in 0..ESR /\ 2 * k + 1 \in 0..ESR
  BY Registers
<1>6. f[2 * k] \in Val /\ f[2 * k + 1] \in Val
  BY <1>1, <1>5, Tops DEF Frame
<1>7. /\ reg' \in [Gpr -> Val] /\ reg'[2 * k] = f[2 * k] /\ reg'[2 * k + 1] = f[2 * k + 1]
      /\ \A i \in Gpr : i # 2 * k /\ i # 2 * k + 1 => reg'[i] = reg[i]
  <2>1. reg \in [Gpr -> Val]
    BY <1>1 DEF TypeInv
  <2> QED
    BY <1>3, <1>5, <1>6, <2>1
<1>8. TypeInv'
  BY <1>1, <1>3, <1>7, Registers DEF TypeInv
<1>9. ASSUME NEW i \in 0..2 * (k + 1) - 1 PROVE reg'[i] = t.reg[i]
  <2>1. i = 2 * k \/ i = 2 * k + 1 \/ (i \in 0..2 * k - 1 /\ i \in Gpr)
    BY <1>5, Registers
  <2>2. i \in 0..2 * k - 1 => i # 2 * k /\ i # 2 * k + 1
    OBVIOUS
  <2>3. \A j \in 0..2 * k - 1 : reg[j] = t.reg[j]
    BY <1>1, <1>2 DEF IInv, Restoring
  <2>4. f[2 * k] = t.reg[2 * k] /\ f[2 * k + 1] = t.reg[2 * k + 1]
    BY <1>1, <1>5 DEF Framed
  <2> QED
    BY <1>7, <2>1, <2>2, <2>3, <2>4
<1>10. reg'[lr] = t.reg[lr] /\ lr \in Gpr
  BY <1>1, <1>5, <1>7, Registers
<1>11. Restoring'
  BY <1>1, <1>3, <1>4, <1>9, <1>10 DEF Restoring, Framed
<1> QED
  BY <1>1, <1>3, <1>4, <1>8, <1>11 DEF IInv, Saving

\* The frame that is left was the only one.
LEMMA EretStep == ASSUME IInv, Eret PROVE IInv'
<1>1. TypeInv /\ Depth /\ pc = "load" /\ Top(taken).esr = "svc"
  BY DEF IInv, Eret, Restoring
<1>2. /\ stack' = Pop(stack) /\ taken' = Pop(taken)
      /\ reg' = [i \in Gpr |-> Value(i, calls)]
      /\ pc' = "program" /\ n' = 0 /\ UNCHANGED <<sys, calls, faults>>
  BY DEF Eret
<1>3. /\ stack \in Seq(Frame) /\ taken \in Seq(Machine) /\ Len(stack) = 1 /\ Len(taken) = 1
  BY <1>1, Tops DEF TypeInv, Depth
<1>4. /\ stack' \in Seq(Frame) /\ taken' \in Seq(Machine)
      /\ Len(stack') = 0 /\ Len(taken') = 0
  <2>1. Pop(stack) \in Seq(Frame) /\ Len(Pop(stack)) = 0
    <3>1. Len(stack) > 0
      BY <1>3
    <3>2. Pop(stack) \in Seq(Frame) /\ Len(Pop(stack)) = Len(stack) - 1
      BY ONLY <1>3, <3>1, PopType
    <3> QED
      BY <1>3, <3>2
  <2>2. Pop(taken) \in Seq(Machine) /\ Len(Pop(taken)) = 0
    <3>1. Len(taken) > 0
      BY <1>3
    <3>2. Pop(taken) \in Seq(Machine) /\ Len(Pop(taken)) = Len(taken) - 1
      BY ONLY <1>3, <3>1, PopType
    <3> QED
      BY <1>3, <3>2
  <2> QED
    BY <1>2, <2>1, <2>2
<1>5. TypeInv'
  <2>1. reg' \in [Gpr -> Val]
    BY <1>1, <1>2, Values, Registers DEF TypeInv
  <2> QED
    BY <1>1, <1>2, <1>4, <2>1, Registers DEF TypeInv, Labels
<1> QED
  BY <1>2, <1>4, <1>5 DEF IInv, Depth, Saving, Restoring

\* No step of the program, of a fault or of the vector leaves the invariant.
LEMMA NextStep == IInv /\ [Next]_vars => IInv'
<1> SUFFICES ASSUME IInv, [Next]_vars PROVE IInv'
  OBVIOUS
<1>1. CASE Svc
  <2>1. calls' \in 0..MaxCalls /\ calls \in Nat /\ faults \in 0..MaxFaults
    BY <1>1, Registers DEF Svc, IInv, TypeInv
  <2>2. <<"pstate", calls>> \in Val
    BY <2>1, Values
  <2> QED
    BY <1>1, <2>1, <2>2, ExceptionStep DEF Svc
<1>2. CASE Fault
  <2>1. faults' \in 0..MaxFaults /\ calls \in 0..MaxCalls
    BY <1>2, Registers DEF Fault, IInv, TypeInv
  <2>2. "masked" \in Val
    BY Values
  <2> QED
    BY <1>2, <2>1, <2>2, ExceptionStep DEF Fault
<1>3. CASE Vector
  BY <1>3, SavePairStep, ReadSystemStep, SaveSystemStep, HandlerReturnsStep,
     HandlerPanicsStep, LoadSystemStep, WriteSystemStep, LoadPairStep, EretStep
  DEF Vector
<1>4. CASE UNCHANGED vars
  BY <1>4 DEF vars, IInv, TypeInv, Depth, Saving, Restoring, Framed, Top
<1> QED
  BY <1>1, <1>2, <1>3, <1>4 DEF Next

\* The frame and the registers agree with the interrupted machine at every
\* instruction of CALL_WITH_CONTEXT and of the restore.
THEOREM Invariance == Spec => []IInv
BY InitHolds, NextStep, PTL DEF Spec

\* The context a handler gets is the machine at the moment of its exception,
\* for every order of calls and faults, also of one within another.
THEOREM ContextIsTheMachine == Spec => []ContextTruthful
<1>1. IInv => ContextTruthful
  BY DEF IInv, Restoring, Framed, ContextTruthful
<1> QED
  BY <1>1, Invariance, PTL

\* After a system call the program goes on where it was, in every register,
\* whatever the handler did to the ones it may change.
THEOREM CallsResume == Spec => []ResumesExactly
<1>1. IInv => ResumesExactly
  <2> SUFFICES ASSUME IInv, pc = "load", n = Pairs PROVE ResumesExactly
    BY DEF ResumesExactly
  <2>1. /\ sys.elr = Top(taken).elr /\ sys.spsr = Top(taken).spsr
        /\ reg[lr] = Top(taken).reg[lr]
        /\ \A i \in 0..2 * n - 1 : reg[i] = Top(taken).reg[i]
    BY DEF IInv, Restoring
  <2>2. \A i \in Gpr : i = lr \/ i \in 0..2 * n - 1
    BY Registers
  <2>3. reg \in [Gpr -> Val] /\ Top(taken).reg \in [Gpr -> Val]
    BY Tops DEF IInv, TypeInv, Machine
  <2>4. reg = Top(taken).reg
    BY <2>1, <2>2, <2>3
  <2> QED
    BY <2>1, <2>4 DEF ResumesExactly
<1> QED
  BY <1>1, Invariance, PTL

\* __exception_restore_context is reached for a system call of the program
\* only, with its frame alone on the stack: a fault that strikes a handler
\* never has a handler to go back to.
THEOREM OnlyCallsReturn ==
    Spec => [](pc \in {"restore", "write_system", "load"} =>
                   Top(taken).esr = "svc" /\ Len(stack) = 1)
<1>1. IInv => (pc \in {"restore", "write_system", "load"} =>
                   Top(taken).esr = "svc" /\ Len(stack) = 1)
  BY Tops DEF IInv, Restoring, Depth
<1> QED
  BY <1>1, Invariance, PTL

-----------------------------------------------------------------------------
(* The program that runs the tests.                                        *)

\* Where there is no child yet.
Preparing == {"arguments", "make_image", "environment", "spawn"}

\* Where a child that was spawned has not been waited for.
Waiting == {"deadline", "try_wait", "compare", "sleep", "kill", "reap"}

\* run returns once, and a child is there from spawn on.
Phases ==
    /\ rpc \in Preparing => qemu = "none" /\ verdict = "none"
    /\ rpc \in Waiting => qemu \in {"running", "exited"} /\ verdict = "none"
    /\ rpc = "remove" =>
         qemu # "none" /\ verdict \in {"success", "failed", "timed_out", "error"}
    /\ rpc = "done" => verdict # "none"
    /\ rpc = "done" /\ qemu = "none" => verdict = "error"
    /\ rpc = "done" /\ qemu # "none" => verdict = "panicked" \/ Removed
    /\ verdict = "panicked" => timeout > LastInstant - now

\* What the poll loop has learnt of the child is final.
Child ==
    /\ qemu \in {"none", "running"} => status = "none" /\ endedAt = "none"
    /\ killed => rpc \in {"reap", "remove", "done"}
    /\ status = "killed" => killed
    /\ qemu \in {"exited", "reaped"} => status # "none"
    /\ verdict \in {"success", "failed", "timed_out"} => qemu = "reaped"
    /\ verdict = "success" => status = "zero"
    /\ verdict = "failed" => status = "nonzero"

\* Behind a poll that found the child running, it can only have ended since.
Unseen ==
    rpc \in {"compare", "kill", "reap"} \/ verdict = "timed_out" =>
        /\ endedAt \in {"none", "compare", "kill", "reap"}
        /\ rpc # "compare" => now >= deadline

\* The inductive invariant of the runner.
RunnerInv == TypeOK /\ Phases /\ Child /\ Unseen

\* Before its first step the runner has no child and no verdict.
LEMMA RunnerStart == RunnerInit => RunnerInv
<1> SUFFICES ASSUME RunnerInit PROVE RunnerInv
  OBVIOUS
<1> USE DEF RunnerInit
<1>1. TypeOK
  <2>1. 0 \in 0..LastInstant
    BY RunnerAssumption
  <2> QED
    BY <2>1 DEF TypeOK
<1>2. Phases /\ Child /\ Unseen
  BY DEF Phases, Child, Unseen, Preparing, Waiting, Removed
<1> QED
  BY <1>1, <1>2 DEF RunnerInv

\* No step of the runner, of QEMU or of the clock leaves the invariant.
LEMMA RunnerStep == RunnerInv /\ [RunnerNext]_runnerVars => RunnerInv'
<1> SUFFICES ASSUME RunnerInv, [RunnerNext]_runnerVars PROVE RunnerInv'
  OBVIOUS
<1> USE RunnerAssumption DEF RunnerInv, TypeOK, Phases, Child, Unseen, Preparing, Waiting, Removed
<1>0. CASE Arguments
  BY <1>0 DEF Arguments, Return, child
<1>1. CASE MakeImage
  BY <1>1 DEF MakeImage, Return, child
<1>2. CASE RequiredEnv
  BY <1>2 DEF RequiredEnv, Return, child
<1>3. CASE Spawn
  BY <1>3 DEF Spawn, Return
<1>4. CASE SetDeadline
  <2>1. now + timeout \in Nat
    OBVIOUS
  <2> QED
    BY <1>4, <2>1 DEF SetDeadline, Return, child
<1>5. CASE WaitFails
  BY <1>5 DEF WaitFails, child
<1>6. CASE TryWait
  BY <1>6 DEF TryWait
<1>7. CASE Compare
  BY <1>7 DEF Compare, child
<1>8. CASE Sleep
  BY <1>8 DEF Sleep, child
<1>9. CASE Kill
  BY <1>9 DEF Kill
<1>10. CASE Reap
  BY <1>10 DEF Reap
<1>11. CASE RemoveImage
  <2> USE <1>11 DEF RemoveImage, child
  <2>1. TypeOK'
    OBVIOUS
  <2>2. Phases'
    OBVIOUS
  <2>3. Child' /\ Unseen'
    OBVIOUS
  <2> QED
    BY ONLY <2>1, <2>2, <2>3 DEF RunnerInv
<1>12. CASE QemuExits
  BY <1>12 DEF QemuExits
<1>13. CASE QemuDies
  BY <1>13 DEF QemuDies
<1>14. CASE Tick
  BY <1>14 DEF Tick, child
<1>15. CASE UNCHANGED runnerVars
  BY <1>15 DEF runnerVars, child
<1> QED
  BY <1>0, <1>1, <1>2, <1>3, <1>4, <1>5, <1>6, <1>7, <1>8, <1>9, <1>10, <1>11,
     <1>12, <1>13, <1>14, <1>15 DEF RunnerNext, Runner, Loop

\* The invariant holds throughout.
LEMMA RunnerInvariance == RunnerSpec => []RunnerInv
BY RunnerStart, RunnerStep, PTL DEF RunnerSpec

\* The runner's variables keep their types; in particular a deadline that was
\* set is an Instant, however large the timeout asked for.
THEOREM RunnerTypes == RunnerSpec => []TypeOK
<1>1. RunnerInv => TypeOK
  BY DEF RunnerInv
<1> QED
  BY RunnerInvariance, <1>1, PTL

\* Success and failure are those of QEMU, and no test that ended while the
\* runner slept is called timed out, for every order of steps.
THEOREM VerdictIsTrue == RunnerSpec => []VerdictTruthful
<1>1. RunnerInv => VerdictTruthful
  BY DEF RunnerInv, TypeOK, Phases, Child, Unseen, Preparing, Waiting, Removed, VerdictTruthful
<1> QED
  BY RunnerInvariance, <1>1, PTL

\* Whichever call fails, whenever QEMU ends and whatever the timeout: what an
\* outcome leaves behind.  Only an error and the panic of SetDeadline leave
\* anything, an error never both QEMU and an image it has not tried to remove.
THEOREM OutcomesLeaveOnly == RunnerSpec => []LeftoversOnlyOnError
<1>1. RunnerInv => LeftoversOnlyOnError
  BY DEF RunnerInv, TypeOK, Phases, Child, Removed, LeftoversOnlyOnError
<1> QED
  BY RunnerInvariance, <1>1, PTL
=============================================================================
