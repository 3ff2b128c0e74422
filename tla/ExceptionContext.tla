-------------------------- MODULE ExceptionContext --------------------------
(***************************************************************************)
(* The exception vectors: CALL_WITH_CONTEXT saves the interrupted          *)
(* program's registers in a frame on the stack, two at a time, and then    *)
(* the system registers; the handler returns from the system call of the   *)
(* tests and panics on anything else; __exception_restore_context loads    *)
(* the frame, through registers it restores afterwards.                    *)
(*                                                                         *)
(* A fault may strike at any instruction of this, and is an exception of   *)
(* its own that overwrites ELR, SPSR and ESR.                              *)
(***************************************************************************)
EXTENDS Naturals, Sequences

CONSTANTS Pairs,        \* pairs of registers below x30 (15)
          MaxCalls,     \* bound: system calls of the program
          MaxFaults     \* bound: faults in a behaviour

lr == 2 * Pairs
Gpr == 0..lr

\* What a function may change (AAPCS64).
CallerSaved == (0..18) \cup {lr}

ASSUME ContextAssumption ==
    /\ Pairs \in Nat /\ Pairs > 10
    /\ MaxCalls \in Nat /\ MaxFaults \in Nat

\* Offsets in ExceptionContext, in registers.
ELR == lr + 1  SPSR == lr + 2  ESR == lr + 3

VARIABLES
    reg,        \* x0 to x30
    sys,        \* ELR_EL1, SPSR_EL1, ESR_EL1
    stack,      \* one frame per exception being handled
    pc, n,      \* where the vector is, and the next pair
    calls, faults,
    taken       \* history: per frame, the machine when it was interrupted

vars == <<reg, sys, stack, pc, n, calls, faults, taken>>

Top(s) == s[Len(s)]
Pop(s) == SubSeq(s, 1, Len(s) - 1)
SetTop(s, f) == [s EXCEPT ![Len(s)] = f]

\* Whatever the program holds in a register during its k-th call.
Value(i, k) == <<"x", i, k>>

Init ==
    /\ reg = [i \in Gpr |-> Value(i, 0)]
    /\ sys = [elr |-> "junk", spsr |-> "junk", esr |-> "junk"]
    /\ stack = <<>> /\ taken = <<>>
    /\ pc = "program" /\ n = 0 /\ calls = 0 /\ faults = 0

\* The hardware takes an exception: the vector makes room for a frame.
Exception(cause, pstate) ==
    LET at == <<pc, n, calls>>
    IN  /\ sys' = [elr |-> at, spsr |-> pstate, esr |-> cause]
        /\ stack' = Append(stack, [i \in 0..ESR |-> "junk"])
        /\ taken' = Append(taken, [reg |-> reg, elr |-> at, spsr |-> pstate,
                                   esr |-> cause])
        /\ pc' = "save" /\ n' = 0

Svc ==
    /\ pc = "program" /\ calls < MaxCalls
    /\ calls' = calls + 1
    /\ Exception("svc", <<"pstate", calls>>)
    /\ UNCHANGED <<reg, faults>>

Fault ==
    /\ pc # "panicked" /\ faults < MaxFaults
    /\ faults' = faults + 1
    /\ Exception("abort", "masked")
    /\ UNCHANGED <<reg, calls>>

\* Fault variant: ELR is fetched into x1 before x1 is saved.
SavePair_SysFirst ==
    /\ pc = "save" /\ n < Pairs
    /\ LET r == IF n = 0 THEN [reg EXCEPT ![1] = sys.elr] ELSE reg
       IN  /\ reg' = r
           /\ stack' = SetTop(stack, [Top(stack) EXCEPT ![2 * n]     = r[2 * n],
                                                        ![2 * n + 1] = r[2 * n + 1]])
    /\ n' = n + 1
    /\ UNCHANGED <<sys, pc, calls, faults, taken>>

SavePair ==
    /\ pc = "save" /\ n < Pairs
    /\ stack' = SetTop(stack, [Top(stack) EXCEPT ![2 * n]     = reg[2 * n],
                                                 ![2 * n + 1] = reg[2 * n + 1]])
    /\ n' = n + 1
    /\ UNCHANGED <<reg, sys, pc, calls, faults, taken>>

ReadSystemRegisters ==
    /\ pc = "save" /\ n = Pairs
    /\ reg' = [reg EXCEPT ![1] = sys.elr, ![2] = sys.spsr, ![3] = sys.esr]
    /\ pc' = "save_system"
    /\ UNCHANGED <<sys, stack, n, calls, faults, taken>>

\* stp lr, x1; stp x2, x3; and the call, which leaves its return address in lr.
SaveSystemRegisters ==
    /\ pc = "save_system"
    /\ stack' = SetTop(stack, [Top(stack) EXCEPT ![lr] = reg[lr], ![ELR] = reg[1],
                                                 ![SPSR] = reg[2], ![ESR] = reg[3]])
    /\ reg' = [reg EXCEPT ![0] = "sp", ![lr] = "vector"]
    /\ pc' = "handler"
    /\ UNCHANGED <<sys, n, calls, faults, taken>>

\* current_elx_synchronous looks at the ESR of its frame.
HandlerReturns ==
    /\ pc = "handler" /\ Top(stack)[ESR] = "svc"
    /\ reg' = [i \in Gpr |-> IF i \in CallerSaved THEN "junk" ELSE reg[i]]
    /\ pc' = "restore" /\ n' = 0
    /\ UNCHANGED <<sys, stack, calls, faults, taken>>

HandlerPanics ==
    /\ pc = "handler" /\ Top(stack)[ESR] # "svc"
    /\ pc' = "panicked"
    /\ UNCHANGED <<reg, sys, stack, n, calls, faults, taken>>

\* ldr w19; ldp lr, x20.
LoadSystemRegisters ==
    /\ pc = "restore" /\ n = 0
    /\ reg' = [reg EXCEPT ![19] = Top(stack)[SPSR], ![lr] = Top(stack)[lr],
                          ![20] = Top(stack)[ELR]]
    /\ pc' = "write_system"
    /\ UNCHANGED <<sys, stack, n, calls, faults, taken>>

WriteSystemRegisters ==
    /\ pc = "write_system"
    /\ sys' = [sys EXCEPT !.spsr = reg[19], !.elr = reg[20]]
    /\ pc' = "load"
    /\ UNCHANGED <<reg, stack, n, calls, faults, taken>>

\* Fault variant: the pair of x20 is not loaded.
LoadPair_NotX20 ==
    /\ pc = "load" /\ n < Pairs
    /\ reg' = IF n = 10 THEN reg
              ELSE [reg EXCEPT ![2 * n]     = Top(stack)[2 * n],
                               ![2 * n + 1] = Top(stack)[2 * n + 1]]
    /\ n' = n + 1
    /\ UNCHANGED <<sys, stack, pc, calls, faults, taken>>

LoadPair ==
    /\ pc = "load" /\ n < Pairs
    /\ reg' = [reg EXCEPT ![2 * n]     = Top(stack)[2 * n],
                          ![2 * n + 1] = Top(stack)[2 * n + 1]]
    /\ n' = n + 1
    /\ UNCHANGED <<sys, stack, pc, calls, faults, taken>>

\* add sp; eret.  The program goes on and changes its registers.
Eret ==
    /\ pc = "load" /\ n = Pairs
    /\ stack' = Pop(stack) /\ taken' = Pop(taken)
    /\ reg' = [i \in Gpr |-> Value(i, calls)]
    /\ pc' = "program" /\ n' = 0
    /\ UNCHANGED <<sys, calls, faults>>

Vector ==
    \/ SavePair \/ ReadSystemRegisters \/ SaveSystemRegisters
    \/ HandlerReturns \/ HandlerPanics
    \/ LoadSystemRegisters \/ WriteSystemRegisters \/ LoadPair \/ Eret

Next == Svc \/ Fault \/ Vector
Spec == Init /\ [][Next]_vars

-----------------------------------------------------------------------------
(* Properties.                                                             *)

\* The context a handler gets - and a panic prints - is the machine at the
\* moment of the exception, with every field where struct ExceptionContext has
\* it, also when the exception struck in the middle of another one.
ContextTruthful ==
    pc = "handler" =>
        /\ \A i \in Gpr : Top(stack)[i] = Top(taken).reg[i]
        /\ Top(stack)[ELR] = Top(taken).elr /\ Top(stack)[SPSR] = Top(taken).spsr
        /\ Top(stack)[ESR] = Top(taken).esr

\* At the eret every register of the program is what it was at its system
\* call, the scratch registers of the restore included, whatever the handler
\* did to those it may change; and the eret leads back to where it was.
ResumesExactly ==
    pc = "load" /\ n = Pairs =>
        /\ reg = Top(taken).reg
        /\ sys.elr = Top(taken).elr /\ sys.spsr = Top(taken).spsr
=============================================================================
