------------------------------ MODULE EeProgram ------------------------------
(***************************************************************************)
(* What the recompiled code has to do: a thread of a guest program on the  *)
(* R5900, one instruction at a time, a branch together with its delay slot.*)
(* HLE routines stand in for the library functions of the guest: one step, *)
(* and back to $ra.                                                        *)
(***************************************************************************)
EXTENDS GuestCode

VARIABLES
    which,       \* the program
    pc,          \* the next instruction, 0 when the thread has returned
    regs         \* [ra, pointer, stack]

vars == <<which, pc, regs>>

program == Programs[which]

Stubs == {f.start : f \in {g \in program.funs : g.stub}}

Init ==
    /\ which \in DOMAIN Programs
    /\ pc = Programs[which].entry
    /\ regs = [ra |-> 0, pointer |-> 0, stack |-> <<>>]

Instruction ==
    /\ pc \in DOMAIN program.code
    /\ ~HasDelaySlot(program.code[pc])
    /\ regs' = Executed(program.code[pc], regs)
    /\ pc' = pc + 1
    /\ UNCHANGED which

Branch ==
    /\ pc \in DOMAIN program.code
    /\ HasDelaySlot(program.code[pc])
    /\ LET i == program.code[pc]
           linked == Linked(i, pc, regs)
       IN \E taken \in Outcomes(i) :
            /\ pc' = IF taken THEN Destination(i, regs) ELSE pc + 2
            /\ regs' = IF i.op = "likely" /\ ~taken THEN regs
                       ELSE Executed(program.code[pc + 1], linked)
    /\ UNCHANGED which

Library ==
    /\ pc \in Stubs
    /\ pc' = regs.ra
    /\ UNCHANGED <<which, regs>>

Next == Instruction \/ Branch \/ Library

Spec == Init /\ [][Next]_vars
==============================================================================
