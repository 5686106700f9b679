---------------------------- MODULE RecompiledCode ----------------------------
(***************************************************************************)
(* A guest thread as recompiled C++: the functions the emitters write      *)
(* (function_emitter.cpp, control_flow_emitter.cpp), the runtime helper    *)
(* they make calls through (dispatchGuestBranch, ps2_runtime.cpp) and the  *)
(* scheduler's loop that enters them (EeScheduler::run).                   *)
(*                                                                         *)
(* A guest call is a C++ call as long as nothing comes between.  At a safe *)
(* point with work pending the functions return one after another, with    *)
(* ctx->pc on the word to go on from, to the loop, which enters whatever   *)
(* function the table has for that word.                                   *)
(***************************************************************************)
EXTENDS ControlFlowAnalysis, SequencesExt

VARIABLES
    which,       \* the program
    pc,          \* ctx->pc; it lags while a function runs
    regs,        \* the registers of ctx that GuestCode keeps
    host,        \* the C++ stack: [fn, at, callee], the function, the word whose
                 \*   code is next, and the ctx->pc its callee was entered with
    stop,        \* m_stopRequested
    running      \* FALSE when the thread is dormant or run() has ended

vars == <<which, pc, regs, host, stop, running>>

Once(f) == CHOOSE g \in {f} : g = f          \* f; TLC then computes it only once

(* The recompiler's output for each program.                               *)
Output ==
    Once([n \in DOMAIN Programs |->
        LET p == Programs[n] IN
        [table  |-> Once(FunctionTable(p)),
         resume |-> Once([f \in p.funs |-> IF f.stub THEN {} ELSE ResumeTargets(p, f)]),
         labels |-> Once([f \in p.funs |-> IF f.stub THEN {} ELSE Labels(p, f)])]])

code == Programs[which].code
table == Output[which].table
relocated == Programs[which].relocated

Top == Last(host)
HasLabel(a) == a \in Output[which].labels[Top.fn]

Init ==
    /\ which \in DOMAIN Programs
    /\ pc = Programs[which].entry
    /\ regs = [ra |-> 0, pointer |-> 0, stack |-> <<>>]
    /\ host = <<>>
    /\ stop = FALSE
    /\ running = TRUE

------------------------------------------------------------------------------
(* Moving on the C++ stack.                                                *)

(* The head of a function: to the label of a word it can be entered at, or *)
(* to its start.                                                           *)
Enters(f, at) ==
    LET first == IF at \in Output[which].resume[f] THEN at ELSE f.start
    IN [fn |-> f, at |-> first, callee |-> 0]

Leave(to) == pc' = to /\ host' = Front(host)

(* On to a word of the same function, by label or by falling through.      *)
GoOn(at, to) ==
    /\ pc' = to
    /\ host' = [host EXCEPT ![Len(host)].at = at, ![Len(host)].callee = 0]

(* The word behind this code, if the function has one: at the end of the   *)
(* function it returns with ctx->pc on its end.                            *)
FallTo(at, to) ==
    IF at \in Addresses(Top.fn) THEN GoOn(at, to) ELSE Leave(at)

(* checkpointDue: an event, a deadline or the end of the slice may be due  *)
(* at any time; a stop request is due for good.                            *)
Due == IF stop THEN {TRUE} ELSE BOOLEAN

------------------------------------------------------------------------------
(* The scheduler's loop.                                                   *)

Dispatch ==
    /\ running /\ host = <<>> /\ ~stop
    /\ pc \in DOMAIN table
    /\ LET frame == Enters(table[pc], pc) IN
         /\ host' = <<frame>>
         /\ pc' = IF table[pc].stub THEN pc ELSE frame.at
    /\ UNCHANGED <<which, regs, stop, running>>

(* A thread whose first function has returned, or whose ctx->pc no         *)
(* function has, is made dormant.                                          *)
Retire ==
    /\ running /\ host = <<>> /\ ~stop
    /\ pc = 0 \/ pc \notin DOMAIN table
    /\ running' = FALSE
    /\ UNCHANGED <<which, pc, regs, host, stop>>

EndRun ==
    /\ running /\ host = <<>> /\ stop
    /\ running' = FALSE
    /\ UNCHANGED <<which, pc, regs, host, stop>>

RequestStop ==
    /\ ~stop
    /\ stop' = TRUE
    /\ UNCHANGED <<which, pc, regs, host, running>>

------------------------------------------------------------------------------
(* Recompiled instructions.  The code of a delay slot is part of its       *)
(* branch's; if the slot is a target its label stands before that code.    *)

InSlot(a) == a - 1 \in Addresses(Top.fn) /\ HasDelaySlot(code[a - 1])

(* The instruction whose code is next on top of the C++ stack.             *)
At == IF InSlot(Top.at) THEN Top.at - 1 ELSE Top.at
Inst == code[At]
Fall == At + 2

Running(ops) ==
    host # <<>> /\ Top.callee = 0 /\ Top.at \in Addresses(Top.fn)
        /\ ~Top.fn.stub /\ Inst.op \in ops

(* A jump to the slot and one to the branch arrive at the same code, and   *)
(* ctx->pc tells them apart.                                               *)
FromSlot == HasLabel(At + 1) /\ pc = At + 1

RunningBranch(ops) == Running(ops) /\ ~FromSlot

(* Registers after the link and the slot, and the word to jump to, which   *)
(* is read before both.                                                    *)
AfterSlot == Executed(code[At + 1], Linked(Inst, At, regs))
Target == Destination(Inst, regs)

Ordinary ==
    /\ Running({"alu", "save", "restore", "load"})
    /\ regs' = Executed(Inst, regs)
    /\ FallTo(At + 1, At)
    /\ UNCHANGED <<which, stop, running>>

(* handleSyscall: ctx->pc is on the next word before the handler runs,     *)
(* which may throw to the dispatcher to hand the processor on.             *)
Syscall ==
    /\ Running({"syscall"})
    /\ \/ FallTo(At + 1, At + 1)
       \/ pc' = At + 1 /\ host' = <<>>
    /\ UNCHANGED <<which, regs, stop, running>>

SlotEntered ==
    /\ Running(Conditional \cup StaticJump \cup RegisterJump \cup Return)
    /\ FromSlot
    /\ regs' = Executed(code[At + 1], regs)
    /\ FallTo(Fall, Fall)
    /\ UNCHANGED <<which, stop, running>>

Looped_Unchecked(to) == GoOn(to, to)         \* mutant: loops pass no safe point

(* A jump inside the function that is no call: backwards it is a safe      *)
(* point (emitInternalTarget).                                             *)
Looped(to) ==
    \E due \in Due : IF to <= At /\ due THEN Leave(to) ELSE GoOn(to, to)

ConditionalBranch ==
    /\ RunningBranch(Conditional)
    /\ \E taken \in BOOLEAN :
         /\ regs' = IF Inst.op = "likely" /\ ~taken THEN regs ELSE AfterSlot
         /\ IF ~taken THEN FallTo(Fall, Fall)
            ELSE IF HasLabel(Target) THEN Looped(Target) ELSE Leave(Target)
    /\ UNCHANGED <<which, stop, running>>

(* J out of the function: to the start of another one it is a plain C++    *)
(* call followed by return, to any other word it is left to the dispatcher.*)
Jump ==
    /\ RunningBranch({"j"})
    /\ regs' = AfterSlot
    /\ IF HasLabel(Target) THEN Looped(Target)
       ELSE IF \E f \in Programs[which].funs : f.start = Target
       THEN LET f == CHOOSE f \in Programs[which].funs : f.start = Target IN
            /\ pc' = Target
            /\ host' = [host EXCEPT ![Len(host)] = Enters(f, Target)]
       ELSE Leave(Target)
    /\ UNCHANGED <<which, stop, running>>

(* dispatchGuestBranch for a call: a safe point first; a target without a  *)
(* function is skipped.                                                    *)
Called ==
    \E due \in Due :
        IF due THEN Leave(Target)
        ELSE IF Target \notin DOMAIN table THEN FallTo(Fall, Fall)
        ELSE LET frame == Enters(table[Target], Target) IN
             /\ pc' = frame.at
             /\ host' = Append([host EXCEPT ![Len(host)].at = At,
                                            ![Len(host)].callee = Target], frame)

(* JAL: to a word of the function itself by label, without a safe point;   *)
(* one that a relocation names an HLE handler for runs the handler here.   *)
Call ==
    /\ RunningBranch({"jal"})
    /\ regs' = AfterSlot
    /\ IF HasLabel(Target) THEN GoOn(Target, Target)
       ELSE IF At \in relocated THEN GoOn(Target, Fall)
       ELSE Called
    /\ UNCHANGED <<which, stop, running>>

RegisterBranch ==
    /\ RunningBranch(RegisterJump)
    /\ regs' = AfterSlot
    /\ IF Target \in JumpTable(Programs[which], Top.fn, At) THEN GoOn(Target, Target)
       ELSE IF Inst.op = "jalr" THEN Called ELSE Leave(Target)
    /\ UNCHANGED <<which, stop, running>>

ReturnJump ==
    /\ RunningBranch(Return)
    /\ regs' = AfterSlot
    /\ Leave(Target)
    /\ UNCHANGED <<which, stop, running>>

AfterCall_Always == FallTo(Fall, Fall)       \* mutant: whatever the callee left in ctx->pc

(* The rest of dispatchGuestBranch: the caller goes on if ctx->pc is       *)
(* behind the call, or where it was when the callee was entered, as HLE    *)
(* handlers leave it that know nothing of ctx->pc.  Else it returns too.   *)
AfterCall ==
    IF stop \/ pc = 0 THEN Leave(pc)
    ELSE IF pc \in {Fall, Top.callee} THEN FallTo(Fall, Fall)
    ELSE Leave(pc)

Returned ==
    /\ host # <<>> /\ Top.callee # 0
    /\ AfterCall
    /\ UNCHANGED <<which, regs, stop, running>>

(* An HLE handler, behind its generated stub or in the place of a JAL:     *)
(* ctx->pc is where the guest goes on before the handler runs, which may   *)
(* throw to the dispatcher.                                                *)
Handler ==
    /\ host # <<>> /\ Top.callee = 0
    /\ \/ /\ Top.fn.stub
          /\ pc' = regs.ra
          /\ host' \in {Front(host), <<>>}
       \/ /\ ~Top.fn.stub /\ Top.at \notin Addresses(Top.fn)
          /\ \/ FallTo(pc, pc)
             \/ pc' = pc /\ host' = <<>>
    /\ UNCHANGED <<which, regs, stop, running>>

------------------------------------------------------------------------------
GameThread ==
    \/ Dispatch \/ Retire \/ EndRun
    \/ Ordinary \/ Syscall \/ SlotEntered \/ ConditionalBranch \/ Jump \/ Call
    \/ RegisterBranch \/ ReturnJump \/ Returned \/ Handler

Next == GameThread \/ RequestStop

(* The game thread is a host thread of its own, and nothing in the         *)
(* recompiled code waits.                                                  *)
Spec == Init /\ [][Next]_vars /\ WF_vars(GameThread)

------------------------------------------------------------------------------
(* The guest's program counter: the word whose code is next, or ctx->pc    *)
(* while functions return to the dispatcher.                               *)
GuestPc == IF host = <<>> \/ Top.callee # 0 THEN pc ELSE Top.at

EE == INSTANCE EeProgram WITH pc <- GuestPc

(* What the code relies on: the guest pops no empty stack, and a register  *)
(* jump goes to a function or to a target that the analysis knows of.      *)
Known == Starts(Programs[which]) \cup Inst.table \cup IndirectFallback(Programs[which], Top.fn)

Behaved ==
    host # <<>> /\ Top.callee = 0 /\ Top.at \in Addresses(Top.fn) /\ ~Top.fn.stub =>
        /\ code[Top.at].op = "restore" => regs.stack # <<>>
        /\ HasDelaySlot(code[Top.at]) /\ code[Top.at + 1].op = "restore" => regs.stack # <<>>
        /\ code[Top.at].op \in RegisterJump =>
                Target \in Known \ DeadEnds(Programs[which])

(* dispatchGuestBranch takes a call for finished that is not: its callee   *)
(* was cut short at the word where it was entered.                         *)
Mistaken ==
    host # <<>> /\ Top.callee # 0 /\ ~stop /\ pc = Top.callee /\ pc # Fall

(* However calls nest on the C++ stack, and wherever they are cut short at *)
(* safe points and entered again, the thread executes the guest's program: *)
(* every instruction in its turn and once, slots with their branches.      *)
ImplementsProgram == EE!Spec

(* Whatever word the recompiled code hands to the dispatcher, there is a   *)
(* function to enter for it, unless the thread has returned.               *)
NeverLost == host = <<>> => pc \in DOMAIN table \cup {0}

(* A stop request ends run(), whatever loops the guest is in.              *)
StopHonoured == stop ~> ~running
==============================================================================
