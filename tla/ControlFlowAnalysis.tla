------------------------- MODULE ControlFlowAnalysis -------------------------
(***************************************************************************)
(* What the recompiler finds out about a program before it emits code: the *)
(* labels of every function, the addresses at which a function can be      *)
(* entered again after it has returned to the dispatcher, and the function *)
(* table (control_flow_analyzer.cpp, ps2_recompiler.cpp,                   *)
(* function_table_emitter.cpp).                                            *)
(*                                                                         *)
(* The search for a jump table in the code before a JR is not modelled: an *)
(* instruction's "table" holds the targets the search comes up with, {} if *)
(* it finds none.  Functions named entry_* do not occur.                   *)
(***************************************************************************)
EXTENDS GuestCode, FiniteSets

(* The addresses in f of instructions of the given kinds.                  *)
Where(p, f, ops) == {a \in Addresses(f) : p.code[a].op \in ops}

(* Branches with a static target, as pairs of addresses.                   *)
StaticEdges(p, f) ==
    {<<a, p.code[a].to>> : a \in Where(p, f, Conditional \cup StaticJump)}

InternalEdges(p, f) == {e \in StaticEdges(p, f) : e[2] \in Addresses(f)}

(* Targets at or before their branch: there the code consults the event    *)
(* checkpoint, and may have to be entered again.  A function's start is in *)
(* the table anyway.                                                       *)
LoopHeads(p, f) ==
    {e[2] : e \in {d \in InternalEdges(p, f) : d[2] <= d[1] /\ d[2] # f.start}}

ResumeEntryPoints_NotCalls(p, f) ==        \* mutant: where calls return is left out
    Addresses(f) \cap ({a + 1 : a \in Where(p, f, {"syscall"})} \cup LoopHeads(p, f))

(* Where f can be entered again: behind a syscall and behind calls, whose  *)
(* callee may come back by way of the dispatcher, and at its loop heads.   *)
ResumeEntryPoints(p, f) ==
    Addresses(f) \cap
        ( {a + 1 : a \in Where(p, f, {"syscall"})}
          \cup {a + 2 : a \in Where(p, f, {"jal", "jalr"})}
          \cup LoopHeads(p, f) )

(* The targets of a JR or JALR that have become cases of a local switch.   *)
JumpTable(p, f, a) == p.code[a].table \cap Addresses(f)

(* With one register jump left unresolved every instruction is a target.   *)
IndirectFallback(p, f) ==
    IF \E a \in Where(p, f, RegisterJump) : JumpTable(p, f, a) = {}
    THEN Addresses(f) ELSE {}

(* The recompiled functions around t, the one that starts last: {} or {g}. *)
Owner(p, t) ==
    LET around == {g \in Recompiled(p) : t \in Addresses(g)}
    IN {g \in around : \A h \in around : h.start <= g.start}

(* Targets in the middle of other functions.                               *)
ExternalEntryPoints(p, f) ==
    LET targets == {e[2] : e \in StaticEdges(p, f)}
                   \cup UNION {p.code[a].table : a \in Where(p, f, RegisterJump)}
    IN {t \in targets \ Addresses(f) :
            \E g \in Owner(p, t) : g.start \notin {f.start, t}}

(* Where f can be entered from the dispatcher other than at its start: the *)
(* switch at its head has a case for each, and so has the table.           *)
ResumeTargets(p, f) ==
    ResumeEntryPoints(p, f) \cup IndirectFallback(p, f)
    \cup {t \in UNION {ExternalEntryPoints(p, g) : g \in Recompiled(p)} :
            f \in Owner(p, t) /\ t # f.start}

(* The addresses of f that the emitted code has a label for.               *)
Labels(p, f) ==
    {e[2] : e \in InternalEdges(p, f)}
    \cup (UNION {JumpTable(p, f, a) : a \in Where(p, f, RegisterJump)})
    \cup ResumeTargets(p, f)

(* g_ps2RecompiledFunctionTable: the starts of recompiled functions, then  *)
(* the entries inside, then HLE stubs; the first for an address stands.    *)
FunctionTable(p) ==
    [a \in Starts(p) \cup UNION {ResumeTargets(p, f) : f \in Recompiled(p)} |->
        IF \E f \in Recompiled(p) : f.start = a
        THEN CHOOSE f \in Recompiled(p) : f.start = a
        ELSE IF \E f \in Recompiled(p) : a \in ResumeTargets(p, f)
        THEN CHOOSE f \in Recompiled(p) : a \in ResumeTargets(p, f)
        ELSE CHOOSE f \in p.funs : f.start = a]
==============================================================================
