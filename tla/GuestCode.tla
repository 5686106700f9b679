------------------------------ MODULE GuestCode ------------------------------
(***************************************************************************)
(* Guest programs as the recompiler sees them: functions, each a range of  *)
(* words, and the instructions at these words.  An address is a word       *)
(* number, 0 is where a thread's first function returns to.  Of the data   *)
(* only what carries control is kept: the return address $ra, one register *)
(* that holds code pointers, and the stack on which functions save $ra.    *)
(***************************************************************************)
EXTENDS Integers, Sequences

CONSTANT
    Programs     \* a family of programs [funs, code, relocated, entry]:
                 \*   funs       set of functions [start, end, stub]
                 \*   code       [address -> [op, to, table]]
                 \*   relocated  the JALs that a relocation names an HLE handler for
                 \*   entry      where the thread starts

(* Conditional branches: plain, and likely (the slot runs only if taken).  *)
Conditional == {"branch", "likely"}
StaticJump == {"j", "jal"}
RegisterJump == {"jr", "jalr"}
Return == {"return"}                                \* JR $ra

HasDelaySlot(i) == i.op \in Conditional \cup StaticJump \cup RegisterJump \cup Return

Addresses(f) == f.start .. f.end - 1

(* What an instruction other than a branch does to the registers.          *)
Executed(i, regs) ==
    CASE i.op = "save"    -> [regs EXCEPT !.stack = Append(@, regs.ra)]
      [] i.op = "restore" -> [regs EXCEPT !.stack = SubSeq(@, 1, Len(@) - 1),
                                          !.ra = regs.stack[Len(regs.stack)]]
      [] i.op = "load"    -> [regs EXCEPT !.pointer = i.to]
      [] i.op \in {"alu", "syscall"} -> regs

(* The word a taken branch goes to: a register is read before the slot.    *)
Destination(i, regs) ==
    IF i.op \in RegisterJump THEN regs.pointer
    ELSE IF i.op \in Return THEN regs.ra ELSE i.to

(* JAL and JALR leave the address behind their slot in $ra.                *)
Linked(i, at, regs) ==
    IF i.op \in {"jal", "jalr"} THEN [regs EXCEPT !.ra = at + 2] ELSE regs

(* Which way a branch may go: the data that decides is left out.           *)
Outcomes(i) == IF i.op \in Conditional THEN BOOLEAN ELSE {TRUE}

------------------------------------------------------------------------------
(* Programs as compilers write them and the recompiler splits them up.     *)

Operations == {"alu", "save", "restore", "load", "syscall"}
              \cup Conditional \cup StaticJump \cup RegisterJump \cup Return

Starts(p) == {f.start : f \in p.funs}
StubStarts(p) == {f.start : f \in {g \in p.funs : g.stub}}
Recompiled(p) == {f \in p.funs : ~f.stub}
Words(p) == UNION {Addresses(f) : f \in Recompiled(p)}

(* Functions are ranges of words that are there, told apart by their       *)
(* starts; they may overlap.                                               *)
LaidOut(p) ==
    /\ p.funs \subseteq [start : Nat \ {0}, end : Nat, stub : BOOLEAN]
    /\ \A f \in p.funs : f.start < f.end
    /\ \A f, g \in p.funs : f.start = g.start => f = g
    /\ p.code \in [DOMAIN p.code -> [op : Operations, to : Nat, table : SUBSET Nat]]
    /\ Words(p) \subseteq DOMAIN p.code
    /\ p.entry \in Starts(p)

(* No branch and no syscall in a delay slot, no slot outside the function  *)
(* of its branch, and no function that starts in a slot.                   *)
SlotsKept(p) ==
    \A f \in Recompiled(p) : \A a \in Addresses(f) : HasDelaySlot(p.code[a]) =>
        /\ a + 1 \in Addresses(f)
        /\ ~HasDelaySlot(p.code[a + 1])
        /\ p.code[a + 1].op # "syscall"
        /\ a + 1 \notin Starts(p)

(* The last words of functions behind which no other function starts.      *)
DeadEnds(p) == {f.end - 1 : f \in {g \in Recompiled(p) : g.end \notin Starts(p)}}

(* There a function ends with a jump away, and nothing else is the way to  *)
(* its slot.                                                               *)
EndsClosed(p) ==
    \A f \in Recompiled(p) : f.end \notin Starts(p) =>
        /\ f.end - 2 \in Addresses(f)
        /\ p.code[f.end - 2].op \in {"j", "jr"} \cup Return

(* Branches go to words that are there, and a handler is put in the place  *)
(* of a call that returns behind itself.                                   *)
TargetsKept(p) ==
    \A a \in Words(p) :
        /\ p.code[a].op \in Conditional \cup StaticJump =>
                p.code[a].to \in (Words(p) \cup Starts(p)) \ DeadEnds(p)
        /\ p.code[a].op \in RegisterJump => p.code[a].table \subseteq Words(p)
        /\ a \in p.relocated =>
                /\ p.code[a].op = "jal" /\ p.code[a].to \in StubStarts(p)
                /\ p.code[a + 1].op # "restore"

WellFormed(p) == LaidOut(p) /\ SlotsKept(p) /\ EndsClosed(p) /\ TargetsKept(p)

ASSUME ProgramsAssumption == \A n \in DOMAIN Programs : WellFormed(Programs[n])
==============================================================================
