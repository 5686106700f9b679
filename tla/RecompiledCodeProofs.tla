------------------------ MODULE RecompiledCodeProofs ------------------------
(***************************************************************************)
(* Proofs about RecompiledCode, for every family of well-formed programs.  *)
(***************************************************************************)
EXTENDS RecompiledCode, KernelListsProofs

(***************************************************************************)
(* The inductive invariant.                                                *)
(***************************************************************************)
\* Where code can be handed back to the dispatcher: words it has a function
\* for, 0 included, and none behind which a function ends in the void.
Landings(p) == (DOMAIN FunctionTable(p) \cup {0}) \ DeadEnds(p)

Registers(p) == [ra : Landings(p), pointer : Nat, stack : Seq(Landings(p))]

\* Entries of the C++ stack.
Frames(p) == [fn : p.funs, at : Nat, callee : Nat]

\* Is a in the slot of a branch of f?
IsSlot(p, f, a) == a - 1 \in Addresses(f) /\ HasDelaySlot(p.code[a - 1])

LabelsOf(p, f) == IF f.stub THEN {} ELSE Labels(p, f)

\* A caller, on whose callee the stack goes on.
Calling(p, e) ==
    /\ e.callee # 0 /\ ~e.fn.stub /\ e.at \in Addresses(e.fn)
    /\ p.code[e.at].op \in {"jal", "jalr"}

\* A function about to execute its word e.at, with ctx->pc on it or still on
\* the one before; a slot only when the slot itself was jumped to.
Executing(p, e, c) ==
    /\ e.callee = 0 /\ ~e.fn.stub /\ e.at \in Addresses(e.fn) \ DeadEnds(p)
    /\ c \in {e.at, e.at - 1}
    /\ IsSlot(p, e.fn, e.at) => c = e.at /\ e.at \in LabelsOf(p, e.fn)

InStub(e) == e.callee = 0 /\ e.fn.stub /\ e.at = e.fn.start

\* The handler of a relocated call runs: ctx->pc is behind the call.
InPlace(p, e, c, ra) ==
    /\ e.callee = 0 /\ ~e.fn.stub /\ e.at \in StubStarts(p) \ Addresses(e.fn)
    /\ c = ra /\ c - 2 \in Addresses(e.fn) /\ p.code[c - 2].op = "jal"

OnTop(p, e, c, ra) ==
    \/ Calling(p, e) /\ c \in Landings(p)
    \/ Executing(p, e, c)
    \/ InStub(e)
    \/ InPlace(p, e, c, ra)

\* All but the top of a C++ stack h are callers.
Callers(p, h) == \A i \in 1 .. Len(h) - 1 : Calling(p, h[i])

Stacked(p, h, c, ra) ==
    /\ h \in Seq(Frames(p)) /\ Callers(p, h)
    /\ IF h = <<>> THEN c \in Landings(p) ELSE OnTop(p, h[Len(h)], c, ra)

IInv ==
    /\ which \in DOMAIN Programs
    /\ regs \in Registers(Programs[which])
    /\ Stacked(Programs[which], host, pc, regs.ra)

(***************************************************************************)
(* Well-formed programs.                                                   *)
(***************************************************************************)
\* The fields of functions and instructions.
LEMMA Fields ==
    ASSUME NEW p, WellFormed(p)
    PROVE  /\ \A f \in p.funs : /\ f.start \in Nat /\ f.start # 0 /\ f.end \in Nat /\ f.start < f.end
                                /\ f.stub \in BOOLEAN /\ f.start \in Addresses(f)
           /\ \A f \in Recompiled(p) : f \in p.funs /\ ~f.stub /\ Addresses(f) \subseteq Words(p)
           /\ \A a \in Words(p) : /\ a \in DOMAIN p.code /\ a \in Nat /\ a # 0
                                  /\ p.code[a].op \in Operations /\ p.code[a].to \in Nat
           /\ Words(p) \subseteq Nat
<1>1. ASSUME NEW f \in p.funs
      PROVE  /\ f.start \in Nat /\ f.start # 0 /\ f.end \in Nat /\ f.start < f.end
             /\ f.stub \in BOOLEAN /\ f.start \in Addresses(f)
             /\ Addresses(f) \subseteq Nat \ {0}
  <2>1. /\ f.start \in Nat \ {0} /\ f.end \in Nat /\ f.start < f.end /\ f.stub \in BOOLEAN
        BY DEF WellFormed, LaidOut
  <2> QED BY <2>1 DEF Addresses
<1>2. ASSUME NEW f \in Recompiled(p)
      PROVE  f \in p.funs /\ ~f.stub /\ Addresses(f) \subseteq Words(p)
      BY DEF Recompiled, Words
<1>3. ASSUME NEW a \in Words(p)
      PROVE  /\ a \in DOMAIN p.code /\ a \in Nat /\ a # 0
             /\ p.code[a].op \in Operations /\ p.code[a].to \in Nat
  <2>1. PICK f \in Recompiled(p) : a \in Addresses(f)
        BY DEF Words
  <2>2. a \in Nat \ {0}
        BY <1>1, <1>2, <2>1
  <2>3. a \in DOMAIN p.code
        BY DEF WellFormed, LaidOut
  <2>4. p.code[a] \in [op : Operations, to : Nat, table : SUBSET Nat]
        BY <2>3 DEF WellFormed, LaidOut
  <2> QED BY <2>2, <2>3, <2>4
<1> QED BY <1>1, <1>2, <1>3

\* What a function's own code says of slots and last words.
LEMMA Slots ==
    ASSUME NEW p, WellFormed(p), NEW f \in Recompiled(p), NEW a \in Addresses(f),
           HasDelaySlot(p.code[a])
    PROVE  /\ a + 1 \in Addresses(f)
           /\ ~HasDelaySlot(p.code[a + 1])
           /\ p.code[a + 1].op # "syscall"
           /\ a + 1 \notin Starts(p)
BY DEF WellFormed, SlotsKept

\* A dead end is the slot of a jump away.
LEMMA DeadEndIs ==
    ASSUME NEW p, WellFormed(p), NEW x \in DeadEnds(p)
    PROVE  /\ x \in Nat /\ x # 0
           /\ p.code[x - 1].op \in {"j", "jr"} \cup Return
           /\ HasDelaySlot(p.code[x - 1])
           /\ \E f \in Recompiled(p) : x - 1 \in Addresses(f) /\ x = f.end - 1
           /\ x \notin Starts(p)
<1>1. PICK f \in Recompiled(p) : f.end \notin Starts(p) /\ x = f.end - 1
      BY DEF DeadEnds
<1>2. f.end - 2 \in Addresses(f) /\ p.code[f.end - 2].op \in {"j", "jr"} \cup Return
      BY <1>1 DEF WellFormed, EndsClosed
<1>3. f.start \in Nat /\ f.start # 0 /\ f.end \in Nat /\ f.start < f.end
      BY Fields
<1>4. x - 1 = f.end - 2 /\ f.end - 2 + 1 = x /\ x \in Nat /\ x # 0
      BY <1>1, <1>3
<1>5. HasDelaySlot(p.code[x - 1])
      BY <1>2, <1>4 DEF HasDelaySlot, StaticJump, RegisterJump
<1>6. x \notin Starts(p)
      BY <1>2, <1>4, <1>5, Slots
<1> QED BY <1>1, <1>2, <1>4, <1>5, <1>6

\* Behind an instruction that is no branch, and in the slot of one that is no
\* jump away, there is no dead end.
LEMMA NotDead ==
    ASSUME NEW p, WellFormed(p), NEW a \in Nat,
           p.code[a].op \notin {"j", "jr"} \cup Return
    PROVE  a + 1 \notin DeadEnds(p)
<1>1. a + 1 - 1 = a
      OBVIOUS
<1> QED BY <1>1, DeadEndIs

(***************************************************************************)
(* Labels, entry points and the function table.                            *)
(***************************************************************************)
LEMMA LabelsInside ==
    ASSUME NEW p, NEW f
    PROVE  ResumeTargets(p, f) \subseteq Addresses(f) /\ Labels(p, f) \subseteq Addresses(f)
<1>1. ResumeTargets(p, f) \subseteq Addresses(f)
  <2>1. ResumeEntryPoints(p, f) \subseteq Addresses(f) /\ IndirectFallback(p, f) \subseteq Addresses(f)
        BY DEF ResumeEntryPoints, IndirectFallback
  <2>2. \A t : f \in Owner(p, t) => t \in Addresses(f)
        BY DEF Owner
  <2> QED BY <2>1, <2>2 DEF ResumeTargets
<1> DEFINE here == {e[2] : e \in InternalEdges(p, f)}
           cases == UNION {JumpTable(p, f, a) : a \in Where(p, f, RegisterJump)}
<1>2. here \subseteq Addresses(f)
      BY DEF InternalEdges
<1>3. cases \subseteq Addresses(f)
      BY DEF JumpTable
<1>4. Labels(p, f) = here \cup cases \cup ResumeTargets(p, f)
      BY DEF Labels
<1> HIDE DEF here, cases
<1> QED BY <1>1, <1>2, <1>3, <1>4

\* The words of a well-formed program have an owner: the recompiled function
\* around them that starts last.
LEMMA OwnerExists ==
    ASSUME NEW p, WellFormed(p), NEW t \in Words(p)
    PROVE  \E g \in Owner(p, t) : g \in Recompiled(p) /\ t \in Addresses(g)
<1> DEFINE around == {g \in Recompiled(p) : t \in Addresses(g)}
           far == {t - g.start : g \in around}
<1>1. around # {}
      BY DEF Words
<1>2. \A g \in around : g.start \in Nat /\ t \in Nat /\ g.start <= t
      BY Fields DEF Addresses
<1>3. far \subseteq Nat /\ far # {}
      BY <1>1, <1>2
<1>4. PICK g \in around : \A n \in far : t - g.start <= n
  <2>1. Min(far) \in far /\ \A n \in far : Min(far) <= n
    <3> HIDE DEF far
    <3> QED BY <1>3, LeastElement
  <2> QED BY <2>1
<1>5. \A h \in around : h.start <= g.start
  <2> SUFFICES ASSUME NEW h \in around
               PROVE  h.start <= g.start
      OBVIOUS
  <2>1. t - g.start <= t - h.start
        BY <1>4
  <2>2. g.start \in Nat /\ h.start \in Nat /\ t \in Nat
        BY <1>2
  <2> QED BY <2>1, <2>2
<1> QED BY <1>4, <1>5 DEF Owner

LEMMA TableDomain ==
    ASSUME NEW p
    PROVE  DOMAIN FunctionTable(p) =
             Starts(p) \cup UNION {ResumeTargets(p, f) : f \in Recompiled(p)}
BY DEF FunctionTable, Starts

\* The function that the table has for a word can be entered at that word.
LEMMA EnteredAt ==
    ASSUME NEW p, WellFormed(p), NEW x \in DOMAIN FunctionTable(p)
    PROVE  LET f == FunctionTable(p)[x] IN
           /\ f \in p.funs /\ x \in Addresses(f)
           /\ x = f.start \/ (~f.stub /\ x \in ResumeTargets(p, f))
<1> DEFINE f == FunctionTable(p)[x]
<1>1. f = IF \E g \in Recompiled(p) : g.start = x
          THEN CHOOSE g \in Recompiled(p) : g.start = x
          ELSE IF \E g \in Recompiled(p) : x \in ResumeTargets(p, g)
          THEN CHOOSE g \in Recompiled(p) : x \in ResumeTargets(p, g)
          ELSE CHOOSE g \in p.funs : g.start = x
      BY DEF FunctionTable
<1>2. x \in Starts(p) \cup UNION {ResumeTargets(p, g) : g \in Recompiled(p)}
      BY TableDomain
<1>3. (\E g \in Recompiled(p) : x \in ResumeTargets(p, g)) \/ (\E g \in p.funs : g.start = x)
      BY <1>2 DEF Starts
<1>4. \/ f \in Recompiled(p) /\ x \in ResumeTargets(p, f)
      \/ f \in p.funs /\ f.start = x
      BY <1>1, <1>3 DEF Recompiled
<1> HIDE DEF f
<1>5. CASE f \in Recompiled(p) /\ x \in ResumeTargets(p, f)
  <2>1. x \in Addresses(f)
        BY <1>5, LabelsInside
  <2> QED BY <1>5, <2>1 DEF f, Recompiled
<1>6. CASE f \in p.funs /\ f.start = x
  <2>1. x \in Addresses(f)
        BY <1>6, Fields
  <2> QED BY <1>6, <2>1 DEF f
<1> QED BY <1>4, <1>5, <1>6

(***************************************************************************)
(* Landings: what may be handed to the dispatcher.                         *)
(***************************************************************************)
LEMMA StartLands ==
    ASSUME NEW p, WellFormed(p), NEW f \in p.funs
    PROVE  f.start \in Landings(p) /\ f.start \in DOMAIN FunctionTable(p)
<1>1. f.start \in Starts(p)
      BY DEF Starts
<1> QED BY <1>1, TableDomain, DeadEndIs DEF Landings

LEMMA ZeroLands ==
    ASSUME NEW p, WellFormed(p)
    PROVE  /\ 0 \in Landings(p) /\ Landings(p) \subseteq Nat
           /\ \A x \in Landings(p) : x # 0 => x \in DOMAIN FunctionTable(p)
           /\ \A x \in DOMAIN FunctionTable(p) : x # 0
<1>1. 0 \in Landings(p)
      BY DeadEndIs DEF Landings
<1>2. \A x \in DOMAIN FunctionTable(p) : x \in Nat /\ x # 0
  <2> SUFFICES ASSUME NEW x \in DOMAIN FunctionTable(p)
               PROVE  x \in Nat /\ x # 0
      OBVIOUS
  <2>1. PICK f \in p.funs : x \in Addresses(f)
        BY EnteredAt
  <2>2. f.start \in Nat /\ f.start # 0 /\ f.end \in Nat
        BY Fields
  <2> QED BY <2>1, <2>2 DEF Addresses
<1> QED BY <1>1, <1>2 DEF Landings

LEMMA ResumeLands ==
    ASSUME NEW p, WellFormed(p), NEW f \in Recompiled(p), NEW x \in ResumeTargets(p, f),
           x \notin DeadEnds(p)
    PROVE  x \in Landings(p)
BY TableDomain DEF Landings

\* A target outside the function of its branch.
LEMMA OutsideLands ==
    ASSUME NEW p, WellFormed(p), NEW f \in Recompiled(p), NEW a \in Addresses(f), NEW t,
           t \in (Words(p) \cup Starts(p)) \ DeadEnds(p), t \notin Addresses(f),
           \/ p.code[a].op \in Conditional \cup StaticJump /\ t = p.code[a].to
           \/ p.code[a].op \in RegisterJump /\ t \in p.code[a].table
    PROVE  t \in Landings(p)
<1>1. CASE t \in Starts(p)
      BY <1>1, StartLands DEF Starts
<1>2. CASE t \notin Starts(p)
  <2>1. t \in Words(p)
        BY <1>2
  <2>2. PICK g \in Owner(p, t) : g \in Recompiled(p) /\ t \in Addresses(g)
        BY <2>1, OwnerExists
  <2>3. f \in p.funs /\ g \in p.funs
        BY <2>2, Fields
  <2>4. g.start # t
        BY <1>2, <2>3 DEF Starts
  <2>5. g.start # f.start
    <3>1. SUFFICES ASSUME g.start = f.start
                   PROVE  FALSE
          OBVIOUS
    <3>2. g = f
          BY <2>3, <3>1 DEF WellFormed, LaidOut
    <3> QED BY <2>2, <3>2
  <2> DEFINE direct == {e[2] : e \in StaticEdges(p, f)}
             tables == UNION {p.code[b].table : b \in Where(p, f, RegisterJump)}
  <2>6. t \in direct \cup tables
    <3>1. CASE p.code[a].op \in Conditional \cup StaticJump /\ t = p.code[a].to
      <4>1. <<a, t>> \in StaticEdges(p, f)
            BY <3>1 DEF StaticEdges, Where
      <4>2. <<a, t>>[2] \in direct
            BY <4>1
      <4> QED BY <4>2
    <3>2. CASE p.code[a].op \in RegisterJump /\ t \in p.code[a].table
          BY <3>2 DEF Where
    <3> QED BY <3>1, <3>2
  <2>7. ExternalEntryPoints(p, f) = {u \in (direct \cup tables) \ Addresses(f) :
                                        \E h \in Owner(p, u) : h.start \notin {f.start, u}}
        BY DEF ExternalEntryPoints
  <2>8. t \in ExternalEntryPoints(p, f)
    <3> HIDE DEF direct, tables
    <3> QED BY <2>2, <2>4, <2>5, <2>6, <2>7
  <2>9. t \in ResumeTargets(p, g)
        BY <2>2, <2>4, <2>8 DEF ResumeTargets
  <2> QED BY <2>2, <2>9, ResumeLands
<1> QED BY <1>1, <1>2

\* A loop head: a target in the function, at or before its branch.
LEMMA BackLands ==
    ASSUME NEW p, WellFormed(p), NEW f \in Recompiled(p), NEW a \in Addresses(f),
           p.code[a].op \in Conditional \cup StaticJump,
           p.code[a].to \in Addresses(f), p.code[a].to <= a
    PROVE  p.code[a].to \in Landings(p)
<1> DEFINE t == p.code[a].to
<1>1. f \in p.funs /\ a \in Words(p)
      BY Fields
<1>2. t \notin DeadEnds(p)
      BY <1>1 DEF WellFormed, TargetsKept
<1>3. CASE t = f.start
      BY <1>1, <1>3, StartLands
<1>4. CASE t # f.start
  <2>1. <<a, t>> \in InternalEdges(p, f)
        BY DEF InternalEdges, StaticEdges, Where
  <2>2. <<a, t>>[1] = a /\ <<a, t>>[2] = t
        OBVIOUS
  <2>3. t \in LoopHeads(p, f)
    <3> HIDE DEF t
    <3>1. <<a, t>> \in {d \in InternalEdges(p, f) : d[2] <= d[1] /\ d[2] # f.start}
          BY <1>4, <2>1 DEF t
    <3> QED BY <3>1, <2>2 DEF LoopHeads
  <2>4. t \in ResumeTargets(p, f)
        BY <2>3 DEF ResumeTargets, ResumeEntryPoints
  <2> QED BY <1>2, <2>4, ResumeLands
<1> QED BY <1>3, <1>4

\* The word behind one that is no dead end: in the function, or the start of
\* the next one.
LEMMA NextLands ==
    ASSUME NEW p, WellFormed(p), NEW f \in Recompiled(p),
           NEW a \in Addresses(f) \ DeadEnds(p), a + 1 \notin Addresses(f)
    PROVE  a + 1 \in Landings(p)
<1>1. f.start \in Nat /\ f.end \in Nat
      BY Fields
<1>2. a + 1 = f.end /\ a = f.end - 1
      BY <1>1 DEF Addresses
<1>3. f.end \in Starts(p)
      BY <1>2 DEF DeadEnds
<1>4. PICK g \in p.funs : g.start = a + 1
      BY <1>2, <1>3 DEF Starts
<1> QED BY <1>4, StartLands

\* Behind a syscall, and behind a call with its slot.
LEMMA SyscallLands ==
    ASSUME NEW p, WellFormed(p), NEW f \in Recompiled(p), NEW a \in Addresses(f) \ DeadEnds(p),
           p.code[a].op = "syscall"
    PROVE  a + 1 \in Landings(p)
<1>1. a \in Nat /\ a + 1 \in Nat /\ a + 1 - 1 = a
      BY Fields
<1>2. CASE a + 1 \in Addresses(f)
  <2>1. a + 1 \in ResumeEntryPoints(p, f)
        BY <1>2 DEF ResumeEntryPoints, Where
  <2>2. a + 1 \notin DeadEnds(p)
        BY <1>1, NotDead DEF Return
  <2> QED BY <2>1, <2>2, ResumeLands DEF ResumeTargets
<1>3. CASE a + 1 \notin Addresses(f)
      BY <1>1, <1>3, NextLands
<1> QED BY <1>2, <1>3

LEMMA BehindSlot ==
    ASSUME NEW p, WellFormed(p), NEW f \in Recompiled(p), NEW a \in Addresses(f),
           HasDelaySlot(p.code[a]), p.code[a].op \notin {"j", "jr"} \cup Return
    PROVE  /\ a + 1 \in Addresses(f) \ DeadEnds(p) /\ ~HasDelaySlot(p.code[a + 1])
           /\ a + 2 \in Nat /\ a + 2 - 1 = a + 1 /\ a + 2 \notin DeadEnds(p)
           /\ a + 2 \notin Addresses(f) => a + 2 \in Landings(p)
<1>1. a \in Nat
      BY Fields
<1>2. a + 1 \in Addresses(f) /\ ~HasDelaySlot(p.code[a + 1])
      BY Slots
<1>3. a + 1 - 1 = a /\ a + 2 - 1 = a + 1 /\ a + 2 \in Nat
      BY <1>1
<1>4. a + 1 \notin DeadEnds(p)
      BY <1>1, NotDead
<1>5. p.code[a + 1].op \notin {"j", "jr"} \cup Return
      BY <1>2 DEF HasDelaySlot, StaticJump, RegisterJump
<1>6. a + 2 \notin DeadEnds(p)
  <2>1. a + 1 \in Nat /\ a + 1 + 1 = a + 2
        BY <1>1
  <2>2. a + 1 + 1 \notin DeadEnds(p)
        BY <1>5, <2>1, NotDead
  <2> QED BY <2>1, <2>2
<1>7. a + 2 \notin Addresses(f) => a + 2 \in Landings(p)
  <2>1. a + 1 + 1 = a + 2
        BY <1>1
  <2>2. a + 1 + 1 \notin Addresses(f) => a + 1 + 1 \in Landings(p)
        BY <1>2, <1>4, NextLands
  <2> QED BY <2>1, <2>2
<1> QED BY <1>2, <1>3, <1>4, <1>6, <1>7

LEMMA CallLands ==
    ASSUME NEW p, WellFormed(p), NEW f \in Recompiled(p), NEW a \in Addresses(f),
           p.code[a].op \in {"jal", "jalr"}
    PROVE  a + 2 \in Landings(p)
<1>1. HasDelaySlot(p.code[a]) /\ p.code[a].op \notin {"j", "jr"} \cup Return
      BY DEF HasDelaySlot, StaticJump, RegisterJump, Return
<1>2. a + 2 \in ResumeEntryPoints(p, f) \/ a + 2 \notin Addresses(f)
      BY DEF ResumeEntryPoints, Where
<1> QED BY <1>1, <1>2, BehindSlot, ResumeLands DEF ResumeTargets

(***************************************************************************)
(* The recompiler's output.                                                *)
(***************************************************************************)
LEMMA OnceIs ==
    ASSUME NEW g
    PROVE  Once(g) = g
BY DEF Once

LEMMA OutputIs ==
    ASSUME which \in DOMAIN Programs
    PROVE  LET p == Programs[which] IN
           /\ WellFormed(p)
           /\ table = FunctionTable(p)
           /\ \A f \in p.funs :
                 /\ Output[which].labels[f] = LabelsOf(p, f)
                 /\ Output[which].resume[f] = IF f.stub THEN {} ELSE ResumeTargets(p, f)
<1> DEFINE p == Programs[which]
           resumes == [f \in p.funs |-> IF f.stub THEN {} ELSE ResumeTargets(p, f)]
           labels == [f \in p.funs |-> IF f.stub THEN {} ELSE Labels(p, f)]
           all == [n \in DOMAIN Programs |->
                      LET q == Programs[n] IN
                      [table  |-> Once(FunctionTable(q)),
                       resume |-> Once([f \in q.funs |-> IF f.stub THEN {} ELSE ResumeTargets(q, f)]),
                       labels |-> Once([f \in q.funs |-> IF f.stub THEN {} ELSE Labels(q, f)])]]
<1>1. Output = all
  <2>1. Output = Once(all)
        BY DEF Output
  <2> HIDE DEF all
  <2> QED BY <2>1, OnceIs
<1>2. all[which] = [table |-> Once(FunctionTable(p)), resume |-> Once(resumes),
                    labels |-> Once(labels)]
      OBVIOUS
<1>3. /\ Once(FunctionTable(p)) = FunctionTable(p)
      /\ Once(resumes) = resumes /\ Once(labels) = labels
  <2> HIDE DEF resumes, labels
  <2> QED BY OnceIs
<1>4. WellFormed(p)
      BY ProgramsAssumption
<1>5. /\ Output[which].table = FunctionTable(p)
      /\ Output[which].resume = resumes /\ Output[which].labels = labels
  <2> HIDE DEF all, resumes, labels
  <2> QED BY <1>1, <1>2, <1>3
<1>6. \A f \in p.funs : /\ labels[f] = LabelsOf(p, f)
                         /\ resumes[f] = IF f.stub THEN {} ELSE ResumeTargets(p, f)
      BY DEF LabelsOf
<1> HIDE DEF all, resumes, labels
<1> QED BY <1>4, <1>5, <1>6 DEF table

(***************************************************************************)
(* Moving on the C++ stack.                                                *)
(***************************************************************************)
\* The frame on top replaced.
WithTop(q, e) == [q EXCEPT ![Len(q)] = e]

LEMMA ReplaceTop ==
    ASSUME NEW T, NEW q \in Seq(T), q # <<>>, NEW e \in T
    PROVE  /\ WithTop(q, e) \in Seq(T) /\ WithTop(q, e) # <<>>
           /\ Len(WithTop(q, e)) = Len(q) /\ WithTop(q, e)[Len(q)] = e
           /\ Last(WithTop(q, e)) = e
           /\ \A i \in 1 .. Len(q) - 1 : WithTop(q, e)[i] = q[i]
<1> DEFINE r == [q EXCEPT ![Len(q)] = e]
<1>1. Len(q) \in Nat \ {0}
      BY FrontFacts
<1>2. r \in Seq(T) /\ Len(r) = Len(q)
      BY <1>1
<1>3. r[Len(q)] = e /\ \A i \in 1 .. Len(q) - 1 : r[i] = q[i]
      BY <1>1
<1>4. r # <<>>
      BY <1>1, <1>2
<1> QED BY <1>2, <1>3, <1>4 DEF Last, WithTop

LEMMA SetTop ==
    ASSUME NEW p, host \in Seq(Frames(p)), Callers(p, host), host # <<>>,
           NEW e \in Frames(p), e.callee = 0, NEW c, NEW ra, OnTop(p, e, c, ra),
           pc' = c, host' = WithTop(host, e)
    PROVE  Stacked(p, host', pc', ra) /\ GuestPc' = e.at
<1> DEFINE r == WithTop(host, e)
<1>0. /\ r \in Seq(Frames(p)) /\ r # <<>> /\ Len(r) = Len(host)
      /\ r[Len(host)] = e /\ Last(r) = e
      /\ \A i \in 1 .. Len(host) - 1 : r[i] = host[i]
  <2>1. e \in Frames(p) /\ host \in Seq(Frames(p)) /\ host # <<>>
        OBVIOUS
  <2> QED BY ONLY <2>1, ReplaceTop
<1>1. /\ host' \in Seq(Frames(p)) /\ host' # <<>> /\ Len(host') = Len(host)
      /\ host'[Len(host')] = e /\ Last(host') = e
      /\ \A i \in 1 .. Len(host) - 1 : host'[i] = host[i]
  <2> HIDE DEF r
  <2>1. host' = r
        BY DEF r
  <2> QED BY <1>0, <2>1
<1>2. Callers(p, host')
      BY <1>1 DEF Callers
<1> QED BY <1>1, <1>2 DEF Stacked, GuestPc, Top

\* A function returns with ctx->pc on a word that the dispatcher knows.
LEMMA LeaveKeeps ==
    ASSUME NEW p, host \in Seq(Frames(p)), Callers(p, host), host # <<>>,
           NEW to \in Landings(p), NEW ra, Leave(to)
    PROVE  Stacked(p, host', pc', ra) /\ GuestPc' = to
<1>1. /\ Len(host) \in Nat \ {0} /\ host' \in Seq(Frames(p)) /\ Len(host') = Len(host) - 1
      /\ \A i \in 1 .. Len(host) - 1 : host'[i] = host[i]
      BY FrontFacts DEF Leave
<1>2. Callers(p, host')
      BY <1>1 DEF Callers
<1>3. pc' = to
      BY DEF Leave
<1>4. CASE host' = <<>>
      BY <1>1, <1>2, <1>3, <1>4 DEF Stacked, GuestPc
<1>5. CASE host' # <<>>
  <2>0. Len(host') \in Nat \ {0} /\ Last(host') = host'[Len(host')]
        BY <1>1, <1>5, FrontFacts
  <2>1. Len(host') \in 1 .. Len(host) - 1
        BY <1>1, <2>0
  <2>2. Calling(p, Last(host'))
        BY <1>1, <2>0, <2>1 DEF Callers
  <2>3. Last(host').callee # 0
        BY <2>2 DEF Calling
  <2> QED BY <1>1, <1>2, <1>3, <1>5, <2>0, <2>1, <2>2, <2>3
           DEF Stacked, GuestPc, Top, OnTop
<1> QED BY <1>4, <1>5

LEMMA FrameSet ==
    ASSUME NEW F, NEW e \in [fn : F, at : Nat, callee : Nat], NEW at \in Nat, NEW v \in Nat
    PROVE  [[e EXCEPT !.at = at] EXCEPT !.callee = v] = [fn |-> e.fn, at |-> at, callee |-> v]
<1> DEFINE R == [fn : F, at : Nat, callee : Nat]
           d == [e EXCEPT !.at = at]
           c == [d EXCEPT !.callee = v]
<1>1. d \in R /\ d.fn = e.fn /\ d.at = at
      OBVIOUS
<1> HIDE DEF d
<1>2. c \in R /\ c.fn = d.fn /\ c.at = d.at /\ c.callee = v
      BY <1>1
<1> HIDE DEF c
<1>3. c = [fn |-> c.fn, at |-> c.at, callee |-> c.callee]
      BY <1>2
<1> QED BY <1>1, <1>2, <1>3 DEF c, d

LEMMA TopSet ==
    ASSUME NEW p, host \in Seq(Frames(p)), host # <<>>, NEW at \in Nat, NEW v \in Nat
    PROVE  /\ Top \in Frames(p)
           /\ [host EXCEPT ![Len(host)].at = at, ![Len(host)].callee = v]
                = WithTop(host, [fn |-> Top.fn, at |-> at, callee |-> v])
           /\ [fn |-> Top.fn, at |-> at, callee |-> v] \in Frames(p)
<1>1. Len(host) \in Nat \ {0} /\ Top = host[Len(host)] /\ Top \in Frames(p)
      BY FrontFacts DEF Top
<1>2. Top.fn \in p.funs
      BY <1>1 DEF Frames
<1>3. [[Top EXCEPT !.at = at] EXCEPT !.callee = v] = [fn |-> Top.fn, at |-> at, callee |-> v]
      BY <1>1, FrameSet DEF Frames
<1>4. [host EXCEPT ![Len(host)].at = at, ![Len(host)].callee = v]
        = [host EXCEPT ![Len(host)] = [[Top EXCEPT !.at = at] EXCEPT !.callee = v]]
      BY <1>1
<1> QED BY <1>1, <1>2, <1>3, <1>4 DEF Frames, WithTop

\* On in the same function at a word that is no slot or has a label.
LEMMA GoOnKeeps ==
    ASSUME NEW p, WellFormed(p), host \in Seq(Frames(p)), Callers(p, host), host # <<>>,
           Top.fn \in Recompiled(p), NEW at \in Addresses(Top.fn) \ DeadEnds(p),
           NEW c \in {at, at - 1}, NEW ra,
           IsSlot(p, Top.fn, at) => c = at /\ at \in LabelsOf(p, Top.fn), GoOn(at, c)
    PROVE  Stacked(p, host', pc', ra) /\ GuestPc' = at
<1> DEFINE e == [fn |-> Top.fn, at |-> at, callee |-> 0]
<1>1. at \in Nat
      BY Fields
<1>2. pc' = c /\ host' = WithTop(host, e) /\ e \in Frames(p)
      BY <1>1, TopSet DEF GoOn
<1>3. e.callee = 0 /\ e.at = at /\ e.fn = Top.fn /\ ~Top.fn.stub
      BY DEF Recompiled
<1> HIDE DEF e
<1>4. OnTop(p, e, c, ra)
      BY <1>3 DEF OnTop, Executing
<1> QED BY <1>2, <1>3, <1>4, SetTop

\* On to the word behind one that is no branch.
LEMMA FallKeeps ==
    ASSUME NEW p, WellFormed(p), host \in Seq(Frames(p)), Callers(p, host), host # <<>>,
           Top.fn \in Recompiled(p), NEW a \in Addresses(Top.fn) \ DeadEnds(p),
           ~HasDelaySlot(p.code[a]), NEW c \in {a, a + 1}, NEW ra, FallTo(a + 1, c)
    PROVE  Stacked(p, host', pc', ra) /\ GuestPc' = a + 1
<1>1. a \in Nat /\ a + 1 - 1 = a
      BY Fields
<1>2. p.code[a].op \notin {"j", "jr"} \cup Return
      BY DEF HasDelaySlot, StaticJump, RegisterJump
<1>3. a + 1 \notin DeadEnds(p)
      BY <1>1, <1>2, NotDead
<1>4. ~IsSlot(p, Top.fn, a + 1)
      BY <1>1 DEF IsSlot
<1>5. CASE a + 1 \in Addresses(Top.fn)
  <2>1. GoOn(a + 1, c)
        BY <1>5 DEF FallTo
  <2>2. c \in {a + 1, a + 1 - 1}
        BY <1>1
  <2> QED BY <1>3, <1>4, <1>5, <2>1, <2>2, GoOnKeeps
<1>6. CASE a + 1 \notin Addresses(Top.fn)
  <2>1. Leave(a + 1)
        BY <1>6 DEF FallTo
  <2>2. a + 1 \in Landings(p)
        BY <1>6, NextLands
  <2> QED BY <2>1, <2>2, LeaveKeeps
<1> QED BY <1>5, <1>6

(***************************************************************************)
(* Registers.                                                              *)
(***************************************************************************)
Straight == {"alu", "save", "restore", "load", "syscall"}

LEMMA ExecutedTyped ==
    ASSUME NEW p, NEW r \in Registers(p), NEW i, i.op \in Straight, i.to \in Nat,
           i.op = "restore" => r.stack # <<>>
    PROVE  /\ Executed(i, r) \in Registers(p)
           /\ i.op # "restore" => Executed(i, r).ra = r.ra
<1> DEFINE L == Landings(p)
<1>1. r \in [ra : L, pointer : Nat, stack : Seq(L)]
      BY DEF Registers
<1>2. CASE i.op = "save"
  <2>1. Executed(i, r) = [r EXCEPT !.stack = Append(r.stack, r.ra)]
        BY <1>1, <1>2 DEF Executed
  <2>2. Append(r.stack, r.ra) \in Seq(L)
        BY <1>1
  <2> QED BY <1>1, <2>1, <2>2 DEF Registers
<1>3. CASE i.op = "restore"
  <2> DEFINE front == SubSeq(r.stack, 1, Len(r.stack) - 1)
             last == r.stack[Len(r.stack)]
  <2>1. Executed(i, r) = [r EXCEPT !.stack = front, !.ra = last]
        BY <1>1, <1>3 DEF Executed
  <2>2. front \in Seq(L) /\ last \in L
    <3>1. r.stack \in Seq(L) /\ r.stack # <<>>
          BY <1>1, <1>3
    <3> QED BY <3>1, FrontFacts DEF Front, Last
  <2> HIDE DEF front, last
  <2>3. Executed(i, r) \in [ra : L, pointer : Nat, stack : Seq(L)]
        BY <1>1, <2>1, <2>2
  <2> QED BY <1>3, <2>3 DEF Registers
<1>4. CASE i.op = "load"
  <2>1. Executed(i, r) = [r EXCEPT !.pointer = i.to]
        BY <1>4 DEF Executed
  <2> QED BY <1>1, <2>1 DEF Registers
<1>5. CASE i.op \in {"alu", "syscall"}
  <2>1. Executed(i, r) = r
        BY <1>5 DEF Executed
  <2> QED BY <2>1
<1> QED BY <1>2, <1>3, <1>4, <1>5 DEF Straight

LEMMA LinkedTyped ==
    ASSUME NEW p, NEW r \in Registers(p), NEW i, NEW a,
           i.op \in {"jal", "jalr"} => a + 2 \in Landings(p)
    PROVE  /\ Linked(i, a, r) \in Registers(p) /\ Linked(i, a, r).stack = r.stack
           /\ i.op \in {"jal", "jalr"} => Linked(i, a, r).ra = a + 2
<1>1. r \in [ra : Landings(p), pointer : Nat, stack : Seq(Landings(p))]
      BY DEF Registers
<1>2. CASE i.op \in {"jal", "jalr"}
  <2>1. Linked(i, a, r) = [r EXCEPT !.ra = a + 2]
        BY <1>2 DEF Linked
  <2> QED BY <1>1, <1>2, <2>1 DEF Registers
<1>3. CASE i.op \notin {"jal", "jalr"}
      BY <1>3 DEF Linked
<1> QED BY <1>2, <1>3

LEMMA NoBranchIsStraight ==
    ASSUME NEW i, i.op \in Operations, ~HasDelaySlot(i)
    PROVE  i.op \in Straight
BY DEF Operations, HasDelaySlot, Straight

\* What a branch and its slot leave in the registers.
LEMMA SlotTyped ==
    ASSUME NEW p, WellFormed(p), NEW f \in Recompiled(p), NEW a \in Addresses(f),
           HasDelaySlot(p.code[a]), NEW r \in Registers(p),
           p.code[a + 1].op = "restore" => r.stack # <<>>
    PROVE  LET s == Executed(p.code[a + 1], Linked(p.code[a], a, r)) IN
           /\ s \in Registers(p)
           /\ p.code[a].op \in {"jal", "jalr"} /\ p.code[a + 1].op # "restore" => s.ra = a + 2
<1> DEFINE l == Linked(p.code[a], a, r)
<1>1. /\ l \in Registers(p) /\ l.stack = r.stack
      /\ p.code[a].op \in {"jal", "jalr"} => l.ra = a + 2
      BY CallLands, LinkedTyped
<1>2. a + 1 \in Addresses(f) /\ ~HasDelaySlot(p.code[a + 1])
      BY Slots
<1>3. p.code[a + 1].op \in Straight /\ p.code[a + 1].to \in Nat
      BY <1>2, Fields, NoBranchIsStraight
<1> HIDE DEF l
<1>4. /\ Executed(p.code[a + 1], l) \in Registers(p)
      /\ p.code[a + 1].op # "restore" => Executed(p.code[a + 1], l).ra = l.ra
      BY <1>1, <1>3, ExecutedTyped
<1> QED BY <1>1, <1>4 DEF l

(***************************************************************************)
(* The instruction about to run.                                           *)
(***************************************************************************)
LEMMA Here ==
    ASSUME IInv, NEW ops, Running(ops)
    PROVE  LET p == Programs[which] IN
           /\ WellFormed(p) /\ host \in Seq(Frames(p)) /\ Callers(p, host) /\ host # <<>>
           /\ regs \in Registers(p)
           /\ Top.fn \in Recompiled(p) /\ Top.at \in Addresses(Top.fn) \ DeadEnds(p)
           /\ Top.at \in Nat /\ Top.at \in DOMAIN p.code
           /\ GuestPc = Top.at
           /\ \A a : HasLabel(a) <=> a \in Labels(p, Top.fn)
           /\ IF InSlot(Top.at)
              THEN /\ At = Top.at - 1 /\ At + 1 = Top.at /\ At \in Addresses(Top.fn)
                   /\ HasDelaySlot(Inst) /\ FromSlot
              ELSE At = Top.at /\ ~FromSlot
<1> DEFINE p == Programs[which]
<1>1. WellFormed(p) /\ \A f \in p.funs : Output[which].labels[f] = LabelsOf(p, f)
      BY OutputIs DEF IInv
<1>2. /\ host \in Seq(Frames(p)) /\ Callers(p, host) /\ host # <<>> /\ regs \in Registers(p)
      /\ OnTop(p, Top, pc, regs.ra) /\ Top \in Frames(p)
  <2>1. host \in Seq(Frames(p)) /\ Callers(p, host) /\ host # <<>> /\ regs \in Registers(p)
        BY DEF IInv, Stacked, Running
  <2>2. OnTop(p, host[Len(host)], pc, regs.ra)
        BY <2>1 DEF IInv, Stacked
  <2>3. Top = host[Len(host)] /\ Top \in Frames(p)
        BY <2>1, FrontFacts DEF Top
  <2> QED BY <2>1, <2>2, <2>3
<1>3. /\ Top.callee = 0 /\ ~Top.fn.stub /\ Top.at \in Addresses(Top.fn) /\ Top.fn \in p.funs
      BY <1>2 DEF Running, Frames
<1>4. Executing(p, Top, pc)
      BY <1>2, <1>3 DEF OnTop, Calling, InStub, InPlace
<1>5. Top.fn \in Recompiled(p)
      BY <1>3 DEF Recompiled
<1>6. Top.at \in Nat /\ Top.at \in DOMAIN p.code
      BY <1>1, <1>3, <1>5, Fields
<1>7. GuestPc = Top.at
      BY <1>2, <1>3 DEF GuestPc
<1>8. \A a : HasLabel(a) <=> a \in Labels(p, Top.fn)
      BY <1>1, <1>3 DEF HasLabel, LabelsOf
<1>9. InSlot(Top.at) <=> IsSlot(p, Top.fn, Top.at)
      BY DEF InSlot, IsSlot, code
<1>10. pc \in {Top.at, Top.at - 1} /\ Top.at \notin DeadEnds(p)
       BY <1>4 DEF Executing
<1>11. CASE InSlot(Top.at)
  <2>1. At = Top.at - 1 /\ At + 1 = Top.at
        BY <1>6, <1>11 DEF At
  <2>2. At \in Addresses(Top.fn) /\ HasDelaySlot(Inst)
        BY <1>11, <2>1 DEF InSlot, Inst
  <2>3. pc = Top.at /\ HasLabel(Top.at)
        BY <1>3, <1>4, <1>8, <1>9, <1>11 DEF Executing, LabelsOf
  <2>4. FromSlot
        BY <2>1, <2>3 DEF FromSlot
  <2> QED BY <1>1, <1>2, <1>3, <1>5, <1>6, <1>7, <1>8, <1>10, <1>11, <2>1, <2>2, <2>4
<1>12. CASE ~InSlot(Top.at)
  <2>1. At = Top.at
        BY <1>12 DEF At
  <2>2. ~FromSlot
        BY <1>6, <1>10, <2>1 DEF FromSlot
  <2> QED BY <1>1, <1>2, <1>3, <1>5, <1>6, <1>7, <1>8, <1>10, <1>12, <2>1, <2>2
<1> QED BY <1>11, <1>12

(***************************************************************************)
(* Steps of the guest's program.                                           *)
(***************************************************************************)
LEMMA SameInstructions ==
    /\ \A i : EE!HasDelaySlot(i) <=> HasDelaySlot(i)
    /\ \A i, r : EE!Executed(i, r) = Executed(i, r)
    /\ \A i, r : EE!Destination(i, r) = Destination(i, r)
    /\ \A i, a, r : EE!Linked(i, a, r) = Linked(i, a, r)
    /\ \A i : EE!Outcomes(i) = Outcomes(i)
<1>1. EE!Conditional = Conditional /\ EE!StaticJump = StaticJump
      /\ EE!RegisterJump = RegisterJump /\ EE!Return = Return
      BY DEF EE!Conditional, Conditional, EE!StaticJump, StaticJump, EE!RegisterJump, RegisterJump,
             EE!Return, Return
<1>2. \A i : EE!HasDelaySlot(i) <=> HasDelaySlot(i)
      BY <1>1 DEF EE!HasDelaySlot, HasDelaySlot
<1>3. \A i, r : EE!Executed(i, r) = Executed(i, r)
      BY DEF EE!Executed, Executed
<1>4. \A i, r : EE!Destination(i, r) = Destination(i, r)
      BY <1>1 DEF EE!Destination, Destination
<1>5. \A i, a, r : EE!Linked(i, a, r) = Linked(i, a, r)
      BY DEF EE!Linked, Linked
<1>6. \A i : EE!Outcomes(i) = Outcomes(i)
      BY <1>1 DEF EE!Outcomes, Outcomes
<1> QED BY <1>2, <1>3, <1>4, <1>5, <1>6

LEMMA InstructionStep ==
    ASSUME NEW a \in DOMAIN code, GuestPc = a, ~HasDelaySlot(code[a]),
           regs' = Executed(code[a], regs), GuestPc' = a + 1, which' = which
    PROVE  EE!Next
<1>1. EE!program = Programs[which]
      BY DEF EE!program
<1>2. EE!Instruction
      BY <1>1, SameInstructions DEF EE!Instruction, code
<1> QED BY <1>2 DEF EE!Next

LEMMA BranchStep ==
    ASSUME NEW a \in DOMAIN code, GuestPc = a, HasDelaySlot(code[a]),
           NEW taken \in Outcomes(code[a]),
           regs' = IF code[a].op = "likely" /\ ~taken THEN regs
                   ELSE Executed(code[a + 1], Linked(code[a], a, regs)),
           GuestPc' = IF taken THEN Destination(code[a], regs) ELSE a + 2,
           which' = which
    PROVE  EE!Next
<1>1. EE!program = Programs[which]
      BY DEF EE!program
<1>2. EE!Branch
      BY <1>1, SameInstructions DEF EE!Branch, code
<1> QED BY <1>2 DEF EE!Next

LEMMA LibraryStep ==
    ASSUME GuestPc \in StubStarts(Programs[which]), GuestPc' = regs.ra, UNCHANGED <<which, regs>>
    PROVE  EE!Next
<1>1. EE!program = Programs[which]
      BY DEF EE!program
<1>2. EE!Library
      BY <1>1 DEF EE!Library, EE!Stubs, StubStarts
<1> QED BY <1>2 DEF EE!Next

(***************************************************************************)
(* One lemma per action: it keeps the invariant, and is a step of the      *)
(* guest's program or none.                                                *)
(***************************************************************************)
LEMMA Kept ==
    ASSUME IInv, which' = which, regs' \in Registers(Programs[which]),
           Stacked(Programs[which], host', pc', regs'.ra)
    PROVE  IInv'
BY DEF IInv

LEMMA OrdinaryStep ==
    ASSUME IInv, Behaved, Ordinary
    PROVE  IInv' /\ EE!Next
<1> DEFINE p == Programs[which]
           a == Top.at
<1>0. Running({"alu", "save", "restore", "load"})
      BY DEF Ordinary
<1>1. Inst.op \in {"alu", "save", "restore", "load"}
      BY <1>0 DEF Running
<1>2. ~HasDelaySlot(Inst)
      BY <1>1 DEF HasDelaySlot, Conditional, StaticJump, RegisterJump, Return
<1>3. At = a /\ Inst = code[a]
      BY <1>0, <1>2, Here DEF Inst
<1>4. a \in DOMAIN p.code /\ a \in Words(p) /\ GuestPc = a
      BY <1>0, Here, Fields
<1>5. regs' = Executed(code[a], regs) /\ FallTo(a + 1, a)
      BY <1>3 DEF Ordinary
<1>6. Inst.op \in Straight /\ Inst.to \in Nat
      BY <1>1, <1>0, <1>3, <1>4, Here, Fields DEF Straight, code
<1>7. Inst.op = "restore" => regs.stack # <<>>
      BY <1>0, <1>3 DEF Behaved, Running
<1>8. regs' \in Registers(p)
      BY <1>0, <1>3, <1>5, <1>6, <1>7, Here, ExecutedTyped
<1>9. Stacked(p, host', pc', regs'.ra) /\ GuestPc' = a + 1
      BY <1>0, <1>2, <1>3, <1>5, Here, FallKeeps DEF code
<1>10. which' = which
       BY DEF Ordinary
<1>11. IInv'
       BY <1>8, <1>9, <1>10, Kept
<1>12. EE!Next
       BY <1>2, <1>3, <1>4, <1>5, <1>9, <1>10, InstructionStep DEF code
<1> QED BY <1>11, <1>12

LEMMA SyscallStep ==
    ASSUME IInv, Syscall
    PROVE  IInv' /\ EE!Next
<1> DEFINE p == Programs[which]
           a == Top.at
<1>0. Running({"syscall"})
      BY DEF Syscall
<1>1. Inst.op = "syscall"
      BY <1>0 DEF Running
<1>2. ~HasDelaySlot(Inst)
      BY <1>1 DEF HasDelaySlot, Conditional, StaticJump, RegisterJump, Return
<1>3. At = a /\ Inst = code[a]
      BY <1>0, <1>2, Here DEF Inst
<1>4. a \in DOMAIN p.code /\ GuestPc = a
      BY <1>0, Here
<1>5. regs' = regs /\ which' = which
      BY DEF Syscall
<1>6. regs = Executed(code[a], regs)
      BY <1>1, <1>3 DEF Executed
<1>7. regs \in Registers(p)
      BY <1>0, Here
<1>8. Stacked(p, host', pc', regs'.ra) /\ GuestPc' = a + 1
  <2>1. CASE FallTo(a + 1, a + 1)
        BY <1>0, <1>2, <1>3, <2>1, Here, FallKeeps DEF code
  <2>2. CASE pc' = a + 1 /\ host' = <<>>
    <3>1. a + 1 \in Landings(p)
          BY <1>0, <1>1, <1>3, Here, SyscallLands DEF code
    <3>2. host' \in Seq(Frames(p)) /\ Len(host') = 0
          BY <2>2
    <3>3. Callers(p, host')
          BY <3>2 DEF Callers
    <3> QED BY <2>2, <3>1, <3>2, <3>3 DEF Stacked, GuestPc
  <2> QED BY <1>3, <2>1, <2>2 DEF Syscall
<1>9. IInv'
      BY <1>5, <1>7, <1>8, Kept
<1>10. EE!Next
       BY <1>2, <1>3, <1>4, <1>5, <1>6, <1>8, InstructionStep DEF code
<1> QED BY <1>9, <1>10

LEMMA SlotEnteredStep ==
    ASSUME IInv, Behaved, SlotEntered
    PROVE  IInv' /\ EE!Next
<1> DEFINE p == Programs[which]
           a == Top.at
<1>0. /\ Running(Conditional \cup StaticJump \cup RegisterJump \cup Return) /\ FromSlot
      /\ regs' = Executed(code[At + 1], regs) /\ FallTo(Fall, Fall) /\ which' = which
      BY DEF SlotEntered
<1>1. /\ At = a - 1 /\ At + 1 = a /\ At \in Addresses(Top.fn) /\ HasDelaySlot(Inst)
      BY <1>0, Here
<1>2. Top.fn \in Recompiled(p) /\ WellFormed(p) /\ a \in Nat /\ regs \in Registers(p)
      BY <1>0, Here
<1>3. HasDelaySlot(p.code[At]) /\ ~HasDelaySlot(p.code[At + 1])
      BY <1>1, <1>2, Slots DEF Inst, code
<1>4. ~HasDelaySlot(p.code[a])
      BY <1>1, <1>3
<1>5. a \in Addresses(Top.fn) \ DeadEnds(p) /\ a \in DOMAIN p.code /\ a \in Words(p) /\ GuestPc = a
      BY <1>0, Here, Fields
<1>6. Fall = a + 1
      BY <1>1, <1>2 DEF Fall
<1>7. p.code[a].op \in Straight /\ p.code[a].to \in Nat
      BY <1>2, <1>4, <1>5, Fields, NoBranchIsStraight
<1>8. p.code[a].op = "restore" => regs.stack # <<>>
      BY <1>0 DEF Behaved, Running, code
<1>9. regs' = Executed(p.code[a], regs)
      BY <1>0, <1>1 DEF code
<1>10. regs' \in Registers(p)
       BY <1>2, <1>7, <1>8, <1>9, ExecutedTyped
<1>11. Stacked(p, host', pc', regs'.ra) /\ GuestPc' = a + 1
       BY <1>0, <1>4, <1>5, <1>6, Here, FallKeeps
<1>12. IInv'
       BY <1>0, <1>10, <1>11, Kept
<1>13. EE!Next
       BY <1>0, <1>4, <1>5, <1>9, <1>11, InstructionStep DEF code
<1> QED BY <1>12, <1>13

\* A branch about to run with its slot.
Branches == Conditional \cup StaticJump \cup RegisterJump \cup Return

LEMMA BranchHere ==
    ASSUME IInv, Behaved, NEW ops \in SUBSET Branches, RunningBranch(ops)
    PROVE  LET p == Programs[which] IN
           /\ Running(ops) /\ At = Top.at /\ Inst = p.code[Top.at] /\ Inst = code[Top.at]
           /\ Inst.op \in ops /\ HasDelaySlot(p.code[Top.at]) /\ HasDelaySlot(Inst)
           /\ Top.at \in Addresses(Top.fn) /\ Fall = Top.at + 2 /\ Top.at \in Words(p)
           /\ AfterSlot = Executed(p.code[Top.at + 1], Linked(p.code[Top.at], Top.at, regs))
           /\ AfterSlot \in Registers(p)
           /\ Inst.op \in {"jal", "jalr"} /\ p.code[Top.at + 1].op # "restore"
                => AfterSlot.ra = Top.at + 2
<1> DEFINE p == Programs[which]
           a == Top.at
<1>1. Running(ops) /\ ~FromSlot /\ Inst.op \in ops
      BY DEF RunningBranch, Running
<1>2. At = a /\ Inst = p.code[a] /\ Inst = code[a]
      BY <1>1, Here DEF Inst, code
<1>3. HasDelaySlot(Inst)
      BY <1>1 DEF HasDelaySlot, Branches
<1>4. Fall = a + 2
      BY <1>2 DEF Fall
<1>5. AfterSlot = Executed(p.code[a + 1], Linked(p.code[a], a, regs))
      BY <1>2 DEF AfterSlot, code
<1>6. p.code[a + 1].op = "restore" => regs.stack # <<>>
      BY <1>1, <1>2, <1>3 DEF Behaved, Running, code
<1>7. /\ WellFormed(p) /\ Top.fn \in Recompiled(p) /\ a \in Addresses(Top.fn)
      /\ regs \in Registers(p)
      BY <1>1, Here
<1>8. a \in Words(p)
      BY <1>7, Fields
<1> HIDE DEF p, a
<1>9. /\ AfterSlot \in Registers(p)
      /\ Inst.op \in {"jal", "jalr"} /\ p.code[a + 1].op # "restore" => AfterSlot.ra = a + 2
      BY <1>2, <1>3, <1>5, <1>6, <1>7, SlotTyped
<1> QED BY <1>1, <1>2, <1>3, <1>4, <1>5, <1>7, <1>8, <1>9 DEF p, a

\* Past a branch, or back behind a call: to the word behind the slot.
LEMMA PastSlot ==
    ASSUME NEW p, WellFormed(p), host \in Seq(Frames(p)), Callers(p, host), host # <<>>,
           Top.fn \in Recompiled(p), NEW a \in Addresses(Top.fn), HasDelaySlot(p.code[a]),
           p.code[a].op \notin {"j", "jr"} \cup Return, NEW ra, FallTo(a + 2, a + 2)
    PROVE  Stacked(p, host', pc', ra) /\ GuestPc' = a + 2
<1>1. a + 1 \in Addresses(Top.fn) \ DeadEnds(p) /\ ~HasDelaySlot(p.code[a + 1])
      BY BehindSlot
<1>2. a \in Nat /\ a + 1 + 1 = a + 2
      BY Fields
<1>3. FallTo((a + 1) + 1, (a + 1) + 1)
      BY <1>2
<1>4. Stacked(p, host', pc', ra) /\ GuestPc' = (a + 1) + 1
      BY <1>1, <1>3, FallKeeps
<1> QED BY <1>2, <1>4

\* The target of a branch or of a jump by name.
LEMMA StaticTarget ==
    ASSUME NEW p, WellFormed(p), NEW f \in Recompiled(p), NEW a \in Addresses(f),
           p.code[a].op \in Conditional \cup StaticJump
    PROVE  LET t == p.code[a].to IN
           /\ t \in Nat /\ t \notin DeadEnds(p)
           /\ t \in Labels(p, f) => t \in Addresses(f)
           /\ t \notin Labels(p, f) => t \notin Addresses(f) /\ t \in Landings(p)
<1> DEFINE t == p.code[a].to
<1>1. t \in Nat
      BY Fields
<1>2. t \in (Words(p) \cup Starts(p)) \ DeadEnds(p)
      BY Fields DEF WellFormed, TargetsKept
<1>3. t \in Labels(p, f) => t \in Addresses(f)
      BY LabelsInside
<1>4. t \in Addresses(f) => t \in Labels(p, f)
  <2> SUFFICES ASSUME t \in Addresses(f)
               PROVE  t \in Labels(p, f)
      OBVIOUS
  <2>1. <<a, t>> \in InternalEdges(p, f)
        BY DEF InternalEdges, StaticEdges, Where
  <2>2. <<a, t>>[2] \in {e[2] : e \in InternalEdges(p, f)}
        BY <2>1
  <2>3. <<a, t>>[2] = t
        OBVIOUS
  <2> QED BY <2>2, <2>3 DEF Labels
<1>5. t \notin Addresses(f) => t \in Landings(p)
      BY <1>2, OutsideLands
<1> QED BY <1>1, <1>2, <1>3, <1>4, <1>5

\* By label to a word of the function, past a safe point or not.
LEMMA LabelKeeps ==
    ASSUME NEW p, WellFormed(p), host \in Seq(Frames(p)), Callers(p, host), host # <<>>,
           Top.fn \in Recompiled(p), NEW t \in Labels(p, Top.fn) \ DeadEnds(p), NEW ra, GoOn(t, t)
    PROVE  Stacked(p, host', pc', ra) /\ GuestPc' = t
<1>1. t \in Addresses(Top.fn) \ DeadEnds(p)
      BY LabelsInside
<1>2. t \in LabelsOf(p, Top.fn)
      BY Fields DEF LabelsOf
<1> QED BY <1>1, <1>2, GoOnKeeps

LEMMA LoopedKeeps ==
    ASSUME NEW p, WellFormed(p), host \in Seq(Frames(p)), Callers(p, host), host # <<>>,
           Top.fn \in Recompiled(p), NEW a \in Addresses(Top.fn), At = a,
           p.code[a].op \in Conditional \cup StaticJump,
           p.code[a].to \in Labels(p, Top.fn), NEW ra, Looped(p.code[a].to)
    PROVE  Stacked(p, host', pc', ra) /\ GuestPc' = p.code[a].to
<1> DEFINE t == p.code[a].to
<1>1. t \in Labels(p, Top.fn) \ DeadEnds(p) /\ t \in Addresses(Top.fn)
      BY StaticTarget
<1>2. t <= a => t \in Landings(p)
      BY <1>1, BackLands
<1>3. (t <= a /\ Leave(t)) \/ GoOn(t, t)
      BY DEF Looped
<1> HIDE DEF t
<1>4. CASE t <= a /\ Leave(t)
      BY <1>2, <1>4, LeaveKeeps DEF t
<1>5. CASE GoOn(t, t)
      BY <1>1, <1>5, LabelKeeps DEF t
<1> QED BY <1>3, <1>4, <1>5

LEMMA ConditionalStep ==
    ASSUME IInv, Behaved, ConditionalBranch
    PROVE  IInv' /\ EE!Next
<1> DEFINE p == Programs[which]
           a == Top.at
           t == p.code[a].to
<1>0. RunningBranch(Conditional) /\ Conditional \in SUBSET Branches /\ which' = which
      BY DEF ConditionalBranch, Branches
<1>1. PICK taken \in BOOLEAN :
         /\ regs' = IF Inst.op = "likely" /\ ~taken THEN regs ELSE AfterSlot
         /\ IF ~taken THEN FallTo(Fall, Fall)
            ELSE IF HasLabel(Target) THEN Looped(Target) ELSE Leave(Target)
      BY DEF ConditionalBranch
<1>2. /\ Running(Conditional) /\ At = a /\ Inst = p.code[a] /\ Inst = code[a] /\ Inst.op \in Conditional
      /\ HasDelaySlot(Inst) /\ a \in Addresses(Top.fn) /\ Fall = a + 2 /\ AfterSlot \in Registers(p)
      /\ AfterSlot = Executed(p.code[a + 1], Linked(p.code[a], a, regs))
      BY <1>0, BranchHere
<1>3. /\ WellFormed(p) /\ host \in Seq(Frames(p)) /\ Callers(p, host) /\ host # <<>>
      /\ Top.fn \in Recompiled(p) /\ regs \in Registers(p) /\ a \in DOMAIN code /\ GuestPc = a
      /\ \A x : HasLabel(x) <=> x \in Labels(p, Top.fn)
      BY <1>2, Here DEF code
<1>4. regs' \in Registers(p)
      BY <1>1, <1>2, <1>3
<1>5. Target = t /\ Target = Destination(code[a], regs)
  <2>1. Inst.op \notin RegisterJump /\ Inst.op \notin Return
        BY <1>2 DEF Conditional, RegisterJump, Return
  <2> QED BY <1>2, <2>1 DEF Target, Destination
<1>6. Stacked(p, host', pc', regs'.ra) /\ GuestPc' = IF taken THEN Destination(code[a], regs) ELSE a + 2
  <2>1. CASE ~taken
    <3>1. p.code[a].op \notin {"j", "jr"} \cup Return
          BY <1>2 DEF Conditional, Return
    <3>2. FallTo(a + 2, a + 2)
          BY <1>1, <1>2, <2>1
    <3> HIDE DEF p, a
    <3> QED BY <1>2, <1>3, <2>1, <3>1, <3>2, PastSlot
  <2>2. CASE taken /\ t \in Labels(p, Top.fn)
    <3>1. Looped(t)
          BY <1>1, <1>3, <1>5, <2>2
    <3> HIDE DEF p, a
    <3>2. Stacked(p, host', pc', regs'.ra) /\ GuestPc' = t
          BY <1>2, <1>3, <2>2, <3>1, LoopedKeeps
    <3> QED BY <1>5, <2>2, <3>2
  <2>3. CASE taken /\ t \notin Labels(p, Top.fn)
    <3>1. Leave(t)
          BY <1>1, <1>3, <1>5, <2>3
    <3> HIDE DEF p, a
    <3>2. t \in Landings(p)
          BY <1>2, <1>3, <2>3, StaticTarget
    <3>3. Stacked(p, host', pc', regs'.ra) /\ GuestPc' = t
      <4> HIDE DEF t
      <4> QED BY <1>3, <3>1, <3>2, LeaveKeeps
    <3> QED BY <1>5, <2>3, <3>3
  <2> QED BY <2>1, <2>2, <2>3
<1>7. IInv'
      BY <1>0, <1>4, <1>6, Kept
<1>8. EE!Next
  <2>1. taken \in Outcomes(code[a])
        BY <1>1, <1>2 DEF Outcomes
  <2>2. regs' = IF code[a].op = "likely" /\ ~taken THEN regs
                ELSE Executed(code[a + 1], Linked(code[a], a, regs))
        BY <1>1, <1>2 DEF code
  <2> HIDE DEF a
  <2> QED BY <1>0, <1>2, <1>3, <1>6, <2>1, <2>2, BranchStep
<1> QED BY <1>7, <1>8

(***************************************************************************)
(* Entering a function.                                                    *)
(***************************************************************************)
LEMMA Entering ==
    ASSUME NEW p, which \in DOMAIN Programs, p = Programs[which], NEW f \in p.funs,
           NEW x \in Addresses(f) \ DeadEnds(p),
           x = f.start \/ (~f.stub /\ x \in ResumeTargets(p, f)), NEW ra
    PROVE  LET e == Enters(f, x) IN
           e = [fn |-> f, at |-> x, callee |-> 0] /\ e \in Frames(p) /\ OnTop(p, e, x, ra)
<1> DEFINE e == [fn |-> f, at |-> x, callee |-> 0]
<1>1. WellFormed(p)
      BY ProgramsAssumption
<1>2. Output[which].resume[f] = IF f.stub THEN {} ELSE ResumeTargets(p, f)
      BY OutputIs
<1>3. Enters(f, x) = e
      BY <1>2 DEF Enters
<1>4. f.start \in Nat /\ f.end \in Nat /\ f.stub \in BOOLEAN /\ x \in Nat
      BY <1>1, Fields DEF Addresses
<1>5. e \in Frames(p)
      BY <1>4 DEF Frames
<1>6. e.fn = f /\ e.at = x /\ e.callee = 0
      OBVIOUS
<1> HIDE DEF e
<1>7. OnTop(p, e, x, ra)
  <2>1. CASE f.stub
        BY <1>6, <2>1 DEF OnTop, InStub
  <2>2. CASE ~f.stub /\ x = f.start
    <3>1. x - 1 \notin Addresses(f)
          BY <1>4, <2>2 DEF Addresses
    <3> QED BY <1>6, <2>2, <3>1 DEF OnTop, Executing, IsSlot
  <2>3. CASE ~f.stub /\ x \in ResumeTargets(p, f)
    <3>1. x \in LabelsOf(p, f)
          BY <2>3 DEF LabelsOf, Labels
    <3> QED BY <1>6, <2>3, <3>1 DEF OnTop, Executing
  <2> QED BY <1>4, <2>1, <2>2, <2>3
<1> QED BY <1>3, <1>5, <1>7 DEF e

\* The function the table has for a word is entered at that word.
LEMMA EnteringTable ==
    ASSUME NEW p, which \in DOMAIN Programs, p = Programs[which],
           NEW x \in DOMAIN FunctionTable(p), x \notin DeadEnds(p), NEW ra
    PROVE  LET e == Enters(table[x], x) IN
           /\ e = [fn |-> table[x], at |-> x, callee |-> 0]
           /\ e \in Frames(p) /\ OnTop(p, e, x, ra)
<1>1. WellFormed(p) /\ table = FunctionTable(p)
      BY OutputIs
<1>2. /\ table[x] \in p.funs /\ x \in Addresses(table[x])
      /\ x = table[x].start \/ (~table[x].stub /\ x \in ResumeTargets(p, table[x]))
      BY <1>1, EnteredAt
<1> QED BY <1>2, Entering

\* A call by way of dispatchGuestBranch.
LEMMA CalledKeeps ==
    ASSUME NEW p, which \in DOMAIN Programs, p = Programs[which],
           host \in Seq(Frames(p)), Callers(p, host), host # <<>>,
           Top.fn \in Recompiled(p), NEW a \in Addresses(Top.fn), At = a,
           p.code[a].op \in {"jal", "jalr"}, NEW t \in Landings(p), t # 0, Target = t,
           NEW ra, Called
    PROVE  Stacked(p, host', pc', ra) /\ GuestPc' = t
<1> DEFINE c == [fn |-> Top.fn, at |-> a, callee |-> t]
           e == [fn |-> table[t], at |-> t, callee |-> 0]
           q == WithTop(host, c)
<1>1. WellFormed(p) /\ table = FunctionTable(p)
      BY OutputIs
<1>2. t \in DOMAIN table /\ t \notin DeadEnds(p) /\ t \in Nat /\ a \in Nat
      BY <1>1, ZeroLands, Fields DEF Landings
<1>3. Enters(table[t], t) = e /\ e \in Frames(p) /\ OnTop(p, e, t, ra)
      BY <1>1, <1>2, EnteringTable
<1>4. \/ Leave(t)
      \/ pc' = t /\ host' = Append(q, e)
  <2>1. \/ Leave(t)
        \/ /\ pc' = Enters(table[t], t).at
           /\ host' = Append([host EXCEPT ![Len(host)].at = a, ![Len(host)].callee = t],
                             Enters(table[t], t))
        BY <1>2 DEF Called
  <2>2. [host EXCEPT ![Len(host)].at = a, ![Len(host)].callee = t] = q
        BY <1>2, TopSet
  <2> HIDE DEF q
  <2> QED BY <1>3, <2>1, <2>2
<1>5. CASE Leave(t)
      BY <1>5, LeaveKeeps
<1>6. CASE pc' = t /\ host' = Append(q, e)
  <2>1. c \in Frames(p)
        BY <1>2, TopSet
  <2>2. Calling(p, c)
        BY DEF Calling, Recompiled
  <2>3. e.callee = 0 /\ e.at = t
        OBVIOUS
  <2> HIDE DEF c, e
  <2>4. /\ q \in Seq(Frames(p)) /\ Len(q) = Len(host) /\ q[Len(host)] = c
        /\ \A i \in 1 .. Len(host) - 1 : q[i] = host[i]
        BY <2>1, ReplaceTop
  <2> HIDE DEF q
  <2> DEFINE h == Append(q, e)
  <2>5. Len(host) \in Nat \ {0}
        BY FrontFacts
  <2>6. /\ h \in Seq(Frames(p)) /\ Len(h) = Len(host) + 1 /\ h[Len(host) + 1] = e
        /\ \A i \in 1 .. Len(host) : h[i] = q[i]
        BY <1>3, <2>4
  <2>7. h # <<>> /\ Last(h) = h[Len(h)]
        BY <2>5, <2>6 DEF Last
  <2>8. Callers(p, h)
    <3> HIDE DEF h
    <3>1. SUFFICES ASSUME NEW i \in 1 .. Len(host)
                   PROVE  Calling(p, h[i])
          BY <2>5, <2>6 DEF Callers
    <3>2. CASE i = Len(host)
          BY <2>2, <2>4, <2>5, <2>6, <3>2
    <3>3. CASE i # Len(host)
      <4>1. i \in 1 .. Len(host) - 1
            BY <2>5, <3>3
      <4>2. h[i] = host[i]
            BY <2>4, <2>6, <4>1
      <4> QED BY <4>1, <4>2 DEF Callers
    <3> QED BY <3>2, <3>3
  <2>9. host' = h /\ pc' = t
        BY <1>6
  <2> HIDE DEF h
  <2>10. h[Len(h)] = e
         BY <2>6
  <2> QED BY <1>3, <2>3, <2>6, <2>7, <2>8, <2>9, <2>10 DEF Stacked, GuestPc, Top
<1> QED BY <1>4, <1>5, <1>6

LEMMA JumpStep ==
    ASSUME IInv, Behaved, Jump
    PROVE  IInv' /\ EE!Next
<1> DEFINE p == Programs[which]
           a == Top.at
           t == p.code[a].to
<1>0. RunningBranch({"j"}) /\ {"j"} \in SUBSET Branches /\ which' = which /\ regs' = AfterSlot
      BY DEF Jump, Branches, StaticJump
<1>1. /\ Running({"j"}) /\ At = a /\ Inst = p.code[a] /\ Inst = code[a] /\ Inst.op = "j"
      /\ HasDelaySlot(Inst) /\ a \in Addresses(Top.fn) /\ AfterSlot \in Registers(p)
      /\ AfterSlot = Executed(p.code[a + 1], Linked(p.code[a], a, regs))
      BY <1>0, BranchHere
<1>2. /\ WellFormed(p) /\ host \in Seq(Frames(p)) /\ Callers(p, host) /\ host # <<>>
      /\ Top.fn \in Recompiled(p) /\ a \in DOMAIN code /\ GuestPc = a
      /\ \A x : HasLabel(x) <=> x \in Labels(p, Top.fn)
      BY <1>1, Here DEF code
<1>3. Target = t /\ Target = Destination(code[a], regs)
      BY <1>1 DEF Target, Destination, RegisterJump, Return
<1>4. p.code[a].op \in Conditional \cup StaticJump
      BY <1>1 DEF StaticJump
<1>5. /\ t \notin DeadEnds(p)
      /\ t \notin Labels(p, Top.fn) => t \in Landings(p)
      BY <1>1, <1>2, <1>4, StaticTarget
<1>6. Stacked(p, host', pc', regs'.ra) /\ GuestPc' = t
  <2>1. CASE t \in Labels(p, Top.fn)
    <3>1. Looped(t)
          BY <1>2, <1>3, <2>1 DEF Jump
    <3> HIDE DEF p, a
    <3> QED BY <1>1, <1>2, <1>4, <2>1, <3>1, LoopedKeeps
  <2>2. CASE t \notin Labels(p, Top.fn) /\ \E f \in p.funs : f.start = t
    <3> DEFINE f == CHOOSE f \in p.funs : f.start = t
               e == Enters(f, t)
    <3>1. f \in p.funs /\ f.start = t
          BY <2>2
    <3>2. pc' = t /\ host' = WithTop(host, e)
          BY <1>2, <1>3, <2>2 DEF Jump, WithTop
    <3> HIDE DEF f
    <3>3. t \in Addresses(f) \ DeadEnds(p)
          BY <1>2, <1>5, <3>1, Fields
    <3>4. /\ e = [fn |-> f, at |-> t, callee |-> 0] /\ e \in Frames(p)
          /\ OnTop(p, e, t, regs'.ra)
          BY <3>1, <3>3, Entering DEF IInv
    <3>5. e.callee = 0 /\ e.at = t
          BY <3>4
    <3> HIDE DEF p, t, e
    <3> QED BY <1>2, <3>2, <3>4, <3>5, SetTop
  <2>3. CASE t \notin Labels(p, Top.fn) /\ ~\E f \in p.funs : f.start = t
    <3>1. Leave(t)
          BY <1>2, <1>3, <2>3 DEF Jump
    <3> HIDE DEF p, t
    <3> QED BY <1>2, <1>5, <2>3, <3>1, LeaveKeeps
  <2> QED BY <2>1, <2>2, <2>3
<1>7. IInv'
      BY <1>0, <1>1, <1>6, Kept
<1>8. EE!Next
  <2>1. TRUE \in Outcomes(code[a])
        BY DEF Outcomes
  <2>2. regs' = Executed(code[a + 1], Linked(code[a], a, regs))
        BY <1>0, <1>1 DEF code
  <2> HIDE DEF a, p
  <2> QED BY <1>0, <1>1, <1>2, <1>3, <1>6, <2>1, <2>2, BranchStep
<1> QED BY <1>7, <1>8

LEMMA CallStep ==
    ASSUME IInv, Behaved, Call
    PROVE  IInv' /\ EE!Next
<1> DEFINE p == Programs[which]
           a == Top.at
           t == p.code[a].to
<1>0. RunningBranch({"jal"}) /\ {"jal"} \in SUBSET Branches /\ which' = which /\ regs' = AfterSlot
      BY DEF Call, Branches, StaticJump
<1>1. /\ Running({"jal"}) /\ At = a /\ Inst = p.code[a] /\ Inst = code[a] /\ Inst.op = "jal"
      /\ HasDelaySlot(Inst) /\ a \in Addresses(Top.fn) /\ AfterSlot \in Registers(p)
      /\ AfterSlot = Executed(p.code[a + 1], Linked(p.code[a], a, regs))
      /\ p.code[a + 1].op # "restore" => AfterSlot.ra = a + 2
      /\ Fall = a + 2 /\ a \in Words(p)
      BY <1>0, BranchHere
<1>2. /\ WellFormed(p) /\ host \in Seq(Frames(p)) /\ Callers(p, host) /\ host # <<>>
      /\ Top.fn \in Recompiled(p) /\ a \in DOMAIN code /\ GuestPc = a /\ a \in Nat
      /\ \A x : HasLabel(x) <=> x \in Labels(p, Top.fn)
      BY <1>1, Here DEF code
<1>3. Target = t /\ Target = Destination(code[a], regs)
      BY <1>1 DEF Target, Destination, RegisterJump, Return
<1>4. p.code[a].op \in Conditional \cup StaticJump /\ p.code[a].op \in {"jal", "jalr"}
      BY <1>1 DEF StaticJump
<1>5. /\ t \notin DeadEnds(p) /\ t \in Nat
      /\ t \notin Labels(p, Top.fn) => t \notin Addresses(Top.fn) /\ t \in Landings(p)
      BY <1>1, <1>2, <1>4, StaticTarget
<1>6. t # 0
  <2>1. t \in Words(p) \cup Starts(p)
        BY <1>1, <1>2, <1>4 DEF WellFormed, TargetsKept
  <2> QED BY <1>2, <2>1, Fields DEF Starts
<1>7. Stacked(p, host', pc', regs'.ra) /\ GuestPc' = t
  <2>1. CASE t \in Labels(p, Top.fn)
    <3>1. GoOn(t, t)
          BY <1>2, <1>3, <2>1 DEF Call
    <3> HIDE DEF p, t
    <3> QED BY <1>2, <1>5, <2>1, <3>1, LabelKeeps
  <2>2. CASE t \notin Labels(p, Top.fn) /\ a \in p.relocated
    <3> DEFINE e == [fn |-> Top.fn, at |-> t, callee |-> 0]
               c == a + 2
    <3>1. GoOn(t, c)
          BY <1>1, <1>2, <1>3, <2>2 DEF Call, relocated
    <3>2. t \in StubStarts(p) /\ p.code[a + 1].op # "restore"
          BY <1>1, <1>2, <2>2 DEF WellFormed, TargetsKept
    <3>3. c = regs'.ra
          BY <1>0, <1>1, <3>2
    <3>4. c - 2 = a /\ p.code[a].op = "jal"
          BY <1>1, <1>2
    <3> HIDE DEF c
    <3>5. pc' = c /\ host' = WithTop(host, e) /\ e \in Frames(p)
          BY <1>2, <1>5, <3>1, TopSet DEF GoOn
    <3>6. e.callee = 0 /\ e.at = t /\ e.fn = Top.fn
          OBVIOUS
    <3>7. ~e.fn.stub
          BY <1>2, <3>6 DEF Recompiled
    <3> HIDE DEF e, t, a, p
    <3>8. c - 2 \in Addresses(e.fn) /\ p.code[c - 2].op = "jal"
          BY <1>1, <3>4, <3>6
    <3>9. e.at \in StubStarts(p) \ Addresses(e.fn)
          BY <1>5, <2>2, <3>2, <3>6
    <3>10. OnTop(p, e, c, regs'.ra)
           BY <3>3, <3>6, <3>7, <3>8, <3>9 DEF OnTop, InPlace
    <3> QED BY <1>2, <3>5, <3>6, <3>10, SetTop
  <2>3. CASE t \notin Labels(p, Top.fn) /\ a \notin p.relocated
    <3>1. Called
          BY <1>1, <1>2, <1>3, <2>3 DEF Call, relocated
    <3>2. which \in DOMAIN Programs
          BY DEF IInv
    <3> HIDE DEF t, a
    <3> QED BY <1>1, <1>2, <1>3, <1>4, <1>5, <1>6, <2>3, <3>1, <3>2, CalledKeeps
  <2> QED BY <2>1, <2>2, <2>3
<1>8. IInv'
      BY <1>0, <1>1, <1>7, Kept
<1>9. EE!Next
  <2>1. TRUE \in Outcomes(code[a])
        BY DEF Outcomes
  <2>2. regs' = Executed(code[a + 1], Linked(code[a], a, regs))
        BY <1>0, <1>1 DEF code
  <2> HIDE DEF a, p
  <2> QED BY <1>0, <1>1, <1>2, <1>3, <1>7, <2>1, <2>2, BranchStep
<1> QED BY <1>8, <1>9

\* A register jump goes to a case of a switch or to a landing.
LEMMA KnownTarget ==
    ASSUME IInv, Behaved, NEW ops \in SUBSET RegisterJump, RunningBranch(ops)
    PROVE  LET p == Programs[which] IN
           /\ Target \notin DeadEnds(p) /\ Target # 0
           /\ Target \in JumpTable(p, Top.fn, At) => Target \in Labels(p, Top.fn)
           /\ Target \notin JumpTable(p, Top.fn, At) => Target \in Landings(p)
<1> DEFINE p == Programs[which]
           a == Top.at
<1>0. ops \in SUBSET Branches
      BY DEF Branches
<1>1. /\ Running(ops) /\ At = a /\ Inst = p.code[a] /\ Inst.op \in RegisterJump
      /\ a \in Addresses(Top.fn) /\ a \in Words(p)
      BY <1>0, BranchHere
<1>2. WellFormed(p) /\ Top.fn \in Recompiled(p)
      BY <1>1, Here
<1>3. Target \in Known \ DeadEnds(p)
      BY <1>1 DEF Behaved, Running, code
<1>4. Inst.table \subseteq Words(p)
      BY <1>1, <1>2 DEF WellFormed, TargetsKept
<1>5. ResumeTargets(p, Top.fn) \subseteq Addresses(Top.fn) /\ Addresses(Top.fn) \subseteq Words(p)
      BY <1>2, LabelsInside, Fields
<1>6. IndirectFallback(p, Top.fn) \subseteq ResumeTargets(p, Top.fn)
      BY DEF ResumeTargets
<1>7. Target \in Words(p) \cup Starts(p)
      BY <1>3, <1>4, <1>5, <1>6 DEF Known
<1>8. Target # 0
      BY <1>2, <1>7, Fields DEF Starts
<1>9. ASSUME Target \in JumpTable(p, Top.fn, At)
      PROVE  Target \in Labels(p, Top.fn)
  <2>1. a \in Where(p, Top.fn, RegisterJump)
        BY <1>1 DEF Where
  <2> DEFINE cases == UNION {JumpTable(p, Top.fn, b) : b \in Where(p, Top.fn, RegisterJump)}
  <2>2. Target \in cases
        BY <1>1, <1>9, <2>1
  <2>3. cases \subseteq Labels(p, Top.fn)
        BY DEF Labels
  <2> QED BY <2>2, <2>3
<1>10. ASSUME Target \notin JumpTable(p, Top.fn, At)
       PROVE  Target \in Landings(p)
  <2>1. CASE Target \in Starts(p)
        BY <1>2, <2>1, StartLands DEF Starts
  <2>2. CASE Target \in Inst.table
    <3>1. Target \notin Addresses(Top.fn)
          BY <1>1, <1>10, <2>2 DEF JumpTable
    <3> HIDE DEF p, a
    <3> QED BY <1>1, <1>2, <1>3, <1>7, <2>2, <3>1, OutsideLands
  <2>3. CASE Target \in IndirectFallback(p, Top.fn)
        BY <1>2, <1>3, <1>6, <2>3, ResumeLands
  <2> QED BY <1>3, <2>1, <2>2, <2>3 DEF Known
<1> QED BY <1>3, <1>8, <1>9, <1>10

LEMMA RegisterStep ==
    ASSUME IInv, Behaved, RegisterBranch
    PROVE  IInv' /\ EE!Next
<1> DEFINE p == Programs[which]
           a == Top.at
           t == Target
<1>0. /\ RunningBranch(RegisterJump) /\ RegisterJump \in SUBSET Branches
      /\ which' = which /\ regs' = AfterSlot
      BY DEF RegisterBranch, Branches
<1>1. /\ Running(RegisterJump) /\ At = a /\ Inst = p.code[a] /\ Inst = code[a]
      /\ Inst.op \in RegisterJump /\ HasDelaySlot(Inst) /\ a \in Addresses(Top.fn)
      /\ AfterSlot \in Registers(p)
      /\ AfterSlot = Executed(p.code[a + 1], Linked(p.code[a], a, regs))
      BY <1>0, BranchHere
<1>2. /\ WellFormed(p) /\ host \in Seq(Frames(p)) /\ Callers(p, host) /\ host # <<>>
      /\ Top.fn \in Recompiled(p) /\ a \in DOMAIN code /\ GuestPc = a
      BY <1>1, Here DEF code
<1>3. t = Destination(code[a], regs)
      BY <1>1 DEF Target
<1>4. /\ t \notin DeadEnds(p) /\ t # 0
      /\ t \in JumpTable(p, Top.fn, At) => t \in Labels(p, Top.fn)
      /\ t \notin JumpTable(p, Top.fn, At) => t \in Landings(p)
      BY <1>0, KnownTarget
<1>5. Stacked(p, host', pc', regs'.ra) /\ GuestPc' = t
  <2>1. CASE t \in JumpTable(p, Top.fn, At)
    <3>1. GoOn(t, t)
          BY <2>1 DEF RegisterBranch
    <3> HIDE DEF p, t
    <3> QED BY <1>2, <1>4, <2>1, <3>1, LabelKeeps
  <2>2. CASE t \notin JumpTable(p, Top.fn, At) /\ Inst.op = "jalr"
    <3>1. Called /\ p.code[a].op \in {"jal", "jalr"}
          BY <1>1, <2>2 DEF RegisterBranch
    <3>2. which \in DOMAIN Programs
          BY DEF IInv
    <3> HIDE DEF a
    <3> QED BY <1>1, <1>2, <1>4, <2>2, <3>1, <3>2, CalledKeeps
  <2>3. CASE t \notin JumpTable(p, Top.fn, At) /\ Inst.op # "jalr"
    <3>1. Leave(t)
          BY <2>3 DEF RegisterBranch
    <3> HIDE DEF p, t
    <3> QED BY <1>2, <1>4, <2>3, <3>1, LeaveKeeps
  <2> QED BY <2>1, <2>2, <2>3
<1>6. IInv'
      BY <1>0, <1>1, <1>5, Kept
<1>7. EE!Next
  <2>1. TRUE \in Outcomes(code[a])
        BY DEF Outcomes
  <2>2. regs' = Executed(code[a + 1], Linked(code[a], a, regs))
        BY <1>0, <1>1 DEF code
  <2> HIDE DEF a, p
  <2> QED BY <1>0, <1>1, <1>2, <1>3, <1>5, <2>1, <2>2, BranchStep
<1> QED BY <1>6, <1>7

LEMMA ReturnStep ==
    ASSUME IInv, Behaved, ReturnJump
    PROVE  IInv' /\ EE!Next
<1> DEFINE p == Programs[which]
           a == Top.at
<1>0. /\ RunningBranch(Return) /\ Return \in SUBSET Branches
      /\ which' = which /\ regs' = AfterSlot /\ Leave(Target)
      BY DEF ReturnJump, Branches
<1>1. /\ Running(Return) /\ Inst = p.code[a] /\ Inst = code[a]
      /\ Inst.op \in Return /\ HasDelaySlot(Inst) /\ AfterSlot \in Registers(p)
      /\ AfterSlot = Executed(p.code[a + 1], Linked(p.code[a], a, regs))
      BY <1>0, BranchHere
<1>2. /\ host \in Seq(Frames(p)) /\ Callers(p, host) /\ host # <<>>
      /\ regs \in Registers(p) /\ a \in DOMAIN code /\ GuestPc = a
      BY <1>1, Here DEF code
<1>3. Target = Destination(code[a], regs) /\ Target = regs.ra
      BY <1>1 DEF Target, Destination, RegisterJump, Return
<1>4. Target \in Landings(p)
      BY <1>2, <1>3 DEF Registers
<1>5. Stacked(p, host', pc', regs'.ra) /\ GuestPc' = Target
  <2> HIDE DEF p
  <2> QED BY <1>0, <1>2, <1>4, LeaveKeeps
<1>6. IInv'
      BY <1>0, <1>1, <1>5, Kept
<1>7. EE!Next
  <2>1. TRUE \in Outcomes(code[a])
        BY DEF Outcomes
  <2>2. regs' = Executed(code[a + 1], Linked(code[a], a, regs))
        BY <1>0, <1>1 DEF code
  <2> HIDE DEF a, p
  <2> QED BY <1>0, <1>1, <1>2, <1>3, <1>5, <2>1, <2>2, BranchStep
<1> QED BY <1>6, <1>7

\* Back in the caller.  Only a callee that was cut short where it was entered
\* takes the guest to another word.
LEMMA ReturnedStep ==
    ASSUME IInv, Returned
    PROVE  IInv' /\ (~Mistaken => UNCHANGED <<which, GuestPc, regs>>)
<1> DEFINE p == Programs[which]
           a == Top.at
<1>0. host # <<>> /\ Top.callee # 0 /\ AfterCall /\ which' = which /\ regs' = regs
      BY DEF Returned
<1>1. /\ WellFormed(p) /\ host \in Seq(Frames(p)) /\ Callers(p, host)
      /\ regs \in Registers(p) /\ GuestPc = pc
      BY <1>0, ProgramsAssumption DEF IInv, Stacked, GuestPc
<1>2. Top = host[Len(host)] /\ Top \in Frames(p)
      BY <1>0, <1>1, FrontFacts DEF Top
<1>3. Calling(p, Top) /\ pc \in Landings(p)
      BY <1>0, <1>2 DEF IInv, Stacked, OnTop, Executing, InStub, InPlace
<1>4. /\ Top.fn \in Recompiled(p) /\ a \in Addresses(Top.fn)
      /\ p.code[a].op \in {"jal", "jalr"}
      BY <1>2, <1>3 DEF Calling, Frames, Recompiled
<1>5. HasDelaySlot(p.code[a]) /\ p.code[a].op \notin {"j", "jr"} \cup Return
      BY <1>4 DEF HasDelaySlot, StaticJump, RegisterJump, Return
<1>6. At = a /\ Fall = a + 2
  <2>1. ~InSlot(a)
    <3> SUFFICES ASSUME a - 1 \in Addresses(Top.fn), HasDelaySlot(p.code[a - 1])
                 PROVE  FALSE
        BY DEF InSlot, code
    <3>1. a \in Nat /\ (a - 1) + 1 = a
          BY <1>1, <1>4, Fields
    <3>2. ~HasDelaySlot(p.code[(a - 1) + 1])
          BY <1>1, <1>4, Slots
    <3> QED BY <1>5, <3>1, <3>2
  <2> QED BY <2>1 DEF At, Fall
<1>7. \/ Leave(pc)
      \/ pc \in {a + 2, Top.callee} /\ ~stop /\ FallTo(a + 2, a + 2)
      BY <1>0, <1>6 DEF AfterCall
<1> HIDE DEF p, a
<1>8. CASE Leave(pc)
  <2>1. Stacked(p, host', pc', regs'.ra) /\ GuestPc' = pc
        BY <1>0, <1>1, <1>3, <1>8, LeaveKeeps
  <2> QED BY <1>0, <1>1, <2>1, Kept DEF p
<1>9. CASE pc \in {a + 2, Top.callee} /\ ~stop /\ FallTo(a + 2, a + 2)
  <2>1. Stacked(p, host', pc', regs'.ra) /\ GuestPc' = a + 2
        BY <1>0, <1>1, <1>4, <1>5, <1>9, PastSlot
  <2>2. ~Mistaken => pc = a + 2
        BY <1>0, <1>6, <1>9 DEF Mistaken
  <2> QED BY <1>0, <1>1, <2>1, <2>2, Kept DEF p
<1> QED BY <1>7, <1>8, <1>9

LEMMA HandlerStep ==
    ASSUME IInv, Handler
    PROVE  IInv' /\ EE!Next
<1> DEFINE p == Programs[which]
           a == pc - 2
<1>0. host # <<>> /\ Top.callee = 0 /\ which' = which /\ regs' = regs
      BY DEF Handler
<1>1. /\ WellFormed(p) /\ host \in Seq(Frames(p)) /\ Callers(p, host)
      /\ regs \in Registers(p) /\ GuestPc = Top.at
      BY <1>0, ProgramsAssumption DEF IInv, Stacked, GuestPc
<1>2. Top = host[Len(host)] /\ Top \in Frames(p)
      BY <1>0, <1>1, FrontFacts DEF Top
<1>3. regs.ra \in Landings(p)
      BY <1>1 DEF Registers
<1>4. ASSUME NEW to \in Landings(p), pc' = to, host' = <<>>
      PROVE  Stacked(p, host', pc', regs'.ra) /\ GuestPc' = to
  <2>1. host' \in Seq(Frames(p)) /\ Len(host') = 0
        BY <1>4
  <2>2. Callers(p, host')
        BY <2>1 DEF Callers
  <2> QED BY <1>4, <2>1, <2>2 DEF Stacked, GuestPc
<1>5. Top.at \in StubStarts(p) /\ Stacked(p, host', pc', regs'.ra) /\ GuestPc' = regs.ra
  <2>1. CASE Top.fn.stub
    <3>1. InStub(Top)
          BY <1>0, <1>2, <2>1 DEF IInv, Stacked, OnTop, Calling, Executing, InPlace
    <3>2. Top.at \in StubStarts(p)
          BY <1>2, <2>1, <3>1 DEF InStub, StubStarts, Frames
    <3>3. CASE pc' = regs.ra /\ host' = Front(host)
          BY <1>0, <1>1, <1>3, <3>2, <3>3, LeaveKeeps DEF Leave
    <3>4. CASE pc' = regs.ra /\ host' = <<>>
          BY <1>3, <1>4, <3>2, <3>4
    <3> QED BY <2>1, <3>3, <3>4 DEF Handler
  <2>2. CASE ~Top.fn.stub
    <3>1. InPlace(p, Top, pc, regs.ra)
          BY <1>0, <1>2, <2>2 DEF Handler, IInv, Stacked, OnTop, Calling, Executing, InStub
    <3>2. /\ Top.at \in StubStarts(p) /\ pc = regs.ra /\ a \in Addresses(Top.fn)
          /\ p.code[a].op = "jal" /\ Top.fn \in Recompiled(p)
          BY <1>2, <2>2, <3>1 DEF InPlace, Recompiled, Frames
    <3>3. HasDelaySlot(p.code[a]) /\ p.code[a].op \notin {"j", "jr"} \cup Return
          BY <3>2 DEF HasDelaySlot, StaticJump, Return
    <3>4. pc \in Nat /\ a + 2 = pc
          BY <1>1, <1>3, <3>2, ZeroLands
    <3>5. CASE FallTo(pc, pc)
      <4>1. FallTo(a + 2, a + 2)
            BY <3>4, <3>5
      <4> HIDE DEF p, a
      <4>2. Stacked(p, host', pc', regs'.ra) /\ GuestPc' = a + 2
            BY <1>0, <1>1, <3>2, <3>3, <4>1, PastSlot
      <4> QED BY <3>2, <3>4, <4>2
    <3>6. CASE pc' = pc /\ host' = <<>>
          BY <1>3, <1>4, <3>2, <3>6
    <3> QED BY <2>2, <3>2, <3>5, <3>6 DEF Handler
  <2> QED BY <2>1, <2>2
<1>6. IInv'
      BY <1>0, <1>1, <1>5, Kept
<1>7. EE!Next
      BY <1>0, <1>1, <1>5, LibraryStep
<1> QED BY <1>6, <1>7

LEMMA DispatchStep ==
    ASSUME IInv, Dispatch
    PROVE  IInv' /\ UNCHANGED <<which, GuestPc, regs>>
<1> DEFINE p == Programs[which]
           e == [fn |-> table[pc], at |-> pc, callee |-> 0]
<1>0. /\ host = <<>> /\ pc \in DOMAIN table /\ which' = which /\ regs' = regs
      /\ host' = <<Enters(table[pc], pc)>>
      /\ pc' = IF table[pc].stub THEN pc ELSE Enters(table[pc], pc).at
      BY DEF Dispatch
<1>1. /\ which \in DOMAIN Programs /\ WellFormed(p) /\ table = FunctionTable(p)
      /\ regs \in Registers(p) /\ pc \in Landings(p) /\ GuestPc = pc
      BY <1>0, OutputIs DEF IInv, Stacked, GuestPc
<1>2. Enters(table[pc], pc) = e /\ e \in Frames(p) /\ OnTop(p, e, pc, regs.ra)
      BY <1>0, <1>1, EnteringTable DEF Landings
<1>3. pc' = pc /\ host' = <<e>>
      BY <1>0, <1>2
<1>4. e.callee = 0 /\ e.at = pc
      OBVIOUS
<1> HIDE DEF e, p
<1>5. host' \in Seq(Frames(p)) /\ Len(host') = 1 /\ host'[1] = e /\ host' # <<>>
      BY <1>2, <1>3
<1>6. Callers(p, host')
      BY <1>5 DEF Callers
<1>7. Stacked(p, host', pc', regs'.ra) /\ GuestPc' = pc
      BY <1>0, <1>2, <1>3, <1>4, <1>5, <1>6 DEF Stacked, GuestPc, Top, Last
<1> QED BY <1>0, <1>1, <1>7, Kept DEF p

\* Ends of run() and stop requests touch nothing of the thread.
LEMMA ThreadUntouched ==
    ASSUME IInv, UNCHANGED <<which, pc, regs, host>>
    PROVE  IInv' /\ UNCHANGED <<which, GuestPc, regs>>
<1>1. GuestPc' = GuestPc
      BY DEF GuestPc, Top
<1>2. Stacked(Programs[which], host', pc', regs'.ra) /\ regs' \in Registers(Programs[which])
      BY DEF IInv
<1> QED BY <1>1, <1>2, Kept

LEMMA InitHolds ==
    ASSUME Init
    PROVE  IInv /\ EE!Init
<1> DEFINE p == Programs[which]
<1>0. /\ which \in DOMAIN Programs /\ pc = p.entry /\ host = <<>>
      /\ regs = [ra |-> 0, pointer |-> 0, stack |-> <<>>]
      BY DEF Init
<1>1. WellFormed(p)
      BY <1>0, ProgramsAssumption
<1>2. pc \in Landings(p)
      BY <1>0, <1>1, StartLands DEF WellFormed, LaidOut, Starts
<1>3. regs \in Registers(p)
      BY <1>0, <1>1, ZeroLands DEF Registers
<1>4. host \in Seq(Frames(p)) /\ Callers(p, host)
      BY <1>0 DEF Callers
<1>5. IInv
      BY <1>0, <1>2, <1>3, <1>4 DEF IInv, Stacked
<1>6. EE!Init
      BY <1>0 DEF EE!Init, GuestPc
<1> QED BY <1>5, <1>6

\* Every step keeps the invariant.  Unless dispatchGuestBranch mistakes a call
\* for finished, it is a step of the guest's program, or none.
LEMMA EveryStep ==
    ASSUME IInv, Behaved, [Next]_vars
    PROVE  IInv' /\ (~Mistaken => [EE!Next]_(EE!vars))
<1>0. ASSUME UNCHANGED <<which, GuestPc, regs>>
      PROVE  UNCHANGED EE!vars
      BY <1>0 DEF EE!vars
<1>1. CASE Dispatch
      BY <1>0, <1>1, DispatchStep
<1>2. CASE Retire \/ EndRun \/ RequestStop \/ UNCHANGED vars
  <2>1. UNCHANGED <<which, pc, regs, host>>
        BY <1>2 DEF Retire, EndRun, RequestStop, vars
  <2> QED BY <1>0, <2>1, ThreadUntouched
<1>3. CASE Ordinary
      BY <1>3, OrdinaryStep
<1>4. CASE Syscall
      BY <1>4, SyscallStep
<1>5. CASE SlotEntered
      BY <1>5, SlotEnteredStep
<1>6. CASE ConditionalBranch
      BY <1>6, ConditionalStep
<1>7. CASE Jump
      BY <1>7, JumpStep
<1>8. CASE Call
      BY <1>8, CallStep
<1>9. CASE RegisterBranch
      BY <1>9, RegisterStep
<1>10. CASE ReturnJump
       BY <1>10, ReturnStep
<1>11. CASE Returned
       BY <1>0, <1>11, ReturnedStep
<1>12. CASE Handler
       BY <1>12, HandlerStep
<1> QED BY <1>1, <1>2, <1>3, <1>4, <1>5, <1>6, <1>7, <1>8, <1>9, <1>10, <1>11, <1>12
        DEF Next, GameThread

(***************************************************************************)
(* The theorems.                                                           *)
(***************************************************************************)
\* What run() and the recompiled code leave to the dispatcher has a function:
\* emitInternalTarget, dispatchGuestBranch and handleSyscall put no word into
\* ctx->pc that ResumeEntryPoints and the function table leave out.
THEOREM NothingIsLost == Spec /\ []Behaved => []NeverLost
<1>1. Init => IInv
      BY InitHolds
<1>2. IInv /\ Behaved /\ [Next]_vars => IInv'
      BY EveryStep
<1>3. IInv => NeverLost
  <2>1. SUFFICES ASSUME IInv, host = <<>>
                 PROVE  pc \in DOMAIN table \cup {0}
        BY DEF NeverLost
  <2>2. pc \in Landings(Programs[which]) /\ table = FunctionTable(Programs[which])
        BY <2>1, OutputIs DEF IInv, Stacked
  <2> QED BY <2>2 DEF Landings
<1> QED BY <1>1, <1>2, <1>3, PTL DEF Spec

\* The functions that the emitters write, entered, left and entered again by
\* dispatchGuestBranch and EeScheduler::run, execute the guest's program, as
\* long as dispatchGuestBranch takes no call for finished that is not.
THEOREM CodeImplementsProgram == Spec /\ []Behaved /\ []~Mistaken => ImplementsProgram
<1>1. Init => IInv /\ EE!Init
      BY InitHolds
<1>2. IInv /\ Behaved /\ [Next]_vars => IInv'
      BY EveryStep
<1>3. IInv /\ Behaved /\ ~Mistaken /\ [Next]_vars => [EE!Next]_(EE!vars)
      BY EveryStep
<1> QED BY <1>1, <1>2, <1>3, PTL DEF Spec, ImplementsProgram, EE!Spec
=============================================================================
