------------------------------ MODULE DmaChain ------------------------------
(***************************************************************************)
(* The DMA controller of the runtime (ps2xRuntime/src/lib/ps2_memory.cpp), *)
(* its channels to the GIF and to VIF1: blocks and chains, D_STAT, the     *)
(* causes of interrupts that stores and the library calls pass on          *)
(* (ps2_runtime.cpp, Kernel/Stubs/Helpers/Support.h), and the short cuts   *)
(* for two common chains to the GIF.                                       *)
(*                                                                         *)
(* Addresses count quadwords.  A quadword of memory is a record of what it *)
(* is as a DMA tag, and as the first quadword of a GIF packet ("gif", and  *)
(* for an image its size in quadwords, "nloop"); its contents are          *)
(* otherwise left out, and what was sent is a sequence of addresses.  A    *)
(* transfer is complete before the store that started it returns; one turn *)
(* of the loop over the tags is a step here.                               *)
(***************************************************************************)
EXTENDS Integers, Sequences, FiniteSets

CONSTANTS
    Memories,      \* the contents of memory in use
    Starts,        \* addresses of chains and blocks in use
    Blocks, Chains,\* ways in use to start each: [c, n, how] and [c, tie, how]
    StatWrites,    \* values in use for D_STAT: <<bits cleared, masks flipped>>
    MaxTags,       \* kMaxChainTags
    SetupQwc,      \* quadwords of the packet that sets an upload up
    MaxTransfers,  \* bound: transfers started
    MaxCalls       \* bound: other stores to registers, changes of masks

ASSUME ChainAssumption == MaxTags \in Nat /\ MaxTags >= 4 /\ SetupQwc \in Nat \ {0}

VARIABLES
    mem,           \* main memory
    ch,            \* the registers of each channel
    walk,          \* the locals of the loop over the tags of a chain
    phase,         \* "guest", "walk", or "drain": the rest of the store
    by,            \* how the transfer was started
    asked,         \* what the program's last start asked for
    dmae,          \* bit 0 of D_CTRL
    stat,          \* D_STAT: status and mask bits, bit 31
    masked,        \* m_path3Masked
    fifo,          \* m_path3MaskedFifo
    out,           \* what each channel has passed on
    causes,        \* m_completedDmacCauses
    enabled,       \* the scheduler's m_enabledDmacMask
    ledger,        \* completions and how they ended
    over,          \* the chain given last has come to its end
    started, calls \* bounded counters

vars == <<mem, ch, walk, phase, by, asked, dmae, stat, masked, fifo, out, causes, enabled, ledger,
          over, started, calls>>

Channels == {"GIF", "VIF1"}
Ids == {"Refe", "Cnt", "Next", "Ref", "Call", "Ret", "End"}
NoTag == [id |-> "Refe", irq |-> FALSE]
NoWalk == [on |-> "none", addr |-> 0, asp |-> 0, asr0 |-> 0, asr1 |-> 0, tag |-> NoTag,
           tie |-> FALSE, buf |-> <<>>, count |-> 0, stop |-> FALSE, ended |-> FALSE]

\* translateAddress takes every address a program writes into memory, and a
\* QWC has 16 bits, which is less than memory has quadwords.
ASSUME MemoryAssumption ==
    \A m \in Memories :
        /\ Cardinality(DOMAIN m) \in Nat /\ DOMAIN m = 0 .. Cardinality(DOMAIN m) - 1
        /\ \A a \in DOMAIN m : /\ m[a].id \in Ids /\ m[a].irq \in BOOLEAN
                               /\ m[a].qwc \in Nat /\ m[a].addr \in Nat
        /\ Starts \subseteq DOMAIN m
        /\ \A b \in Blocks : b.n =< Cardinality(DOMAIN m)

ASSUME UseAssumption ==
    /\ \A b \in Blocks : b.c \in Channels /\ b.n \in Nat /\ b.how \in {"store32", "store64", "send"}
    /\ \A b \in Chains : /\ b.c \in Channels /\ b.tie \in BOOLEAN
                         /\ b.how \in {"store32", "store64", "send"}
    /\ StatWrites \subseteq (SUBSET Channels) \X (SUBSET Channels)

Size == Cardinality(DOMAIN mem)
\* appendData: n quadwords from a, from the top of memory on at its bottom.
Data(a, n) == [i \in 1 .. n |-> <<"qword", (a + i - 1) % Size>>]

(***************************************************************************)
(* One turn of the loop over the tags, w being the loop's variables.       *)
(***************************************************************************)
Local(t) == t.id \in {"Cnt", "Next", "Call", "Ret", "End"}

Carried_RefeLocal(w, t) ==                  \* mutant: the end tag's data is looked for behind it
    (IF w.on = "VIF1" /\ Local(t) THEN <<<<"upper", w.addr>>>> ELSE <<>>)
        \o Data(IF t.id # "Ref" THEN w.addr + 1 ELSE t.addr, t.qwc)
Carried(w, t) ==
    (IF w.on = "VIF1" /\ Local(t) THEN <<<<"upper", w.addr>>>> ELSE <<>>)
        \o Data(IF Local(t) THEN w.addr + 1 ELSE t.addr, t.qwc)

Called(w, ret) ==
    IF w.asp = 0 THEN [w EXCEPT !.asr0 = ret, !.asp = 1]
    ELSE IF w.asp = 1 THEN [w EXCEPT !.asr1 = ret, !.asp = 2] ELSE w

Returned(w) ==
    IF w.asp = 2 THEN [w EXCEPT !.addr = w.asr1, !.asp = 1]
    ELSE IF w.asp = 1 THEN [w EXCEPT !.addr = w.asr0, !.asp = 0]
    ELSE [w EXCEPT !.ended = TRUE]

Followed(w, t) ==
    CASE t.id = "Refe" -> [w EXCEPT !.addr = @ + 1, !.ended = TRUE]
      [] t.id = "Ref" -> [w EXCEPT !.addr = @ + 1]
      [] t.id = "Cnt" -> [w EXCEPT !.addr = @ + 1 + t.qwc]
      [] t.id = "Next" -> [w EXCEPT !.addr = t.addr]
      [] t.id = "Call" -> [Called(w, w.addr + 1 + t.qwc) EXCEPT !.addr = t.addr]
      [] t.id = "Ret" -> Returned(w)
      [] t.id = "End" -> [w EXCEPT !.ended = TRUE]

Turned(w) ==
    IF w.addr \notin DOMAIN mem THEN [w EXCEPT !.stop = TRUE]
    ELSE LET t == mem[w.addr]
             f == Followed(w, t)
         IN  [f EXCEPT !.tag = [id |-> t.id, irq |-> t.irq], !.buf = @ \o Carried(w, t),
                       !.count = @ + 1,
                       !.stop = f.ended \/ (t.irq /\ w.tie) \/ w.count + 1 = MaxTags]

(***************************************************************************)
(* processPendingTransfers, for the channel c and what it has to pass on.  *)
(***************************************************************************)
Times(c, s) == Cardinality({i \in 1 .. Len(s) : s[i] = c})
Queued_Once(c) == IF Times(c, causes) > 0 THEN causes ELSE Append(causes, c)  \* mutant: a set
Queued(c) == Append(causes, c)

Raised(s, c) == [status |-> s.status \cup {c}, mask |-> s.mask,
                 sum |-> (s.status \cup {c}) \cap s.mask # {}]

\* D_STAT: status bits are cleared, mask bits flipped, where ones are written.
WrittenStat(clear, flip) ==
    LET s == stat.status \ clear
        m == (stat.mask \ flip) \cup (flip \ stat.mask)
    IN  [status |-> s, mask |-> m, sum |-> s \cap m # {}]

Complete(c, buf, regs) ==
    /\ IF c = "GIF" /\ masked
       THEN fifo' = fifo \o buf /\ UNCHANGED out
       ELSE /\ out' = [out EXCEPT ![c] = @ \o (IF c = "GIF" THEN fifo ELSE <<>>) \o buf]
            /\ fifo' = IF c = "GIF" THEN <<>> ELSE fifo
    /\ stat' = Raised(stat, c)
    /\ causes' = Queued(c)
    /\ ch' = [ch EXCEPT ![c] = [regs EXCEPT !.str = FALSE, !.qwc = 0]]
    /\ ledger' = [ledger EXCEPT !.moved[c] = @ + 1]

-----------------------------------------------------------------------------
(***************************************************************************)
(* The program starts a transfer by setting STR: how is "store32",         *)
(* "store64" (which does not pass causes on), "send" (sceDmaSend) or       *)
(* "kick" (the store that the recompiler makes a call of its own).         *)
(***************************************************************************)
CanStart == phase = "guest" /\ started < MaxTransfers

Asks(c, what, addr, n) == asked' = [c |-> c, what |-> what, addr |-> addr, n |-> n]

\* The registers as the program writes them before and with STR.
Written(c, tie, asp, addr, n) ==
    [ch[c] EXCEPT !.str = TRUE, !.tie = tie, !.asp = asp, !.tadr = addr, !.qwc = n]

\* The store does nothing but set the bit: the controller is disabled.
Ignored(c, regs, how) ==
    /\ ~dmae
    /\ ch' = [ch EXCEPT ![c] = regs] /\ phase' = "drain" /\ by' = <<c, how>>
    /\ UNCHANGED <<walk, out, fifo, causes, ledger>>

Normal(c, addr, n, how) ==
    /\ CanStart
    /\ LET regs == IF how = "send" THEN Written(c, TRUE, 0, addr, n)
                   ELSE [ch[c] EXCEPT !.str = TRUE, !.qwc = n]
       IN  \/ Ignored(c, regs, how) /\ UNCHANGED stat
           \/ /\ dmae /\ n > 0
              /\ Complete(c, Data(addr, n), regs)
              /\ phase' = "drain" /\ by' = <<c, how>> /\ UNCHANGED walk
           \/ /\ dmae /\ n = 0
              /\ ch' = [ch EXCEPT ![c] = regs] /\ phase' = "drain" /\ by' = <<c, how>>
              /\ UNCHANGED <<walk, out, fifo, stat, causes, ledger>>
    /\ over' = IF how = "send" THEN [over EXCEPT ![c] = FALSE] ELSE over
    /\ Asks(c, IF how = "send" THEN "send" ELSE "block", addr, n)
    /\ started' = started + 1
    /\ UNCHANGED <<mem, dmae, masked, enabled, calls>>

Walk(c, regs) ==
    [NoWalk EXCEPT !.on = c, !.addr = regs.tadr, !.asp = regs.asp, !.asr0 = regs.asr0,
                   !.asr1 = regs.asr1, !.tag = regs.tag, !.tie = regs.tie]

\* A new chain.
NewChain(c, tie, addr, how) ==
    /\ CanStart
    /\ LET regs == Written(c, tie, 0, addr, ch[c].qwc)
       IN  \/ Ignored(c, regs, how)
           \/ /\ dmae /\ ch' = [ch EXCEPT ![c] = regs] /\ walk' = Walk(c, regs)
              /\ phase' = "walk" /\ by' = <<c, how>>
              /\ UNCHANGED <<out, fifo, causes, ledger>>
    /\ over' = [over EXCEPT ![c] = FALSE]
    /\ Asks(c, "chain", addr, 0)
    /\ started' = started + 1
    /\ UNCHANGED <<mem, dmae, masked, enabled, calls>>

Chain(c, tie, addr, how) == NewChain(c, tie, addr, how) /\ UNCHANGED stat

\* A chain that its tag's interrupt has stopped goes on: STR is set again.
Resume(c) ==
    /\ CanStart /\ dmae
    /\ ~over[c] /\ ch[c].tag.irq /\ ch[c].tie
    /\ LET regs == [ch[c] EXCEPT !.str = TRUE]
       IN  ch' = [ch EXCEPT ![c] = regs] /\ walk' = Walk(c, regs)
    /\ phase' = "walk" /\ by' = <<c, "store32">> /\ Asks(c, "resume", 0, 0)
    /\ started' = started + 1
    /\ UNCHANGED <<mem, dmae, stat, masked, fifo, out, causes, enabled, ledger, over, calls>>

Turn ==
    /\ phase = "walk" /\ ~walk.stop
    /\ walk' = Turned(walk)
    /\ over' = [over EXCEPT ![walk.on] = Turned(walk).ended]
    /\ UNCHANGED <<mem, ch, phase, by, asked, dmae, stat, masked, fifo, out, causes, enabled,
                   ledger, started, calls>>

\* The registers are written back, and the transfer is carried out.
Latched(c) ==
    [ch[c] EXCEPT !.tadr = walk.addr, !.asr0 = walk.asr0, !.asr1 = walk.asr1,
                  !.asp = walk.asp, !.tag = walk.tag]

Stop ==
    /\ phase = "walk" /\ walk.stop
    /\ IF walk.buf # <<>> THEN Complete(walk.on, walk.buf, Latched(walk.on))
       ELSE /\ ch' = [ch EXCEPT ![walk.on] = Latched(walk.on)]
            /\ UNCHANGED <<fifo, out, stat, causes, ledger>>
    /\ walk' = NoWalk /\ phase' = "drain"
    /\ UNCHANGED <<mem, by, asked, dmae, masked, enabled, over, started, calls>>

(***************************************************************************)
(* The rest of the store or call: drainCompletedDmacHandlers passes the    *)
(* causes to dispatchIrq, which drops those not enabled.  sceDmaSend does  *)
(* so itself, and makes up a cause if there is none: it reads CHCR, which  *)
(* clears STR.                                                             *)
(***************************************************************************)
Dispatched(s) ==
    [ledger EXCEPT !.raised = [c \in Channels |-> @[c] + IF c \in enabled THEN Times(c, s) ELSE 0],
                   !.dropped = [c \in Channels |-> @[c] + IF c \in enabled THEN 0 ELSE Times(c, s)]]

Drain ==
    /\ phase = "drain" /\ phase' = "guest"
    /\ LET c == by[1]
           made_up == by[2] = "send" /\ causes = <<>>
           l == Dispatched(IF made_up THEN <<c>> ELSE causes)
       IN  IF by[2] = "store64" THEN UNCHANGED <<ch, causes, ledger>>
           ELSE /\ causes' = <<>>
                /\ ledger' = IF made_up THEN [l EXCEPT !.made_up[c] = @ + 1] ELSE l
                /\ ch' = IF made_up THEN [ch EXCEPT ![c].str = FALSE] ELSE ch
    /\ UNCHANGED <<mem, walk, by, asked, dmae, stat, masked, fifo, out, enabled, over, started,
                   calls>>

(***************************************************************************)
(* The short cuts of kickGifDmaChainFromMMIO: an image with the packet     *)
(* that sets it up, or one packet of registers, is handed to the GS past   *)
(* the arbiter.                                                            *)
(***************************************************************************)
Open == ~masked /\ dmae
There(a, n) == a + n <= Size
TagAt(a, ids, n) ==
    There(a, 1) /\ mem[a].id \in ids /\ ~mem[a].irq /\ mem[a].qwc = n

\* The quadwords passed on, where the chain ends, and its last tag.
ImageTag(a) == a + 1 + SetupQwc
DataTag(a) == ImageTag(a) + 2
ImageChain(a) ==
    /\ TagAt(a, {"Cnt"}, SetupQwc) /\ There(a + 1, SetupQwc) /\ mem[a + 1].gif = "Setup"
    /\ TagAt(ImageTag(a), {"Cnt"}, 1) /\ There(ImageTag(a) + 1, 1)
    /\ mem[ImageTag(a) + 1].gif = "Image" /\ There(DataTag(a), 1)
    /\ LET d == mem[DataTag(a)]
       IN  /\ ~d.irq /\ d.qwc > 0 /\ d.qwc = mem[ImageTag(a) + 1].nloop
           /\ \/ /\ d.id = "Ref" /\ There(d.addr, d.qwc)
                 /\ TagAt(DataTag(a) + 1, {"Refe", "End"}, 0)
              \/ d.id = "End" /\ There(DataTag(a) + 1, d.qwc)

PackedChain(a) ==
    /\ There(a, 1) /\ mem[a].id = "End" /\ mem[a].qwc > 0 /\ ~mem[a].irq
    /\ There(a + 1, mem[a].qwc) /\ mem[a + 1].gif = "Packed"

ShortCut_Masked(a) == dmae /\ (ImageChain(a) \/ PackedChain(a))   \* mutant: the mask is not looked at
ShortCut(a) == Open /\ (ImageChain(a) \/ PackedChain(a))

ShortResult(a) ==
    IF PackedChain(a) THEN [addr |-> a, tag |-> [id |-> "End", irq |-> FALSE],
                            buf |-> Data(a + 1, mem[a].qwc)]
    ELSE LET d == DataTag(a)
             buf == Data(a + 1, SetupQwc) \o Data(ImageTag(a) + 1, 1)
         IN  IF mem[d].id = "End"
             THEN [addr |-> d, tag |-> [id |-> "End", irq |-> FALSE],
                   buf |-> buf \o Data(d + 1, mem[d].qwc)]
             ELSE [addr |-> IF mem[d + 1].id = "Refe" THEN d + 2 ELSE d + 1,
                   tag |-> [id |-> mem[d + 1].id, irq |-> FALSE],
                   buf |-> buf \o Data(mem[d].addr, mem[d].qwc)]

KickShort(addr, s) ==
    /\ CanStart /\ ShortCut(addr)
    /\ LET r == ShortResult(addr)
           regs == [Written("GIF", FALSE, 0, addr, 0)
                       EXCEPT !.tadr = r.addr, !.tag = r.tag, !.asr0 = 0, !.asr1 = 0]
       IN  /\ out' = [out EXCEPT !["GIF"] = @ \o r.buf]
           /\ stat' = Raised(s, "GIF")
           /\ causes' = Queued("GIF")
           /\ ch' = [ch EXCEPT !["GIF"] = [regs EXCEPT !.str = FALSE]]
           /\ ledger' = [ledger EXCEPT !.moved["GIF"] = @ + 1]
    /\ over' = [over EXCEPT !["GIF"] = TRUE]
    /\ phase' = "drain" /\ by' = <<"GIF", "kick">> /\ Asks("GIF", "chain", addr, 0)
    /\ started' = started + 1
    /\ UNCHANGED <<mem, walk, dmae, masked, fifo, enabled, calls>>

\* D_STAT is written first; a chain that fits neither is walked.
Kick(tie, addr, clear, flip) ==
    LET s == WrittenStat(clear, flip)
    IN  \/ ~tie /\ KickShort(addr, s)
        \/ /\ tie \/ ~ShortCut(addr)
           /\ NewChain("GIF", tie, addr, "kick") /\ stat' = s

-----------------------------------------------------------------------------
(***************************************************************************)
(* Other stores, all of 32 bits, and calls.                                *)
(***************************************************************************)
Call == phase = "guest" /\ calls < MaxCalls /\ calls' = calls + 1
AsStore == phase' = "drain" /\ by' = <<"GIF", "store32">>

WriteStat(clear, flip) ==
    /\ Call /\ AsStore /\ stat' = WrittenStat(clear, flip)
    /\ UNCHANGED <<mem, ch, walk, asked, dmae, masked, fifo, out, causes, enabled, ledger, over,
                   started>>

WriteCtrl ==
    /\ Call /\ AsStore /\ dmae' = ~dmae
    /\ UNCHANGED <<mem, ch, walk, asked, stat, masked, fifo, out, causes, enabled, ledger, over,
                   started>>

\* EnableDmac and DisableDmac.
SetEnabled(c) ==
    /\ Call
    /\ enabled' = IF c \in enabled THEN enabled \ {c} ELSE enabled \cup {c}
    /\ UNCHANGED <<mem, ch, walk, phase, by, asked, dmae, stat, masked, fifo, out, causes, ledger,
                   over, started>>

\* CHCR is read: STR is cleared by that.
ReadChcr(c) ==
    /\ Call /\ ch[c].str
    /\ ch' = [ch EXCEPT ![c].str = FALSE]
    /\ UNCHANGED <<mem, walk, phase, by, asked, dmae, stat, masked, fifo, out, causes, enabled,
                   ledger, over, started>>

\* A MSKPATH3 code in VIF1's stream.
MaskPath3 ==
    /\ Call /\ masked' = ~masked
    /\ IF masked THEN out' = [out EXCEPT !["GIF"] = @ \o fifo] /\ fifo' = <<>>
       ELSE UNCHANGED <<out, fifo>>
    /\ UNCHANGED <<mem, ch, walk, phase, by, asked, dmae, stat, causes, enabled, ledger, over,
                   started>>

-----------------------------------------------------------------------------
Init ==
    /\ mem \in Memories
    /\ ch = [c \in Channels |-> [str |-> FALSE, tie |-> FALSE, asp |-> 0, tadr |-> 0, asr0 |-> 0,
                                 asr1 |-> 0, tag |-> NoTag, qwc |-> 0]]
    /\ walk = NoWalk /\ phase = "guest" /\ by = <<"GIF", "store32">>
    /\ asked = [c |-> "GIF", what |-> "block", addr |-> 0, n |-> 0]
    /\ dmae = TRUE /\ masked = FALSE /\ fifo = <<>>
    /\ stat = [status |-> {}, mask |-> {}, sum |-> FALSE]
    /\ out = [c \in Channels |-> <<>>]
    /\ causes = <<>> /\ enabled = Channels
    /\ ledger = [moved |-> [c \in Channels |-> 0], raised |-> [c \in Channels |-> 0],
                 dropped |-> [c \in Channels |-> 0], made_up |-> [c \in Channels |-> 0]]
    /\ over = [c \in Channels |-> TRUE]
    /\ started = 0 /\ calls = 0

StartCall ==
    \/ \E addr \in Starts : \/ \E b \in Blocks : Normal(b.c, addr, b.n, b.how)
                            \/ \E b \in Chains : Chain(b.c, b.tie, addr, b.how)
                            \/ \E tie \in BOOLEAN, w \in StatWrites : Kick(tie, addr, w[1], w[2])
    \/ \E c \in Channels : Resume(c)

OtherCall ==
    \/ \E w \in StatWrites : WriteStat(w[1], w[2])
    \/ WriteCtrl \/ MaskPath3
    \/ \E c \in Channels : SetEnabled(c) \/ ReadChcr(c)

Next == StartCall \/ Turn \/ Stop \/ Drain \/ OtherCall

Spec == Init /\ [][Next]_vars

(***************************************************************************)
(* Properties.                                                             *)
(***************************************************************************)
\* Type correctness of the controller, its channels and the loop over tags.
Registers == [str : BOOLEAN, tie : BOOLEAN, asp : 0 .. 2, tadr : Nat, asr0 : Nat, asr1 : Nat,
              tag : [id : Ids, irq : BOOLEAN], qwc : Nat]
TypeOK ==
    /\ ch \in [Channels -> Registers]
    /\ walk.on \in Channels \cup {"none"} /\ walk.asp \in 0 .. 2 /\ walk.count \in 0 .. MaxTags
    /\ phase \in {"guest", "walk", "drain"} /\ dmae \in BOOLEAN /\ masked \in BOOLEAN
    /\ stat \in [status : SUBSET Channels, mask : SUBSET Channels, sum : BOOLEAN]
    /\ enabled \subseteq Channels /\ over \in [Channels -> BOOLEAN]
    /\ ledger \in [{"moved", "raised", "dropped", "made_up"} -> [Channels -> Nat]]
    /\ \A i \in 1 .. Len(causes) : causes[i] \in Channels

\* The channels are source chain channels: a chain begins, and a block goes
\* out, when a start asks for that one, and over any number of stops by the
\* interrupt bit of a tag, and the restarts from the registers that the loop
\* has written back, every tag on the way is followed once, CALL and RET find
\* their way back, and nothing that these tags carry is lost, repeated or
\* reordered.
Held(c) == IF c = "GIF" THEN fifo ELSE <<>>
At(c) == IF walk.on = c THEN walk
         ELSE [addr |-> ch[c].tadr, asp |-> ch[c].asp, asr0 |-> ch[c].asr0, asr1 |-> ch[c].asr1]
ReturnsOf(r) == SubSeq(<<r.asr0, r.asr1>>, 1, r.asp)
SentBy(c) == out[c] \o Held(c) \o (IF walk.on = c THEN walk.buf ELSE <<>>)
GifSource == INSTANCE SourceChain WITH
    Me <- "GIF", Vif <- FALSE, on <- dmae, given <- started, pc <- At("GIF").addr,
    stack <- ReturnsOf(At("GIF")), sent <- SentBy("GIF"), ended <- over["GIF"]
Vif1Source == INSTANCE SourceChain WITH
    Me <- "VIF1", Vif <- TRUE, on <- dmae, given <- started, pc <- At("VIF1").addr,
    stack <- ReturnsOf(At("VIF1")), sent <- SentBy("VIF1"), ended <- over["VIF1"]
ImplementsSource == GifSource!Spec /\ Vif1Source!Spec

\* Every completed transfer leads to one interrupt: it is still queued, and
\* then the store that completed it was one that passes no causes on, or its
\* handlers were called, or it was dropped because they were not enabled.
InterruptsExact ==
    /\ \A c \in Channels : ledger.moved[c] + ledger.made_up[c]
                              = ledger.raised[c] + ledger.dropped[c] + Times(c, causes)
    /\ phase = "guest" /\ causes # <<>> => by[2] = "store64"

\* A short cut does what the loop over the tags would have done: the same
\* quadwords at the same place in what reaches the GS, and the same registers
\* but for ASR0 and ASR1, which it clears.
Walked(w0) == LET w[n \in 0 .. MaxTags] ==
                    IF n = 0 THEN w0 ELSE LET v == w[n - 1] IN IF v.stop THEN v ELSE Turned(v)
              IN  w[MaxTags]
ShortCutsAgree ==
    phase = "guest" =>
        \A a \in Starts : ShortCut(a) =>
            LET w == Walked(Walk("GIF", Written("GIF", FALSE, 0, a, 0)))
                r == ShortResult(a)
            IN  /\ fifo = <<>> /\ ~masked
                /\ w.ended /\ w.asp = 0
                /\ r = [addr |-> w.addr, tag |-> w.tag, buf |-> w.buf]
=============================================================================
