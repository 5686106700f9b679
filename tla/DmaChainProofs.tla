--------------------------- MODULE DmaChainProofs ---------------------------
(***************************************************************************)
(* Proofs about DmaChain, for any contents of memory and any sequence of   *)
(* transfers and stores.                                                   *)
(***************************************************************************)
EXTENDS DmaChain, KernelListsProofs, FiniteSetTheorems

(***************************************************************************)
(* The inductive invariant.                                                *)
(***************************************************************************)
Items == {"qword", "upper"} \X Nat
Tags == [id : Ids, irq : BOOLEAN]
Walks == [on : Channels \cup {"none"}, addr : Nat, asp : 0 .. 2, asr0 : Nat, asr1 : Nat,
          tag : Tags, tie : BOOLEAN, buf : Seq(Items), count : 0 .. MaxTags, stop : BOOLEAN,
          ended : BOOLEAN]

Types ==
    /\ mem \in Memories
    /\ ch \in [Channels -> Registers] /\ walk \in Walks
    /\ phase \in {"guest", "walk", "drain"}
    /\ by \in Channels \X {"store32", "store64", "send", "kick"}
    /\ dmae \in BOOLEAN /\ masked \in BOOLEAN
    /\ stat \in [status : SUBSET Channels, mask : SUBSET Channels, sum : BOOLEAN]
    /\ fifo \in Seq(Items) /\ out \in [Channels -> Seq(Items)]
    /\ causes \in Seq(Channels) /\ enabled \subseteq Channels /\ over \in [Channels -> BOOLEAN]
    /\ ledger \in [moved : [Channels -> Nat], raised : [Channels -> Nat],
                   dropped : [Channels -> Nat], made_up : [Channels -> Nat]]

\* The loop over the tags runs for one channel, and stops at the chain's end.
Walking ==
    /\ phase # "walk" => walk = NoWalk
    /\ phase = "walk" => /\ dmae /\ walk.on \in Channels /\ over[walk.on] = walk.ended
                         /\ walk.ended => walk.stop
                         /\ ~walk.stop => walk.count < MaxTags

\* What PATH3 holds back goes out when the mask is taken off.
HeldWhileMasked == ~masked => fifo = <<>>

IInv == Types /\ Walking /\ HeldWhileMasked /\ InterruptsExact

(***************************************************************************)
(* Memory and what it carries.                                             *)
(***************************************************************************)
LEMMA MemoryFacts ==
    ASSUME Types
    PROVE  /\ Size \in Nat /\ DOMAIN mem = 0 .. Size - 1
           /\ \A a \in DOMAIN mem : /\ mem[a].id \in Ids /\ mem[a].irq \in BOOLEAN
                                    /\ mem[a].qwc \in Nat /\ mem[a].addr \in Nat
           /\ Starts \subseteq DOMAIN mem
           /\ \A b \in Blocks : b.n =< Size
BY MemoryAssumption DEF Types, Size

LEMMA RestOfDivision ==
    ASSUME NEW a \in Nat, NEW b \in Nat \ {0}
    PROVE  a % b \in 0 .. b - 1
OBVIOUS

LEMMA DataFacts ==
    ASSUME Types, NEW a \in Nat, NEW n \in Nat, Size > 0
    PROVE  /\ Data(a, n) \in Seq(Items) /\ Len(Data(a, n)) = n
           /\ \A i \in 1 .. n : Data(a, n)[i] = <<"qword", (a + i - 1) % Size>>
<1> DEFINE Place(i) == (a + i - 1) % Size
<1>1. \A i \in 1 .. n : Place(i) \in Nat
  <2>1. Size \in Nat \ {0} /\ \A i \in 1 .. n : a + i - 1 \in Nat
        BY MemoryFacts
  <2>2. \A k \in 0 .. Size - 1 : k \in Nat
        BY <2>1
  <2>3. \A i \in 1 .. n : Place(i) \in 0 .. Size - 1
        BY <2>1, RestOfDivision
  <2> QED BY <2>2, <2>3, Zenon
<1>2. Data(a, n) = [i \in 1 .. n |-> <<"qword", Place(i)>>]
      BY DEF Data
<1> HIDE DEF Place
<1>3. Data(a, n) \in Seq(Items) /\ Len(Data(a, n)) = n
      BY <1>1, <1>2 DEF Items
<1>4. \A i \in 1 .. n : Data(a, n)[i] = <<"qword", Place(i)>>
      BY <1>2
<1> QED BY <1>3, <1>4 DEF Place

LEMMA Joined ==
    ASSUME NEW s \in Seq(Items), NEW t \in Seq(Items)
    PROVE  s \o t \in Seq(Items)
OBVIOUS

LEMMA Associative ==
    ASSUME NEW s \in Seq(Items), NEW t \in Seq(Items), NEW u \in Seq(Items)
    PROVE  (s \o t) \o u = s \o (t \o u)
OBVIOUS

LEMMA Empties ==
    ASSUME NEW s \in Seq(Items)
    PROVE  s \o <<>> = s /\ <<>> \o s = s /\ <<>> \in Seq(Items)
BY EmptySeq, ConcatEmptySeq

(***************************************************************************)
(* Causes of interrupts.                                                   *)
(***************************************************************************)
LEMMA TimesFacts ==
    ASSUME NEW s \in Seq(Channels), NEW c \in Channels
    PROVE  /\ Times(c, s) \in Nat
           /\ \A d \in Channels : Times(c, Append(s, d)) = Times(c, s) + (IF d = c THEN 1 ELSE 0)
<1> DEFINE Places(q) == {i \in 1 .. Len(q) : q[i] = c}
<1>1. IsFiniteSet(Places(s))
  <2>1. Len(s) \in Nat /\ IsFiniteSet(1 .. Len(s))
        BY FS_Interval
  <2> QED BY <2>1, FS_Subset
<1>2. ASSUME NEW d \in Channels
      PROVE  Times(c, Append(s, d)) = Times(c, s) + (IF d = c THEN 1 ELSE 0)
  <2>1. /\ Len(s) \in Nat /\ Len(Append(s, d)) = Len(s) + 1 /\ Append(s, d)[Len(s) + 1] = d
        /\ \A i \in 1 .. Len(s) : Append(s, d)[i] = s[i]
        OBVIOUS
  <2>2. CASE d = c
    <3>1. Places(Append(s, d)) = Places(s) \cup {Len(s) + 1}
          BY <2>1, <2>2
    <3>2. Len(s) + 1 \notin Places(s)
          BY <2>1
    <3> QED BY <1>1, <2>2, <3>1, <3>2, FS_AddElement, FS_CardinalityType DEF Times
  <2>3. CASE d # c
    <3>1. Places(Append(s, d)) = Places(s)
          BY <2>1, <2>3
    <3>2. Times(c, s) \in Nat /\ Times(c, Append(s, d)) = Times(c, s)
          BY <1>1, <3>1, FS_CardinalityType DEF Times
    <3> QED BY <2>3, <3>2
  <2> QED BY <2>2, <2>3
<1>3. Times(c, s) \in Nat
      BY <1>1, FS_CardinalityType DEF Times
<1> QED BY <1>2, <1>3

LEMMA TimesNone ==
    ASSUME NEW c \in Channels
    PROVE  /\ Times(c, <<>>) = 0 /\ \A d \in Channels : Times(c, <<d>>) = IF d = c THEN 1 ELSE 0
<1>1. {i \in 1 .. Len(<<>>) : <<>>[i] = c} = {}
      OBVIOUS
<1>2. Times(c, <<>>) = 0
      BY <1>1, FS_EmptySet DEF Times
<1>3. <<>> \in Seq(Channels) /\ \A d \in Channels : <<d>> = Append(<<>>, d)
      OBVIOUS
<1>4. ASSUME NEW d \in Channels
      PROVE  Times(c, <<d>>) = IF d = c THEN 1 ELSE 0
  <2>1. Times(c, Append(<<>>, d)) = Times(c, <<>>) + (IF d = c THEN 1 ELSE 0)
        BY <1>3, TimesFacts
  <2> QED BY <1>2, <1>3, <2>1
<1> QED BY <1>2, <1>4

(***************************************************************************)
(* One turn of the loop over the tags.                                     *)
(***************************************************************************)
IsTag(t) == t.id \in Ids /\ t.irq \in BOOLEAN /\ t.qwc \in Nat /\ t.addr \in Nat
SameRest(f, w) ==
    /\ f.on = w.on /\ f.tie = w.tie /\ f.buf = w.buf /\ f.count = w.count
    /\ f.stop = w.stop /\ f.tag = w.tag
SameReturns(f, w) == f.asp = w.asp /\ f.asr0 = w.asr0 /\ f.asr1 = w.asr1

\* The loop's variables after an assignment to one or some of them.
LEMMA AddrAssigned ==
    ASSUME NEW w \in Walks, NEW a \in Nat, NEW f, f = [w EXCEPT !.addr = a]
    PROVE  /\ f \in Walks /\ SameRest(f, w) /\ SameReturns(f, w)
           /\ f.addr = a /\ f.ended = w.ended
<1>1. f \in Walks
      BY DEF Walks
<1> QED BY <1>1 DEF Walks, SameRest, SameReturns

LEMMA EndAssigned ==
    ASSUME NEW w \in Walks, NEW f, f = [w EXCEPT !.ended = TRUE]
    PROVE  /\ f \in Walks /\ SameRest(f, w) /\ SameReturns(f, w)
           /\ f.addr = w.addr /\ f.ended = TRUE
<1>1. f \in Walks
      BY DEF Walks
<1> QED BY <1>1 DEF Walks, SameRest, SameReturns

LEMMA BothAssigned ==
    ASSUME NEW w \in Walks, NEW a \in Nat
    PROVE  [w EXCEPT !.addr = a, !.ended = TRUE] \in Walks
BY DEF Walks

LEMMA FirstPushed ==
    ASSUME NEW w \in Walks, NEW r \in Nat, NEW n \in 0 .. 2
    PROVE  [w EXCEPT !.asr0 = r, !.asp = n] \in Walks
BY DEF Walks

LEMMA SecondPushed ==
    ASSUME NEW w \in Walks, NEW r \in Nat, NEW n \in 0 .. 2
    PROVE  [w EXCEPT !.asr1 = r, !.asp = n] \in Walks
BY DEF Walks

LEMMA Popped ==
    ASSUME NEW w \in Walks, NEW a \in Nat, NEW n \in 0 .. 2
    PROVE  [w EXCEPT !.addr = a, !.asp = n] \in Walks
BY DEF Walks

LEMMA CallAssigned ==
    ASSUME NEW w \in Walks, NEW r \in Nat, NEW f, f = Called(w, r)
    PROVE  /\ f \in Walks /\ SameRest(f, w) /\ f.addr = w.addr /\ f.ended = w.ended
           /\ f.asp = (IF w.asp = 2 THEN 2 ELSE w.asp + 1)
           /\ f.asr0 = (IF w.asp = 0 THEN r ELSE w.asr0)
           /\ f.asr1 = (IF w.asp = 1 THEN r ELSE w.asr1)
<1>1. w \in Walks /\ r \in Nat /\ w.asp \in 0 .. 2 /\ 1 \in 0 .. 2 /\ 2 \in 0 .. 2
      BY DEF Walks
<1>2. CASE w.asp = 0
  <2>1. f = [w EXCEPT !.asr0 = r, !.asp = 1]
        BY <1>2 DEF Called
  <2>2. [w EXCEPT !.asr0 = r, !.asp = 1] \in Walks
        BY <1>1, FirstPushed
  <2>3. /\ SameRest(f, w) /\ f.addr = w.addr /\ f.ended = w.ended
        /\ f.asp = 1 /\ f.asr0 = r /\ f.asr1 = w.asr1
        BY <2>1 DEF Walks, SameRest
  <2> QED BY <1>2, <2>1, <2>2, <2>3
<1>3. CASE w.asp = 1
  <2>1. f = [w EXCEPT !.asr1 = r, !.asp = 2]
        BY <1>3 DEF Called
  <2>2. [w EXCEPT !.asr1 = r, !.asp = 2] \in Walks
        BY <1>1, SecondPushed
  <2>3. /\ SameRest(f, w) /\ f.addr = w.addr /\ f.ended = w.ended
        /\ f.asp = 2 /\ f.asr0 = w.asr0 /\ f.asr1 = r
        BY <2>1 DEF Walks, SameRest
  <2> QED BY <1>3, <2>1, <2>2, <2>3
<1>4. CASE w.asp = 2
  <2>1. f = w
        BY <1>4 DEF Called
  <2> QED BY <1>4, <2>1 DEF SameRest
<1> QED BY <1>1, <1>2, <1>3, <1>4

LEMMA ReturnAssigned ==
    ASSUME NEW w \in Walks, NEW f, f = Returned(w)
    PROVE  /\ f \in Walks /\ SameRest(f, w) /\ f.asr0 = w.asr0 /\ f.asr1 = w.asr1
           /\ f.addr = (IF w.asp = 2 THEN w.asr1 ELSE IF w.asp = 1 THEN w.asr0 ELSE w.addr)
           /\ f.asp = (IF w.asp = 0 THEN 0 ELSE w.asp - 1)
           /\ f.ended = (w.ended \/ w.asp = 0)
<1>1. /\ w.asp \in 0 .. 2 /\ w.asr0 \in Nat /\ w.asr1 \in Nat /\ w.ended \in BOOLEAN
      /\ w \in Walks /\ 0 \in 0 .. 2 /\ 1 \in 0 .. 2
      BY DEF Walks
<1>2. CASE w.asp = 0
  <2>1. f = [w EXCEPT !.ended = TRUE]
        BY <1>2 DEF Returned
  <2>2. /\ f \in Walks /\ SameRest(f, w) /\ SameReturns(f, w)
        /\ f.addr = w.addr /\ f.ended = TRUE
        BY <2>1, EndAssigned
  <2>3. f.ended = (w.ended \/ w.asp = 0)
        BY ONLY <1>1, <1>2, <2>2, Zenon
  <2> QED BY <1>2, <2>2, <2>3 DEF SameReturns
<1>3. CASE w.asp = 1
  <2>1. f = [w EXCEPT !.addr = w.asr0, !.asp = 0]
        BY <1>3 DEF Returned
  <2>2. [w EXCEPT !.addr = w.asr0, !.asp = 0] \in Walks
        BY <1>1, Popped
  <2>3. /\ SameRest(f, w) /\ f.asr0 = w.asr0 /\ f.asr1 = w.asr1
        /\ f.addr = w.asr0 /\ f.asp = 0 /\ f.ended = w.ended
        BY <2>1 DEF Walks, SameRest
  <2>4. f.ended = (w.ended \/ w.asp = 0)
        BY <1>1, <1>3, <2>3
  <2> QED BY <1>3, <2>1, <2>2, <2>3, <2>4
<1>4. CASE w.asp = 2
  <2>1. f = [w EXCEPT !.addr = w.asr1, !.asp = 1]
        BY <1>4 DEF Returned
  <2>2. [w EXCEPT !.addr = w.asr1, !.asp = 1] \in Walks
        BY <1>1, Popped
  <2>3. /\ SameRest(f, w) /\ f.asr0 = w.asr0 /\ f.asr1 = w.asr1
        /\ f.addr = w.asr1 /\ f.asp = 1 /\ f.ended = w.ended
        BY <2>1 DEF Walks, SameRest
  <2>4. f.ended = (w.ended \/ w.asp = 0)
        BY <1>1, <1>4, <2>3
  <2> QED BY <1>4, <2>1, <2>2, <2>3, <2>4
<1> QED BY <1>1, <1>2, <1>3, <1>4

LEMMA FollowedFacts ==
    ASSUME NEW w \in Walks, NEW t, IsTag(t)
    PROVE  LET f == Followed(w, t) IN
           /\ f \in Walks /\ SameRest(f, w)
           /\ f.ended = (w.ended \/ t.id \in {"Refe", "End"} \/ (t.id = "Ret" /\ w.asp = 0))
           /\ t.id \in {"Refe", "Ref"} => f.addr = w.addr + 1
           /\ t.id = "Cnt" => f.addr = w.addr + 1 + t.qwc
           /\ t.id \in {"Next", "Call"} => f.addr = t.addr
           /\ t.id = "Ret" =>
                 f.addr = (IF w.asp = 2 THEN w.asr1 ELSE IF w.asp = 1 THEN w.asr0 ELSE w.addr)
           /\ t.id = "End" => f.addr = w.addr
           /\ t.id \notin {"Call", "Ret"} => SameReturns(f, w)
           /\ t.id = "Call" =>
                 /\ f.asp = (IF w.asp = 2 THEN 2 ELSE w.asp + 1)
                 /\ f.asr0 = (IF w.asp = 0 THEN w.addr + 1 + t.qwc ELSE w.asr0)
                 /\ f.asr1 = (IF w.asp = 1 THEN w.addr + 1 + t.qwc ELSE w.asr1)
           /\ t.id = "Ret" => /\ f.asp = (IF w.asp = 0 THEN 0 ELSE w.asp - 1)
                              /\ f.asr0 = w.asr0 /\ f.asr1 = w.asr1
<1> DEFINE f == Followed(w, t)
<1>0. /\ w.addr + 1 \in Nat /\ w.addr + 1 + t.qwc \in Nat /\ t.addr \in Nat
      /\ w.ended \in BOOLEAN /\ w \in Walks
      BY DEF Walks, IsTag
<1>1. CASE t.id = "Refe"
  <2>1. f = [w EXCEPT !.addr = w.addr + 1, !.ended = TRUE]
        BY <1>1 DEF Followed
  <2> HIDE DEF f
  <2>2. f \in Walks
        BY <1>0, <2>1, BothAssigned
  <2>3. /\ SameRest(f, w) /\ SameReturns(f, w)
        /\ f.addr = w.addr + 1 /\ f.ended = TRUE
        BY <2>1 DEF Walks, SameRest, SameReturns
  <2>4. f.ended = (w.ended \/ t.id \in {"Refe", "End"} \/ (t.id = "Ret" /\ w.asp = 0))
        BY ONLY <1>1, <2>3, Zenon
  <2> QED BY <1>0, <1>1, <2>2, <2>3, <2>4 DEF f
<1>2. CASE t.id = "Ref"
  <2>1. f = [w EXCEPT !.addr = w.addr + 1]
        BY <1>2 DEF Followed
  <2> HIDE DEF f
  <2>2. /\ f \in Walks /\ SameRest(f, w) /\ SameReturns(f, w)
        /\ f.addr = w.addr + 1 /\ f.ended = w.ended
        BY <1>0, <2>1, AddrAssigned
  <2> QED BY <1>0, <1>2, <2>2 DEF f
<1>3. CASE t.id = "Cnt"
  <2>1. f = [w EXCEPT !.addr = w.addr + 1 + t.qwc]
        BY <1>3 DEF Followed
  <2> HIDE DEF f
  <2>2. /\ f \in Walks /\ SameRest(f, w) /\ SameReturns(f, w)
        /\ f.addr = w.addr + 1 + t.qwc /\ f.ended = w.ended
        BY <1>0, <2>1, AddrAssigned
  <2> QED BY <1>0, <1>3, <2>2 DEF f
<1>4. CASE t.id = "Next"
  <2>1. f = [w EXCEPT !.addr = t.addr]
        BY <1>4 DEF Followed
  <2> HIDE DEF f
  <2>2. /\ f \in Walks /\ SameRest(f, w) /\ SameReturns(f, w)
        /\ f.addr = t.addr /\ f.ended = w.ended
        BY <1>0, <2>1, AddrAssigned
  <2> QED BY <1>0, <1>4, <2>2 DEF f
<1>5. CASE t.id = "Call"
  <2> DEFINE r == w.addr + 1 + t.qwc
             g == Called(w, r)
  <2>0. g = Called(w, r) /\ r \in Nat
        BY <1>0
  <2>1. f = [g EXCEPT !.addr = t.addr]
        BY <1>5 DEF Followed
  <2> HIDE DEF r, g, f
  <2>2. /\ g \in Walks /\ SameRest(g, w) /\ g.ended = w.ended
        /\ g.asp = (IF w.asp = 2 THEN 2 ELSE w.asp + 1)
        /\ g.asr0 = (IF w.asp = 0 THEN r ELSE w.asr0)
        /\ g.asr1 = (IF w.asp = 1 THEN r ELSE w.asr1)
        BY <2>0, CallAssigned
  <2>3. /\ f \in Walks /\ SameRest(f, g) /\ SameReturns(f, g)
        /\ f.addr = t.addr /\ f.ended = g.ended
        BY <1>0, <2>1, <2>2, AddrAssigned
  <2> QED BY <1>0, <1>5, <2>2, <2>3 DEF SameRest, SameReturns, f, r
<1>6. CASE t.id = "Ret"
  <2>1. f = Returned(w)
        BY <1>6 DEF Followed
  <2> HIDE DEF f
  <2>2. /\ f \in Walks /\ SameRest(f, w) /\ f.asr0 = w.asr0 /\ f.asr1 = w.asr1
        /\ f.addr = (IF w.asp = 2 THEN w.asr1 ELSE IF w.asp = 1 THEN w.asr0 ELSE w.addr)
        /\ f.asp = (IF w.asp = 0 THEN 0 ELSE w.asp - 1)
        /\ f.ended = (w.ended \/ w.asp = 0)
        BY <2>1, ReturnAssigned
  <2> QED BY <1>0, <1>6, <2>2 DEF f
<1>7. CASE t.id = "End"
  <2>1. f = [w EXCEPT !.ended = TRUE]
        BY <1>7 DEF Followed
  <2> HIDE DEF f
  <2>2. /\ f \in Walks /\ SameRest(f, w) /\ SameReturns(f, w)
        /\ f.addr = w.addr /\ f.ended = TRUE
        BY <2>1, EndAssigned
  <2> QED BY <1>0, <1>7, <2>2 DEF f
<1> QED BY <1>1, <1>2, <1>3, <1>4, <1>5, <1>6, <1>7 DEF IsTag, Ids

LEMMA CarriedTyped ==
    ASSUME Types, NEW w \in Walks, w.addr \in DOMAIN mem
    PROVE  Carried(w, mem[w.addr]) \in Seq(Items)
<1> DEFINE t == mem[w.addr]
           u == IF w.on = "VIF1" /\ Local(t) THEN <<<<"upper", w.addr>>>> ELSE <<>>
           d == Data(IF Local(t) THEN w.addr + 1 ELSE t.addr, t.qwc)
<1>1. /\ w.addr + 1 \in Nat /\ t.addr \in Nat /\ t.qwc \in Nat /\ Size > 0
      BY MemoryFacts DEF Walks
<1>2. d \in Seq(Items)
  <2>1. CASE Local(t)
        BY <1>1, <2>1, DataFacts
  <2>2. CASE ~Local(t)
        BY <1>1, <2>2, DataFacts
  <2> QED BY <2>1, <2>2
<1>3. u \in Seq(Items)
  <2>1. <<"upper", w.addr>> \in Items
        BY DEF Walks, Items
  <2>2. <<<<"upper", w.addr>>>> \in Seq(Items) /\ <<>> \in Seq(Items)
        BY <2>1
  <2> QED BY <2>2
<1> HIDE DEF u, d
<1>4. u \o d \in Seq(Items)
      BY <1>2, <1>3
<1> QED BY <1>4 DEF Carried, u, d

LEMMA TurnedFacts ==
    ASSUME Types, NEW w \in Walks, w.count < MaxTags, w.addr \in DOMAIN mem
    PROVE  LET t == mem[w.addr]
               v == Turned(w)
               f == Followed(w, t)
           IN  /\ IsTag(t) /\ v \in Walks /\ v.on = w.on /\ v.tie = w.tie
               /\ v.addr = f.addr /\ v.asp = f.asp /\ v.asr0 = f.asr0 /\ v.asr1 = f.asr1
               /\ v.ended = f.ended /\ v.count = w.count + 1
               /\ v.tag = [id |-> t.id, irq |-> t.irq]
               /\ v.buf = w.buf \o Carried(w, t)
               /\ v.stop = (f.ended \/ (t.irq /\ w.tie) \/ w.count + 1 = MaxTags)
<1> DEFINE t == mem[w.addr]
           f == Followed(w, t)
           b == w.buf \o Carried(w, t)
<1>1. IsTag(t)
      BY MemoryFacts DEF IsTag
<1>2. f \in Walks /\ SameRest(f, w)
      BY <1>1, FollowedFacts
<1>3. b \in Seq(Items)
      BY CarriedTyped, Joined DEF Walks
<1>4. MaxTags \in Nat /\ w.count \in Nat /\ w.count + 1 \in 0 .. MaxTags
      BY ChainAssumption DEF Walks
<1>5. /\ f.on = w.on /\ f.tie = w.tie /\ f.buf = w.buf /\ f.count = w.count
      BY <1>2 DEF SameRest
<1>6. Turned(w) = [f EXCEPT !.tag = [id |-> t.id, irq |-> t.irq], !.buf = @ \o Carried(w, t),
                            !.count = @ + 1,
                            !.stop = f.ended \/ (t.irq /\ w.tie) \/ w.count + 1 = MaxTags]
      BY DEF Turned
<1>7. Turned(w) = [f EXCEPT !.tag = [id |-> t.id, irq |-> t.irq], !.buf = b,
                            !.count = w.count + 1,
                            !.stop = f.ended \/ (t.irq /\ w.tie) \/ w.count + 1 = MaxTags]
      BY <1>2, <1>5, <1>6 DEF Walks
<1>8. [id |-> t.id, irq |-> t.irq] \in Tags
      BY <1>1 DEF IsTag, Tags
<1>9. (f.ended \/ (t.irq /\ w.tie) \/ w.count + 1 = MaxTags) \in BOOLEAN
      OBVIOUS
<1> HIDE DEF b, f
<1>10. Turned(w) \in Walks
      BY <1>2, <1>3, <1>4, <1>7, <1>8, <1>9 DEF Walks
<1>11. /\ Turned(w).on = f.on /\ Turned(w).tie = f.tie
       /\ Turned(w).addr = f.addr /\ Turned(w).asp = f.asp
       /\ Turned(w).asr0 = f.asr0 /\ Turned(w).asr1 = f.asr1 /\ Turned(w).ended = f.ended
       /\ Turned(w).count = w.count + 1 /\ Turned(w).tag = [id |-> t.id, irq |-> t.irq]
       /\ Turned(w).buf = b
       /\ Turned(w).stop = (f.ended \/ (t.irq /\ w.tie) \/ w.count + 1 = MaxTags)
      BY <1>2, <1>7 DEF Walks
<1> QED BY <1>1, <1>5, <1>10, <1>11 DEF b, f

(***************************************************************************)
(* The account of completions: every one is queued or has come to an end.  *)
(***************************************************************************)
Ledgers == [moved : [Channels -> Nat], raised : [Channels -> Nat],
            dropped : [Channels -> Nat], made_up : [Channels -> Nat]]

One(c, d) == IF c = d THEN 1 ELSE 0

Account(l, q) ==
    \A c \in Channels : l.moved[c] + l.made_up[c] = l.raised[c] + l.dropped[c] + Times(c, q)

LEMMA MovedFacts ==
    ASSUME NEW l \in Ledgers, NEW q \in Seq(Channels), NEW c \in Channels, Account(l, q)
    PROVE  /\ [l EXCEPT !.moved[c] = @ + 1] \in Ledgers
           /\ Account([l EXCEPT !.moved[c] = @ + 1], Append(q, c))
<1> DEFINE m == [l.moved EXCEPT ![c] = l.moved[c] + 1]
           n == [l EXCEPT !.moved[c] = @ + 1]
<1>0. n = [l EXCEPT !.moved = m]
      BY DEF Ledgers
<1>1. /\ l.moved \in [Channels -> Nat] /\ l.raised \in [Channels -> Nat]
      /\ l.dropped \in [Channels -> Nat] /\ l.made_up \in [Channels -> Nat]
      BY DEF Ledgers
<1>2. m \in [Channels -> Nat] /\ \A d \in Channels : m[d] = l.moved[d] + One(c, d)
      BY <1>1 DEF One
<1> HIDE DEF m, n
<1>3. /\ n \in Ledgers /\ n.moved = m /\ n.raised = l.raised
      /\ n.dropped = l.dropped /\ n.made_up = l.made_up
      BY <1>0, <1>2 DEF Ledgers
<1>4. ASSUME NEW d \in Channels
      PROVE  n.moved[d] + n.made_up[d] = n.raised[d] + n.dropped[d] + Times(d, Append(q, c))
  <2> DEFINE t == Times(d, Append(q, c))
             u == Times(d, q)
             o == One(c, d)
             v1 == l.moved[d]
             v2 == l.made_up[d]
             v3 == l.raised[d]
             v4 == l.dropped[d]
  <2>1. t = u + o /\ u \in Nat /\ o \in Nat
        BY TimesFacts DEF One
  <2>2. v1 + v2 = v3 + v4 + u
        BY DEF Account
  <2>3. v1 \in Nat /\ v2 \in Nat /\ v3 \in Nat /\ v4 \in Nat
        BY <1>1
  <2>4. n.moved[d] = v1 + o /\ n.made_up[d] = v2 /\ n.raised[d] = v3 /\ n.dropped[d] = v4
        BY <1>2, <1>3
  <2> HIDE DEF t, u, o, v1, v2, v3, v4
  <2>5. v1 + o + v2 = v3 + v4 + t
        BY <2>1, <2>2, <2>3
  <2> QED BY <2>4, <2>5, Zenon DEF t
<1>5. n \in Ledgers /\ Account(n, Append(q, c))
      BY <1>3, <1>4 DEF Account
<1> QED BY <1>5 DEF n

\* What drainCompletedDmacHandlers does, with or without a cause made up.
LEMMA DispatchedFacts ==
    ASSUME ledger \in Ledgers, NEW q \in Seq(Channels), Account(ledger, q)
    PROVE  Dispatched(q) \in Ledgers /\ Account(Dispatched(q), <<>>)
<1> DEFINE r == [c \in Channels |-> ledger.raised[c] + IF c \in enabled THEN Times(c, q) ELSE 0]
           d == [c \in Channels |-> ledger.dropped[c] + IF c \in enabled THEN 0 ELSE Times(c, q)]
           n == Dispatched(q)
<1>0. n = [ledger EXCEPT !.raised = r, !.dropped = d]
      BY DEF Dispatched, Ledgers
<1>1. /\ ledger.moved \in [Channels -> Nat] /\ ledger.raised \in [Channels -> Nat]
      /\ ledger.dropped \in [Channels -> Nat] /\ ledger.made_up \in [Channels -> Nat]
      BY DEF Ledgers
<1>2. \A c \in Channels : Times(c, q) \in Nat
      BY TimesFacts
<1>3. r \in [Channels -> Nat] /\ d \in [Channels -> Nat]
      BY <1>1, <1>2
<1>4. \A c \in Channels : r[c] + d[c] = ledger.raised[c] + ledger.dropped[c] + Times(c, q)
      BY <1>1, <1>2
<1> HIDE DEF r, d, n
<1>5. /\ n \in Ledgers /\ n.moved = ledger.moved /\ n.raised = r
      /\ n.dropped = d /\ n.made_up = ledger.made_up
      BY <1>0, <1>3 DEF Ledgers
<1>6. ASSUME NEW c \in Channels
      PROVE  n.moved[c] + n.made_up[c] = n.raised[c] + n.dropped[c] + Times(c, <<>>)
  <2>1. Times(c, <<>>) = 0
        BY TimesNone
  <2>2. ledger.moved[c] + ledger.made_up[c]
           = ledger.raised[c] + ledger.dropped[c] + Times(c, q)
        BY DEF Account
  <2>3. /\ r[c] \in Nat /\ d[c] \in Nat
        /\ r[c] + d[c] = ledger.raised[c] + ledger.dropped[c] + Times(c, q)
        BY <1>3, <1>4
  <2> QED BY <1>5, <2>1, <2>2, <2>3
<1> QED BY <1>5, <1>6 DEF Account, n

LEMMA MadeUpFacts ==
    ASSUME ledger \in Ledgers, Account(ledger, <<>>), NEW c \in Channels
    PROVE  LET n == [Dispatched(<<c>>) EXCEPT !.made_up[c] = @ + 1]
           IN  n \in Ledgers /\ Account(n, <<>>)
<1> DEFINE l == Dispatched(<<c>>)
           m == [l.made_up EXCEPT ![c] = l.made_up[c] + 1]
           n == [l EXCEPT !.made_up[c] = @ + 1]
           e == [ledger EXCEPT !.made_up = [@ EXCEPT ![c] = @ + 1]]
<1>1. \A d \in Channels : /\ Times(d, <<>>) = 0 /\ Times(d, <<c>>) = One(c, d)
                           /\ One(c, d) \in Nat
      BY TimesNone DEF One
<1>2. /\ ledger.moved \in [Channels -> Nat] /\ ledger.raised \in [Channels -> Nat]
      /\ ledger.dropped \in [Channels -> Nat] /\ ledger.made_up \in [Channels -> Nat]
      BY DEF Ledgers
<1> QED
  <2> DEFINE r == [d \in Channels |-> ledger.raised[d] + IF d \in enabled THEN Times(d, <<c>>) ELSE 0]
             o == [d \in Channels |-> ledger.dropped[d] + IF d \in enabled THEN 0 ELSE Times(d, <<c>>)]
  <2>1. l = [ledger EXCEPT !.raised = r, !.dropped = o]
        BY DEF Dispatched, Ledgers
  <2>2. ASSUME NEW d \in Channels
        PROVE  /\ r[d] \in Nat /\ o[d] \in Nat
               /\ r[d] + o[d] = ledger.raised[d] + ledger.dropped[d] + One(c, d)
    <3> DEFINE t == Times(d, <<c>>)
               v3 == ledger.raised[d]
               v4 == ledger.dropped[d]
    <3>1. t = One(c, d) /\ One(c, d) \in Nat /\ v3 \in Nat /\ v4 \in Nat
          BY <1>1, <1>2
    <3>2. /\ r[d] = v3 + (IF d \in enabled THEN t ELSE 0)
          /\ o[d] = v4 + (IF d \in enabled THEN 0 ELSE t)
          OBVIOUS
    <3> HIDE DEF t, v3, v4, r, o
    <3>3. t \in Nat
          BY <3>1, Zenon
    <3>4. r[d] \in Nat /\ o[d] \in Nat /\ r[d] + o[d] = v3 + v4 + t
          BY <3>1, <3>2, <3>3
    <3> QED BY <3>1, <3>4, Zenon DEF v3, v4
  <2>3. r \in [Channels -> Nat] /\ o \in [Channels -> Nat]
        BY <2>2
  <2> HIDE DEF r, o, l
  <2>4. /\ l \in Ledgers /\ l.moved = ledger.moved /\ l.raised = r
        /\ l.dropped = o /\ l.made_up = ledger.made_up
        BY <2>1, <2>3 DEF Ledgers
  <2>5. n = [l EXCEPT !.made_up = m]
        BY <2>4 DEF Ledgers
  <2>6. /\ m \in [Channels -> Nat]
        /\ \A d \in Channels : m[d] = ledger.made_up[d] + One(c, d)
        BY <1>2, <2>4 DEF One
  <2> HIDE DEF m, n
  <2>7. /\ n \in Ledgers /\ n.moved = ledger.moved /\ n.raised = r
        /\ n.dropped = o /\ n.made_up = m
        BY <2>4, <2>5, <2>6 DEF Ledgers
  <2>8. ASSUME NEW d \in Channels
        PROVE  n.moved[d] + n.made_up[d] = n.raised[d] + n.dropped[d] + Times(d, <<>>)
    <3> DEFINE t == Times(d, <<>>)
               i == One(c, d)
               v1 == ledger.moved[d]
               v2 == ledger.made_up[d]
               v3 == ledger.raised[d]
               v4 == ledger.dropped[d]
               x == r[d]
               y == o[d]
    <3>1. /\ t = 0 /\ i \in Nat /\ v1 \in Nat /\ v2 \in Nat /\ v3 \in Nat /\ v4 \in Nat
          /\ x \in Nat /\ y \in Nat
          BY <1>1, <1>2, <2>2
    <3>2. v1 + v2 = v3 + v4 + t
          BY DEF Account
    <3>3. x + y = v3 + v4 + i
          BY <2>2
    <3>4. n.moved[d] = v1 /\ n.made_up[d] = v2 + i /\ n.raised[d] = x /\ n.dropped[d] = y
          BY <2>6, <2>7
    <3> HIDE DEF t, i, v1, v2, v3, v4, x, y
    <3>5. v1 + (v2 + i) = x + y + t
          BY <3>1, <3>2, <3>3
    <3> QED BY <3>4, <3>5, Zenon DEF t
  <2>9. n \in Ledgers /\ Account(n, <<>>)
        BY <2>7, <2>8 DEF Account
  <2> QED BY <2>9 DEF n, l

(***************************************************************************)
(* The end of a transfer.                                                  *)
(***************************************************************************)
Stats == [status : SUBSET Channels, mask : SUBSET Channels, sum : BOOLEAN]

LEMMA RaisedTyped ==
    ASSUME NEW s \in Stats, NEW c \in Channels
    PROVE  Raised(s, c) \in Stats
<1>1. (s.status \cup {c}) \in SUBSET Channels /\ s.mask \in SUBSET Channels
      BY DEF Stats
<1>2. ((s.status \cup {c}) \cap s.mask # {}) \in BOOLEAN
      OBVIOUS
<1> QED BY <1>1, <1>2 DEF Raised, Stats

LEMMA WrittenTyped ==
    ASSUME Types, NEW w \in StatWrites
    PROVE  WrittenStat(w[1], w[2]) \in Stats
<1> DEFINE s == stat.status \ w[1]
           m == (stat.mask \ w[2]) \cup (w[2] \ stat.mask)
<1>1. w[1] \in SUBSET Channels /\ w[2] \in SUBSET Channels /\ stat \in Stats
      BY UseAssumption DEF Types, Stats
<1>2. s \in SUBSET Channels /\ m \in SUBSET Channels /\ (s \cap m # {}) \in BOOLEAN
      BY <1>1 DEF Stats
<1>3. WrittenStat(w[1], w[2]) = [status |-> s, mask |-> m, sum |-> s \cap m # {}]
      BY DEF WrittenStat
<1> HIDE DEF s, m
<1> QED BY <1>2, <1>3 DEF Stats

LEMMA ClosedTyped ==
    ASSUME Types, NEW c \in Channels, NEW regs \in Registers
    PROVE  [ch EXCEPT ![c] = [regs EXCEPT !.str = FALSE, !.qwc = 0]] \in [Channels -> Registers]
<1>1. 0 \in Nat
      OBVIOUS
<1>2. [regs EXCEPT !.str = FALSE, !.qwc = 0] \in Registers
      BY <1>1 DEF Registers
<1> QED BY <1>2 DEF Types

LEMMA CompleteFacts ==
    ASSUME Types, HeldWhileMasked, Account(ledger, causes),
           NEW c \in Channels, NEW buf \in Seq(Items), NEW regs \in Registers,
           Complete(c, buf, regs)
    PROVE  /\ fifo' \in Seq(Items) /\ (~masked => fifo' = <<>>)
           /\ out' \in [Channels -> Seq(Items)]
           /\ stat' \in Stats /\ causes' \in Seq(Channels)
           /\ ch' \in [Channels -> Registers]
           /\ ledger' \in Ledgers /\ Account(ledger', causes')
           /\ out'[c] \o (IF c = "GIF" THEN fifo' ELSE <<>>)
                 = (out[c] \o (IF c = "GIF" THEN fifo ELSE <<>>)) \o buf
           /\ \A d \in Channels \ {c} : out'[d] = out[d]
           /\ c # "GIF" => fifo' = fifo
           /\ ch' = [ch EXCEPT ![c] = [regs EXCEPT !.str = FALSE, !.qwc = 0]]
<1>0. /\ fifo \in Seq(Items) /\ out \in [Channels -> Seq(Items)] /\ out[c] \in Seq(Items)
      /\ causes \in Seq(Channels) /\ ledger \in Ledgers /\ stat \in Stats
      BY DEF Types, Ledgers, Stats
<1>1. stat' \in Stats
      BY <1>0, RaisedTyped DEF Complete
<1>2. ch' = [ch EXCEPT ![c] = [regs EXCEPT !.str = FALSE, !.qwc = 0]]
      BY DEF Complete
<1>3. ch' \in [Channels -> Registers]
      BY <1>2, ClosedTyped
<1>4. causes' = Append(causes, c) /\ ledger' = [ledger EXCEPT !.moved[c] = @ + 1]
      BY DEF Complete, Queued
<1>5. causes' \in Seq(Channels)
      BY <1>0, <1>4
<1>6. ledger' \in Ledgers /\ Account(ledger', causes')
      BY <1>0, <1>4, MovedFacts
<1>7. CASE c = "GIF" /\ masked
  <2>1. fifo' = fifo \o buf /\ out' = out
        BY <1>7 DEF Complete
  <2>2. fifo' \in Seq(Items) /\ out[c] \o (fifo \o buf) = (out[c] \o fifo) \o buf
        BY <1>0, <2>1, Joined, Associative
  <2> QED BY <1>0, <1>1, <1>2, <1>3, <1>5, <1>6, <1>7, <2>1, <2>2
<1>8. CASE ~(c = "GIF" /\ masked)
  <2> DEFINE h == IF c = "GIF" THEN fifo ELSE <<>>
  <2>1. out' = [out EXCEPT ![c] = (out[c] \o h) \o buf]
        BY <1>8 DEF Complete
  <2>2. fifo' = IF c = "GIF" THEN <<>> ELSE fifo
        BY <1>8 DEF Complete
  <2>3. h \in Seq(Items) /\ <<>> \in Seq(Items)
        BY <1>0, Empties
  <2> HIDE DEF h
  <2>4. (out[c] \o h) \o buf \in Seq(Items)
        BY <1>0, <2>3, Joined
  <2>5. out' \in [Channels -> Seq(Items)] /\ out'[c] = (out[c] \o h) \o buf
        /\ \A d \in Channels \ {c} : out'[d] = out[d]
        BY <1>0, <2>1, <2>4
  <2>6. fifo' \in Seq(Items) /\ (~masked => fifo' = <<>>)
        BY <1>0, <2>2, <2>3 DEF HeldWhileMasked
  <2>7. out'[c] \o (IF c = "GIF" THEN fifo' ELSE <<>>) = (out[c] \o h) \o buf
    <3>1. (IF c = "GIF" THEN fifo' ELSE <<>>) = <<>>
          BY <2>2
    <3> QED BY <2>4, <2>5, <3>1, Empties
  <2> QED BY <1>1, <1>2, <1>3, <1>5, <1>6, <2>2, <2>5, <2>6, <2>7 DEF h
<1> QED BY <1>7, <1>8

(***************************************************************************)
(* The registers as they are written, and the start of the loop.           *)
(***************************************************************************)
LEMMA StartsTyped ==
    ASSUME Types, NEW addr \in Starts
    PROVE  addr \in Nat /\ addr \in DOMAIN mem /\ Size > 0
BY MemoryFacts

LEMMA WrittenRegisters ==
    ASSUME Types, NEW c \in Channels, NEW tie \in BOOLEAN, NEW addr \in Nat, NEW n \in Nat
    PROVE  /\ Written(c, tie, 0, addr, n) \in Registers
           /\ LET r == Written(c, tie, 0, addr, n)
              IN  /\ r.tie = tie /\ r.asp = 0 /\ r.tadr = addr /\ r.qwc = n
                  /\ r.asr0 = ch[c].asr0 /\ r.asr1 = ch[c].asr1 /\ r.tag = ch[c].tag
<1>1. ch[c] \in Registers /\ 0 \in 0 .. 2
      BY DEF Types
<1>2. ASSUME NEW z \in 0 .. 2
      PROVE  [ch[c] EXCEPT !.str = TRUE, !.tie = tie, !.asp = z, !.tadr = addr, !.qwc = n]
                \in Registers
      BY <1>1 DEF Registers
<1>3. Written(c, tie, 0, addr, n) \in Registers
      BY <1>1, <1>2 DEF Written
<1> QED BY <1>1, <1>3 DEF Written, Registers

LEMMA NoWalkTyped ==
    NoWalk \in Walks /\ NoWalk.on = "none"
<1>1. /\ 0 \in Nat /\ 0 \in 0 .. 2 /\ 0 \in 0 .. MaxTags /\ "none" \in Channels \cup {"none"}
      /\ <<>> \in Seq(Items) /\ NoTag \in Tags
      BY ChainAssumption DEF NoTag, Tags, Ids
<1> QED BY <1>1 DEF NoWalk, Walks

LEMMA WalkFacts ==
    ASSUME NEW c \in Channels, NEW regs \in Registers
    PROVE  /\ Walk(c, regs) \in Walks
           /\ LET w == Walk(c, regs)
              IN  /\ w.on = c /\ w.addr = regs.tadr /\ w.asp = regs.asp /\ w.asr0 = regs.asr0
                  /\ w.asr1 = regs.asr1 /\ w.tag = regs.tag /\ w.tie = regs.tie
                  /\ w.buf = <<>> /\ w.count = 0 /\ w.stop = FALSE /\ w.ended = FALSE
<1> DEFINE w == Walk(c, regs)
<1>1. w = [NoWalk EXCEPT !.on = c, !.addr = regs.tadr, !.asp = regs.asp, !.asr0 = regs.asr0,
                         !.asr1 = regs.asr1, !.tag = regs.tag, !.tie = regs.tie]
      BY DEF Walk
<1>2. /\ c \in Channels \cup {"none"} /\ NoWalk \in Walks
      /\ regs.tadr \in Nat /\ regs.asp \in 0 .. 2 /\ regs.asr0 \in Nat /\ regs.asr1 \in Nat
      /\ regs.tag \in Tags /\ regs.tie \in BOOLEAN
      BY NoWalkTyped DEF Registers, Tags
<1>3. NoWalk.buf = <<>> /\ NoWalk.count = 0 /\ NoWalk.stop = FALSE /\ NoWalk.ended = FALSE
      BY DEF NoWalk
<1> HIDE DEF w
<1>4. w \in Walks
      BY <1>1, <1>2 DEF Walks
<1>5. /\ w.on = c /\ w.addr = regs.tadr /\ w.asp = regs.asp /\ w.asr0 = regs.asr0
      /\ w.asr1 = regs.asr1 /\ w.tag = regs.tag /\ w.tie = regs.tie
      /\ w.buf = NoWalk.buf /\ w.count = NoWalk.count /\ w.stop = NoWalk.stop
      /\ w.ended = NoWalk.ended
      BY <1>1, <1>2 DEF Walks
<1> QED BY <1>3, <1>4, <1>5 DEF w

LEMMA BusyAssigned ==
    ASSUME Types, NEW c \in Channels, NEW regs \in Registers
    PROVE  [ch EXCEPT ![c] = regs] \in [Channels -> Registers]
BY DEF Types

(***************************************************************************)
(* Every action keeps the invariant.                                       *)
(***************************************************************************)
\* Types split by the account of completions and the rest.
LEMMA AccountKept ==
    ASSUME IInv
    PROVE  Account(ledger, causes) /\ ledger \in Ledgers
BY DEF IInv, InterruptsExact, Account, Types, Ledgers

LEMMA NormalKeeps ==
    ASSUME IInv, NEW addr \in Starts, NEW b \in Blocks, Normal(b.c, addr, b.n, b.how)
    PROVE  IInv'
<1> DEFINE c == b.c
           regs == IF b.how = "send" THEN Written(c, TRUE, 0, addr, b.n)
                   ELSE [ch[c] EXCEPT !.str = TRUE, !.qwc = b.n]
<1>0. /\ Types /\ Walking /\ HeldWhileMasked /\ Account(ledger, causes) /\ ledger \in Ledgers
      BY AccountKept DEF IInv
<1>1. /\ c \in Channels /\ b.n \in Nat /\ b.how \in {"store32", "store64", "send"}
      /\ addr \in Nat /\ Size > 0
      BY <1>0, UseAssumption, StartsTyped
<1>2. regs \in Registers
  <2>1. Written(c, TRUE, 0, addr, b.n) \in Registers
        BY <1>0, <1>1, WrittenRegisters
  <2>2. [ch[c] EXCEPT !.str = TRUE, !.qwc = b.n] \in Registers
    <3>1. ch[c] \in Registers
          BY <1>0, <1>1 DEF Types
    <3>2. \A r \in Registers, n \in Nat : [r EXCEPT !.str = TRUE, !.qwc = n] \in Registers
          BY DEF Registers
    <3> QED BY <1>1, <3>1, <3>2
  <2> QED BY <2>1, <2>2
<1>3. /\ phase = "guest" /\ phase' = "drain" /\ by' = <<c, b.how>> /\ walk' = walk
      /\ mem' = mem /\ dmae' = dmae /\ masked' = masked /\ enabled' = enabled
      /\ over' = IF b.how = "send" THEN [over EXCEPT ![c] = FALSE] ELSE over
      BY DEF Normal, Ignored, CanStart
<1>4. over' \in [Channels -> BOOLEAN] /\ walk' = NoWalk
      BY <1>0, <1>1, <1>3 DEF Types, Walking
<1>5. by' \in Channels \X {"store32", "store64", "send", "kick"}
      BY <1>1, <1>3
<1>6. /\ ch' \in [Channels -> Registers] /\ stat' \in Stats /\ fifo' \in Seq(Items)
      /\ out' \in [Channels -> Seq(Items)] /\ causes' \in Seq(Channels)
      /\ ledger' \in Ledgers /\ Account(ledger', causes') /\ (~masked => fifo' = <<>>)
  <2>1. CASE Complete(c, Data(addr, b.n), regs)
    <3>1. Data(addr, b.n) \in Seq(Items)
          BY <1>0, <1>1, DataFacts
    <3> QED BY <1>0, <1>1, <1>2, <2>1, <3>1, CompleteFacts
  <2>2. CASE /\ ch' = [ch EXCEPT ![c] = regs]
             /\ UNCHANGED <<out, fifo, stat, causes, ledger>>
    <3>1. ch' \in [Channels -> Registers]
          BY <1>0, <1>1, <1>2, <2>2, BusyAssigned
    <3> QED BY <1>0, <2>2, <3>1 DEF Types, Stats, HeldWhileMasked
  <2> QED BY <2>1, <2>2 DEF Normal, Ignored
<1> HIDE DEF c, regs
<1>7. Types'
      BY <1>0, <1>3, <1>4, <1>5, <1>6 DEF Types, Stats, Ledgers
<1>8. Walking' /\ HeldWhileMasked'
      BY <1>3, <1>4, <1>6 DEF Walking, HeldWhileMasked
<1>9. InterruptsExact'
      BY <1>3, <1>6 DEF InterruptsExact, Account
<1> QED BY <1>7, <1>8, <1>9 DEF IInv

LEMMA NewChainKeeps ==
    ASSUME IInv, NEW c \in Channels, NEW tie \in BOOLEAN, NEW addr \in Starts,
           NEW how \in {"store32", "store64", "send", "kick"},
           NewChain(c, tie, addr, how), stat' \in Stats
    PROVE  IInv'
<1> DEFINE regs == Written(c, tie, 0, addr, ch[c].qwc)
<1>0. /\ Types /\ Walking /\ HeldWhileMasked /\ Account(ledger, causes) /\ ledger \in Ledgers
      BY AccountKept DEF IInv
<1>1. addr \in Nat /\ ch[c].qwc \in Nat
      BY <1>0, StartsTyped DEF Types, Registers
<1>2. regs \in Registers
      BY <1>0, <1>1, WrittenRegisters
<1>3. /\ phase = "guest" /\ by' = <<c, how>> /\ ch' = [ch EXCEPT ![c] = regs]
      /\ UNCHANGED <<out, fifo, causes, ledger>>
      /\ mem' = mem /\ dmae' = dmae /\ masked' = masked /\ enabled' = enabled
      /\ over' = [over EXCEPT ![c] = FALSE]
      BY DEF NewChain, Ignored, CanStart
<1>4. \/ phase' = "drain" /\ walk' = walk
      \/ phase' = "walk" /\ walk' = Walk(c, regs)
      BY DEF NewChain, Ignored
<1>5. /\ ch' \in [Channels -> Registers] /\ over' \in [Channels -> BOOLEAN] /\ over'[c] = FALSE
      /\ by' \in Channels \X {"store32", "store64", "send", "kick"}
      BY <1>0, <1>2, <1>3, BusyAssigned DEF Types
<1>6. /\ walk' \in Walks
      /\ phase' = "drain" => walk' = NoWalk
      /\ phase' = "walk" => /\ walk'.on = c /\ walk'.ended = FALSE /\ walk'.count = 0
  <2>1. CASE phase' = "drain" /\ walk' = walk
        BY <1>0, <1>3, <2>1, NoWalkTyped DEF Walking
  <2>2. CASE phase' = "walk" /\ walk' = Walk(c, regs)
        BY <1>2, <2>2, WalkFacts
  <2> QED BY <1>4, <2>1, <2>2
<1>7. phase' \in {"drain", "walk"}
      BY <1>4
<1> HIDE DEF regs
<1>8. Types'
      BY <1>0, <1>3, <1>5, <1>6, <1>7 DEF Types, Stats
<1>9. Walking'
  <2>1. CASE phase' = "drain"
        BY <1>6, <2>1 DEF Walking
  <2>2. CASE phase' = "walk"
    <3>1. walk'.on = c /\ walk'.ended = FALSE /\ walk'.count = 0 /\ 0 < MaxTags
          BY <1>6, <2>2, ChainAssumption
    <3>2. walk'.on \in Channels /\ over'[walk'.on] = walk'.ended
          BY <1>5, <3>1
    <3>3. dmae'
          BY <2>2 DEF NewChain, Ignored
    <3> QED BY <2>2, <3>1, <3>2, <3>3 DEF Walking
  <2> QED BY <1>7, <2>1, <2>2
<1>10. HeldWhileMasked' /\ InterruptsExact'
      BY <1>0, <1>3, <1>7 DEF HeldWhileMasked, InterruptsExact, Account
<1> QED BY <1>8, <1>9, <1>10 DEF IInv

LEMMA ResumeKeeps ==
    ASSUME IInv, NEW c \in Channels, Resume(c)
    PROVE  IInv'
<1> DEFINE regs == [ch[c] EXCEPT !.str = TRUE]
<1>0. /\ Types /\ HeldWhileMasked /\ Account(ledger, causes) /\ ledger \in Ledgers
      BY AccountKept DEF IInv
<1>1. regs \in Registers
  <2>1. ch[c] \in Registers
        BY <1>0 DEF Types
  <2> QED BY <2>1 DEF Registers
<1>2. /\ ch' = [ch EXCEPT ![c] = regs] /\ walk' = Walk(c, regs) /\ phase' = "walk"
      /\ by' = <<c, "store32">> /\ ~over[c]
      /\ UNCHANGED <<mem, dmae, stat, masked, fifo, out, causes, enabled, ledger, over>>
      BY DEF Resume
<1>3. /\ walk' \in Walks /\ walk'.on = c /\ walk'.ended = FALSE /\ walk'.count = 0
      /\ ch' \in [Channels -> Registers]
      BY <1>0, <1>1, <1>2, WalkFacts, BusyAssigned
<1>4. over' = over /\ over[c] = FALSE /\ 0 < MaxTags
      /\ by' \in Channels \X {"store32", "store64", "send", "kick"}
      BY <1>0, <1>2, ChainAssumption DEF Types
<1> HIDE DEF regs
<1>5. Types'
      BY <1>0, <1>2, <1>3, <1>4 DEF Types
<1>6. Walking'
  <2>1. walk'.on \in Channels /\ over'[walk'.on] = walk'.ended
        BY <1>3, <1>4
  <2>2. dmae'
        BY DEF Resume
  <2> QED BY <1>2, <1>3, <1>4, <2>1, <2>2 DEF Walking
<1>7. HeldWhileMasked' /\ InterruptsExact'
      BY <1>0, <1>2 DEF HeldWhileMasked, InterruptsExact, Account
<1> QED BY <1>5, <1>6, <1>7 DEF IInv

\* A tag outside of memory ends the loop without being followed.
LEMMA OutsideFacts ==
    ASSUME NEW w \in Walks, w.addr \notin DOMAIN mem
    PROVE  LET v == Turned(w) IN
           /\ v \in Walks /\ v.on = w.on /\ v.addr = w.addr /\ v.asp = w.asp /\ v.asr0 = w.asr0
           /\ v.asr1 = w.asr1 /\ v.tag = w.tag /\ v.buf = w.buf /\ v.count = w.count
           /\ v.ended = w.ended /\ v.stop = TRUE
<1> DEFINE v == Turned(w)
<1>1. v = [w EXCEPT !.stop = TRUE]
      BY DEF Turned
<1> HIDE DEF v
<1>2. v \in Walks
      BY <1>1 DEF Walks
<1> QED BY <1>1, <1>2 DEF Walks, v

LEMMA TurnKeeps ==
    ASSUME IInv, Turn
    PROVE  IInv'
<1>0. /\ Types /\ Walking /\ HeldWhileMasked /\ Account(ledger, causes) /\ ledger \in Ledgers
      BY AccountKept DEF IInv
<1>1. /\ phase = "walk" /\ phase' = "walk" /\ ~walk.stop /\ walk' = Turned(walk)
      /\ over' = [over EXCEPT ![walk.on] = Turned(walk).ended]
      /\ UNCHANGED <<mem, ch, by, dmae, stat, masked, fifo, out, causes, enabled, ledger>>
      BY DEF Turn
<1>2. /\ walk \in Walks /\ walk.on \in Channels /\ over[walk.on] = walk.ended
      /\ walk.ended = FALSE /\ walk.count < MaxTags /\ walk.count \in Nat /\ MaxTags \in Nat
      BY <1>0, <1>1, ChainAssumption DEF Types, Walking, Walks
<1>3. /\ walk' \in Walks /\ walk'.on = walk.on /\ (walk'.ended => walk'.stop)
      /\ ~walk'.stop => walk'.count < MaxTags
  <2>1. CASE walk.addr \in DOMAIN mem
    <3>1. /\ walk' \in Walks /\ walk'.on = walk.on /\ walk'.count = walk.count + 1
          /\ walk'.ended = Followed(walk, mem[walk.addr]).ended
          /\ walk'.stop = (\/ Followed(walk, mem[walk.addr]).ended
                           \/ mem[walk.addr].irq /\ walk.tie
                           \/ walk.count + 1 = MaxTags)
          BY <1>0, <1>1, <1>2, <2>1, TurnedFacts
    <3>2. walk'.ended => walk'.stop
          BY <3>1
    <3>3. walk.count + 1 # MaxTags => walk'.count < MaxTags
          BY <1>2, <3>1
    <3>4. ~walk'.stop => walk.count + 1 # MaxTags
          BY <3>1, Zenon
    <3> QED BY <3>1, <3>2, <3>3, <3>4
  <2>2. CASE walk.addr \notin DOMAIN mem
        BY <1>1, <1>2, <2>2, OutsideFacts
  <2> QED BY <2>1, <2>2
<1>4. /\ over' \in [Channels -> BOOLEAN] /\ over'[walk'.on] = walk'.ended
      BY <1>0, <1>1, <1>2, <1>3 DEF Types, Walks
<1>5. Types'
      BY <1>0, <1>1, <1>3, <1>4 DEF Types
<1>6. Walking'
  <2>1. dmae'
        BY <1>0, <1>1 DEF Walking
  <2> QED BY <1>1, <1>2, <1>3, <1>4, <2>1 DEF Walking
<1>7. HeldWhileMasked' /\ InterruptsExact'
      BY <1>0, <1>1 DEF HeldWhileMasked, InterruptsExact, Account
<1> QED BY <1>5, <1>6, <1>7 DEF IInv

LEMMA LatchedFacts ==
    ASSUME Types, NEW c \in Channels
    PROVE  /\ Latched(c) \in Registers
           /\ Latched(c).tadr = walk.addr /\ Latched(c).asp = walk.asp
           /\ Latched(c).asr0 = walk.asr0 /\ Latched(c).asr1 = walk.asr1
<1>1. ch[c] \in Registers /\ walk \in Walks
      BY DEF Types
<1>2. /\ walk.addr \in Nat /\ walk.asr0 \in Nat /\ walk.asr1 \in Nat /\ walk.asp \in 0 .. 2
      /\ walk.tag \in [id : Ids, irq : BOOLEAN]
      BY <1>1 DEF Walks, Tags
<1>3. Latched(c) \in Registers
      BY <1>1, <1>2 DEF Latched, Registers
<1> QED BY <1>1, <1>3 DEF Latched, Registers

LEMMA StopKeeps ==
    ASSUME IInv, Stop
    PROVE  IInv'
<1> DEFINE c == walk.on
<1>0. /\ Types /\ Walking /\ HeldWhileMasked /\ Account(ledger, causes) /\ ledger \in Ledgers
      BY AccountKept DEF IInv
<1>1. /\ phase = "walk" /\ phase' = "drain" /\ walk' = NoWalk
      /\ UNCHANGED <<mem, by, dmae, masked, enabled, over>>
      BY DEF Stop
<1>2. c \in Channels /\ Latched(c) \in Registers /\ walk.buf \in Seq(Items)
      BY <1>0, <1>1, LatchedFacts DEF Types, Walking, Walks
<1>3. /\ ch' \in [Channels -> Registers] /\ stat' \in Stats /\ fifo' \in Seq(Items)
      /\ out' \in [Channels -> Seq(Items)] /\ causes' \in Seq(Channels)
      /\ ledger' \in Ledgers /\ Account(ledger', causes') /\ (~masked => fifo' = <<>>)
  <2>1. CASE Complete(c, walk.buf, Latched(c))
        BY <1>0, <1>2, <2>1, CompleteFacts
  <2>2. CASE /\ ch' = [ch EXCEPT ![c] = Latched(c)]
             /\ UNCHANGED <<out, fifo, stat, causes, ledger>>
    <3>1. ch' \in [Channels -> Registers]
          BY <1>0, <1>2, <2>2, BusyAssigned
    <3> QED BY <1>0, <2>2, <3>1 DEF Types, Stats, HeldWhileMasked
  <2> QED BY <2>1, <2>2 DEF Stop
<1>4. Types'
      BY <1>0, <1>1, <1>3, NoWalkTyped DEF Types, Stats, Ledgers
<1>5. Walking' /\ HeldWhileMasked'
      BY <1>1, <1>3 DEF Walking, HeldWhileMasked
<1>6. InterruptsExact'
      BY <1>1, <1>3 DEF InterruptsExact, Account
<1> QED BY <1>4, <1>5, <1>6 DEF IInv

LEMMA DrainKeeps ==
    ASSUME IInv, Drain
    PROVE  IInv'
<1> DEFINE c == by[1]
           made_up == by[2] = "send" /\ causes = <<>>
           l == Dispatched(IF made_up THEN <<c>> ELSE causes)
<1>0. /\ Types /\ Walking /\ HeldWhileMasked /\ Account(ledger, causes) /\ ledger \in Ledgers
      BY AccountKept DEF IInv
<1>1. /\ phase = "drain" /\ phase' = "guest" /\ walk = NoWalk /\ c \in Channels
      /\ UNCHANGED <<mem, walk, by, dmae, stat, masked, fifo, out, enabled, over>>
      BY <1>0 DEF Drain, Types, Walking
<1>2. CASE by[2] = "store64"
  <2>1. UNCHANGED <<ch, causes, ledger>>
        BY <1>2 DEF Drain
  <2>2. Types'
        BY <1>0, <1>1, <2>1 DEF Types
  <2>3. Walking' /\ HeldWhileMasked'
        BY <1>0, <1>1 DEF Walking, HeldWhileMasked
  <2>4. InterruptsExact'
        BY <1>0, <1>1, <1>2, <2>1 DEF InterruptsExact, Account
  <2> QED BY <2>2, <2>3, <2>4 DEF IInv
<1>3. CASE by[2] # "store64"
  <2>1. /\ causes' = <<>>
        /\ ledger' = IF made_up THEN [l EXCEPT !.made_up[c] = @ + 1] ELSE l
        /\ ch' = IF made_up THEN [ch EXCEPT ![c].str = FALSE] ELSE ch
        BY <1>3 DEF Drain
  <2>2. ledger' \in Ledgers /\ Account(ledger', <<>>)
    <3>1. CASE made_up
      <4>1. ledger' = [Dispatched(<<c>>) EXCEPT !.made_up[c] = @ + 1] /\ Account(ledger, <<>>)
            BY <1>0, <2>1, <3>1
      <4> QED BY <1>0, <1>1, <4>1, MadeUpFacts
    <3>2. CASE ~made_up
      <4>1. ledger' = Dispatched(causes) /\ causes \in Seq(Channels)
            BY <1>0, <2>1, <3>2 DEF Types
      <4> QED BY <1>0, <4>1, DispatchedFacts
    <3> QED BY <3>1, <3>2
  <2>3. ch' \in [Channels -> Registers]
    <3>1. ch[c] \in Registers /\ ch \in [Channels -> Registers]
          BY <1>0, <1>1 DEF Types
    <3>2. \A r \in Registers : [r EXCEPT !.str = FALSE] \in Registers
          BY DEF Registers
    <3>3. [ch EXCEPT ![c].str = FALSE] = [ch EXCEPT ![c] = [ch[c] EXCEPT !.str = FALSE]]
          BY <1>1, <3>1
    <3>4. [ch[c] EXCEPT !.str = FALSE] \in Registers
          BY <3>1, <3>2
    <3>5. [ch EXCEPT ![c].str = FALSE] \in [Channels -> Registers]
          BY <1>0, <1>1, <3>3, <3>4, BusyAssigned
    <3> QED BY <2>1, <3>1, <3>5
  <2>4. <<>> \in Seq(Channels)
        OBVIOUS
  <2>5. Types'
        BY <1>0, <1>1, <2>1, <2>2, <2>3, <2>4 DEF Types, Ledgers
  <2>6. Walking' /\ HeldWhileMasked'
        BY <1>0, <1>1 DEF Walking, HeldWhileMasked
  <2>7. InterruptsExact'
        BY <1>1, <2>1, <2>2 DEF InterruptsExact, Account
  <2> QED BY <2>5, <2>6, <2>7 DEF IInv
<1> QED BY <1>2, <1>3

(***************************************************************************)
(* What a short cut hands over.                                            *)
(***************************************************************************)
LEMMA ShortFacts ==
    ASSUME Types, NEW a \in Starts, ImageChain(a) \/ PackedChain(a)
    PROVE  /\ ShortResult(a).addr \in Nat /\ ShortResult(a).tag \in Tags
           /\ ShortResult(a).tag.irq = FALSE /\ ShortResult(a).buf \in Seq(Items)
<1>1. /\ a \in Nat /\ Size > 0 /\ Size \in Nat /\ SetupQwc \in Nat
      /\ \A i \in 0 .. Size - 1 : /\ mem[i].id \in Ids /\ mem[i].qwc \in Nat
                                  /\ mem[i].addr \in Nat
      BY MemoryFacts, StartsTyped, ChainAssumption
<1>2. [id |-> "End", irq |-> FALSE] \in Tags
      BY DEF Tags, Ids
<1>3. CASE PackedChain(a)
  <2> DEFINE t == [id |-> "End", irq |-> FALSE]
             b == Data(a + 1, mem[a].qwc)
  <2>1. ShortResult(a) = [addr |-> a, tag |-> t, buf |-> b]
        BY <1>3 DEF ShortResult
  <2>2. a \in 0 .. Size - 1 /\ a + 1 \in Nat
        BY <1>1, <1>3 DEF PackedChain, There
  <2>3. b \in Seq(Items)
        BY <1>1, <2>2, DataFacts
  <2> HIDE DEF t, b
  <2>4. /\ ShortResult(a).addr = a /\ ShortResult(a).tag = t /\ ShortResult(a).buf = b
        BY <2>1
  <2>5. t \in Tags /\ t.irq = FALSE
        BY <1>2 DEF t
  <2> QED BY <1>1, <2>3, <2>4, <2>5
<1>4. CASE ~PackedChain(a)
  <2> DEFINE d == DataTag(a)
             u == Data(a + 1, SetupQwc) \o Data(ImageTag(a) + 1, 1)
             t == IF mem[d].id = "End" THEN [id |-> "End", irq |-> FALSE]
                  ELSE [id |-> mem[d + 1].id, irq |-> FALSE]
             e == IF mem[d].id = "End" THEN d
                  ELSE IF mem[d + 1].id = "Refe" THEN d + 2 ELSE d + 1
             b == u \o Data(IF mem[d].id = "End" THEN d + 1 ELSE mem[d].addr, mem[d].qwc)
  <2>0. ImageChain(a)
        BY <1>4
  <2>1. ShortResult(a) = [addr |-> e, tag |-> t, buf |-> b]
        BY <1>4 DEF ShortResult
  <2>2. /\ a + 1 \in Nat /\ ImageTag(a) + 1 \in Nat /\ d \in Nat /\ d + 1 \in Nat /\ d + 2 \in Nat
        /\ 1 \in Nat
        BY <1>1 DEF ImageTag, DataTag
  <2>3. d \in 0 .. Size - 1
        BY <1>1, <2>0, <2>2 DEF ImageChain, There
  <2>4. mem[d].id # "End" => mem[d + 1].id \in {"Refe", "End"}
        BY <2>0 DEF ImageChain, TagAt
  <2>5. u \in Seq(Items)
    <3>1. Data(a + 1, SetupQwc) \in Seq(Items) /\ Data(ImageTag(a) + 1, 1) \in Seq(Items)
          BY <1>1, <2>2, DataFacts
    <3> QED BY <3>1, Joined
  <2>6. Data(d + 1, mem[d].qwc) \in Seq(Items) /\ Data(mem[d].addr, mem[d].qwc) \in Seq(Items)
        BY <1>1, <2>2, <2>3, DataFacts
  <2>7. b \in Seq(Items)
    <3>1. Data(IF mem[d].id = "End" THEN d + 1 ELSE mem[d].addr, mem[d].qwc) \in Seq(Items)
          BY <2>6
    <3> HIDE DEF u
    <3> QED BY <2>5, <3>1, Joined
  <2>8. e \in Nat
        BY <2>2
  <2>9. t \in Tags /\ t.irq = FALSE
    <3>1. CASE mem[d].id = "End"
          BY <1>2, <3>1
    <3>2. CASE mem[d].id # "End"
          BY <2>4, <3>2 DEF Tags, Ids
    <3> QED BY <3>1, <3>2
  <2> HIDE DEF d, u, t, e, b
  <2>10. ShortResult(a).addr = e /\ ShortResult(a).tag = t /\ ShortResult(a).buf = b
        BY <2>1
  <2> QED BY <2>7, <2>8, <2>9, <2>10
<1> QED BY <1>3, <1>4

LEMMA KickShortKeeps ==
    ASSUME IInv, NEW addr \in Starts, NEW s \in Stats, KickShort(addr, s)
    PROVE  IInv'
<1> DEFINE r == ShortResult(addr)
           w == Written("GIF", FALSE, 0, addr, 0)
           regs == [w EXCEPT !.tadr = r.addr, !.tag = r.tag, !.asr0 = 0, !.asr1 = 0]
           last == [regs EXCEPT !.str = FALSE]
<1>0. /\ Types /\ Walking /\ HeldWhileMasked /\ Account(ledger, causes) /\ ledger \in Ledgers
      BY AccountKept DEF IInv
<1>1. /\ phase = "guest" /\ ~masked /\ (ImageChain(addr) \/ PackedChain(addr))
      /\ out' = [out EXCEPT !["GIF"] = @ \o r.buf] /\ stat' = Raised(s, "GIF")
      /\ causes' = Append(causes, "GIF") /\ ch' = [ch EXCEPT !["GIF"] = last]
      /\ ledger' = [ledger EXCEPT !.moved["GIF"] = @ + 1]
      /\ over' = [over EXCEPT !["GIF"] = TRUE]
      /\ phase' = "drain" /\ by' = <<"GIF", "kick">>
      /\ UNCHANGED <<mem, walk, dmae, masked, fifo, enabled>>
      BY DEF KickShort, CanStart, ShortCut, Open, Queued
<1>2. /\ "GIF" \in Channels /\ addr \in Nat /\ 0 \in Nat /\ FALSE \in BOOLEAN
      /\ causes \in Seq(Channels) /\ out \in [Channels -> Seq(Items)] /\ out["GIF"] \in Seq(Items)
      BY <1>0, StartsTyped DEF Types, Channels
<1>3. /\ r.addr \in Nat /\ r.tag \in Tags /\ r.buf \in Seq(Items)
      BY <1>0, <1>1, ShortFacts
<1>4. w \in Registers
      BY <1>0, <1>2, WrittenRegisters
<1> HIDE DEF r, w
<1>5. regs \in Registers
      BY <1>2, <1>3, <1>4 DEF Registers, Tags
<1> HIDE DEF regs
<1>6. last \in Registers
      BY <1>5 DEF Registers
<1> HIDE DEF last
<1>7. ch' \in [Channels -> Registers]
      BY <1>0, <1>1, <1>2, <1>6, BusyAssigned
<1>8. out["GIF"] \o r.buf \in Seq(Items)
      BY <1>2, <1>3, Joined
<1>9. out' \in [Channels -> Seq(Items)]
      BY <1>1, <1>2, <1>8
<1>10. stat' \in Stats
      BY <1>1, <1>2, RaisedTyped
<1>11. /\ causes' \in Seq(Channels) /\ over' \in [Channels -> BOOLEAN]
       /\ by' \in Channels \X {"store32", "store64", "send", "kick"}
      BY <1>0, <1>1, <1>2 DEF Types
<1>12. ledger' \in Ledgers /\ Account(ledger', causes')
      BY <1>0, <1>1, <1>2, MovedFacts
<1>13. Types'
      BY <1>0, <1>1, <1>7, <1>9, <1>10, <1>11, <1>12 DEF Types, Stats, Ledgers
<1>14. Walking' /\ HeldWhileMasked'
      BY <1>0, <1>1 DEF Walking, HeldWhileMasked
<1>15. InterruptsExact'
      BY <1>1, <1>12 DEF InterruptsExact, Account
<1> QED BY <1>13, <1>14, <1>15 DEF IInv

LEMMA StartKeeps ==
    ASSUME IInv, StartCall
    PROVE  IInv'
<1>0. Types
      BY DEF IInv
<1>1. CASE \E addr \in Starts, b \in Blocks : Normal(b.c, addr, b.n, b.how)
      BY <1>1, NormalKeeps
<1>2. CASE \E addr \in Starts, b \in Chains : Chain(b.c, b.tie, addr, b.how)
  <2>1. PICK addr \in Starts, b \in Chains : Chain(b.c, b.tie, addr, b.how)
        BY <1>2
  <2>2. /\ b.c \in Channels /\ b.tie \in BOOLEAN
        /\ b.how \in {"store32", "store64", "send", "kick"}
        BY UseAssumption
  <2>3. NewChain(b.c, b.tie, addr, b.how) /\ stat' \in Stats
        BY <1>0, <2>1 DEF Chain, Types, Stats
  <2> QED BY <2>2, <2>3, NewChainKeeps
<1>3. CASE \E addr \in Starts, tie \in BOOLEAN, w \in StatWrites : Kick(tie, addr, w[1], w[2])
  <2>1. PICK addr \in Starts, tie \in BOOLEAN, w \in StatWrites : Kick(tie, addr, w[1], w[2])
        BY <1>3
  <2> DEFINE s == WrittenStat(w[1], w[2])
  <2>2. s \in Stats
        BY <1>0, WrittenTyped
  <2>3. KickShort(addr, s) \/ (NewChain("GIF", tie, addr, "kick") /\ stat' = s)
        BY <2>1 DEF Kick
  <2> HIDE DEF s
  <2>4. CASE KickShort(addr, s)
        BY <2>2, <2>4, KickShortKeeps
  <2>5. CASE NewChain("GIF", tie, addr, "kick") /\ stat' = s
        BY <2>2, <2>5, NewChainKeeps DEF Channels
  <2> QED BY <2>3, <2>4, <2>5
<1>4. CASE \E c \in Channels : Resume(c)
      BY <1>4, ResumeKeeps
<1> QED BY <1>1, <1>2, <1>3, <1>4 DEF StartCall

LEMMA OtherKeeps ==
    ASSUME IInv, OtherCall
    PROVE  IInv'
<1>0. /\ Types /\ Walking /\ HeldWhileMasked /\ Account(ledger, causes) /\ ledger \in Ledgers
      BY AccountKept DEF IInv
<1>1. ASSUME NEW w \in StatWrites, WriteStat(w[1], w[2])
      PROVE  IInv'
  <2>1. /\ phase = "guest" /\ phase' = "drain" /\ by' = <<"GIF", "store32">>
        /\ stat' = WrittenStat(w[1], w[2])
        /\ UNCHANGED <<mem, ch, walk, dmae, masked, fifo, out, causes, enabled, ledger, over>>
        BY <1>1 DEF WriteStat, Call, AsStore
  <2>2. stat' \in Stats
        BY <1>0, <2>1, WrittenTyped
  <2>3. Types'
        BY <1>0, <2>1, <2>2 DEF Types, Stats, Channels
  <2>4. Walking' /\ HeldWhileMasked' /\ InterruptsExact'
        BY <1>0, <2>1 DEF Walking, HeldWhileMasked, InterruptsExact, Account
  <2> QED BY <2>3, <2>4 DEF IInv
<1>2. ASSUME WriteCtrl
      PROVE  IInv'
  <2>1. /\ phase = "guest" /\ phase' = "drain" /\ by' = <<"GIF", "store32">> /\ dmae' = ~dmae
        /\ UNCHANGED <<mem, ch, walk, stat, masked, fifo, out, causes, enabled, ledger, over>>
        BY <1>2 DEF WriteCtrl, Call, AsStore
  <2>2. dmae' \in BOOLEAN
        BY <2>1
  <2>3. Types'
        BY <1>0, <2>1, <2>2 DEF Types, Channels
  <2>4. Walking' /\ HeldWhileMasked' /\ InterruptsExact'
        BY <1>0, <2>1 DEF Walking, HeldWhileMasked, InterruptsExact, Account
  <2> QED BY <2>3, <2>4 DEF IInv
<1>3. ASSUME MaskPath3
      PROVE  IInv'
  <2>1. /\ phase = "guest" /\ masked' = ~masked
        /\ UNCHANGED <<mem, ch, walk, phase, by, dmae, stat, causes, enabled, ledger, over>>
        BY <1>3 DEF MaskPath3, Call
  <2>2. /\ out \in [Channels -> Seq(Items)] /\ fifo \in Seq(Items) /\ "GIF" \in Channels
        /\ out["GIF"] \in Seq(Items)
        BY <1>0 DEF Types, Channels
  <2>3. masked' \in BOOLEAN
        BY <2>1
  <2>4. /\ out' \in [Channels -> Seq(Items)] /\ fifo' \in Seq(Items)
        /\ ~masked' => fifo' = <<>>
    <3>1. CASE masked
      <4>1. out' = [out EXCEPT !["GIF"] = @ \o fifo] /\ fifo' = <<>>
            BY <1>3, <3>1 DEF MaskPath3
      <4>2. out["GIF"] \o fifo \in Seq(Items) /\ <<>> \in Seq(Items)
            BY <2>2, Joined, Empties
      <4> QED BY <2>2, <4>1, <4>2
    <3>2. CASE ~masked
      <4>1. out' = out /\ fifo' = fifo /\ masked'
            BY <1>3, <2>1, <3>2 DEF MaskPath3
      <4> QED BY <2>2, <4>1
    <3> QED BY <3>1, <3>2
  <2>5. Types'
        BY <1>0, <2>1, <2>3, <2>4 DEF Types
  <2>6. Walking' /\ HeldWhileMasked' /\ InterruptsExact'
        BY <1>0, <2>1, <2>4 DEF Walking, HeldWhileMasked, InterruptsExact, Account, IInv
  <2> QED BY <2>5, <2>6 DEF IInv
<1>4. ASSUME NEW c \in Channels, SetEnabled(c)
      PROVE  IInv'
  <2>1. /\ enabled' = (IF c \in enabled THEN enabled \ {c} ELSE enabled \cup {c})
        /\ UNCHANGED <<mem, ch, walk, phase, by, dmae, stat, masked, fifo, out, causes, ledger,
                       over>>
        BY <1>4 DEF SetEnabled, Call
  <2>2. enabled' \subseteq Channels
        BY <1>0, <2>1 DEF Types
  <2>3. Types'
        BY <1>0, <2>1, <2>2 DEF Types
  <2>4. Walking' /\ HeldWhileMasked' /\ InterruptsExact'
        BY <1>0, <2>1 DEF Walking, HeldWhileMasked, InterruptsExact, Account, IInv
  <2> QED BY <2>3, <2>4 DEF IInv
<1>5. ASSUME NEW c \in Channels, ReadChcr(c)
      PROVE  IInv'
  <2>1. /\ ch' = [ch EXCEPT ![c].str = FALSE]
        /\ UNCHANGED <<mem, walk, phase, by, dmae, stat, masked, fifo, out, causes, enabled,
                       ledger, over>>
        BY <1>5 DEF ReadChcr, Call
  <2>2. ch[c] \in Registers /\ ch \in [Channels -> Registers]
        BY <1>0 DEF Types
  <2>3. \A r \in Registers : [r EXCEPT !.str = FALSE] \in Registers
        BY DEF Registers
  <2>4. ch' = [ch EXCEPT ![c] = [ch[c] EXCEPT !.str = FALSE]]
        BY <2>1, <2>2
  <2>5. [ch[c] EXCEPT !.str = FALSE] \in Registers
        BY <2>2, <2>3
  <2>6. ch' \in [Channels -> Registers]
        BY <1>0, <2>4, <2>5, BusyAssigned
  <2>7. Types'
        BY <1>0, <2>1, <2>6 DEF Types
  <2>8. Walking' /\ HeldWhileMasked' /\ InterruptsExact'
        BY <1>0, <2>1 DEF Walking, HeldWhileMasked, InterruptsExact, Account, IInv
  <2> QED BY <2>7, <2>8 DEF IInv
<1> QED BY <1>1, <1>2, <1>3, <1>4, <1>5 DEF OtherCall

LEMMA InitHolds ==
    ASSUME Init
    PROVE  IInv
<1> DEFINE zero == [c \in Channels |-> 0]
           none == [str |-> FALSE, tie |-> FALSE, asp |-> 0, tadr |-> 0, asr0 |-> 0,
                    asr1 |-> 0, tag |-> NoTag, qwc |-> 0]
<1>1. /\ 0 \in Nat /\ 0 \in 0 .. 2 /\ FALSE \in BOOLEAN /\ <<>> \in Seq(Items)
      /\ <<>> \in Seq(Channels) /\ "GIF" \in Channels
      /\ NoTag \in [id : Ids, irq : BOOLEAN]
      BY DEF NoTag, Ids, Channels
<1>2. none \in Registers /\ ch = [c \in Channels |-> none]
      BY <1>1 DEF Init, Registers
<1> HIDE DEF none
<1>3. ch \in [Channels -> Registers]
      BY <1>2
<1>4. stat \in [status : SUBSET Channels, mask : SUBSET Channels, sum : BOOLEAN]
      BY DEF Init
<1>5. ledger \in Ledgers /\ Account(ledger, causes)
  <2>1. zero \in [Channels -> Nat] /\ \A c \in Channels : zero[c] = 0 /\ Times(c, <<>>) = 0
        BY TimesNone
  <2>2. /\ ledger = [moved |-> zero, raised |-> zero, dropped |-> zero, made_up |-> zero]
        /\ causes = <<>>
        BY DEF Init
  <2> HIDE DEF zero
  <2>3. /\ ledger \in Ledgers /\ ledger.moved = zero /\ ledger.raised = zero
        /\ ledger.dropped = zero /\ ledger.made_up = zero
        BY <2>1, <2>2 DEF Ledgers
  <2> QED BY <2>1, <2>2, <2>3 DEF Account
<1>6. Types
  <2>1. /\ mem \in Memories /\ walk \in Walks /\ phase \in {"guest", "walk", "drain"}
        /\ dmae \in BOOLEAN /\ masked \in BOOLEAN /\ fifo \in Seq(Items)
        /\ causes \in Seq(Channels) /\ enabled \subseteq Channels
        BY <1>1, NoWalkTyped DEF Init
  <2>2. by \in Channels \X {"store32", "store64", "send", "kick"}
        BY <1>1 DEF Init
  <2>3. out \in [Channels -> Seq(Items)] /\ over \in [Channels -> BOOLEAN]
        BY <1>1 DEF Init
  <2> QED BY <1>3, <1>4, <1>5, <2>1, <2>2, <2>3 DEF Types, Ledgers
<1>7. Walking /\ HeldWhileMasked
      BY DEF Init, Walking, HeldWhileMasked
<1>8. InterruptsExact
      BY <1>5 DEF Init, InterruptsExact, Account
<1> QED BY <1>6, <1>7, <1>8 DEF IInv

LEMMA NextKeeps ==
    ASSUME IInv, [Next]_vars
    PROVE  IInv'
<1>1. CASE UNCHANGED vars
  <2>1. /\ Types' /\ Walking' /\ HeldWhileMasked'
        BY <1>1 DEF IInv, Types, Walking, HeldWhileMasked, vars
  <2>2. InterruptsExact'
        BY <1>1 DEF IInv, InterruptsExact, vars
  <2> QED BY <2>1, <2>2 DEF IInv
<1> QED BY <1>1, StartKeeps, TurnKeeps, StopKeeps, DrainKeeps, OtherKeeps DEF Next

LEMMA InductiveInvariant ==
    Spec => []IInv
BY InitHolds, NextKeeps, PTL DEF Spec

\* The registers of a channel, the variables of the loop over the tags and the
\* account keep their types, whatever is in memory.
THEOREM DmaTypes ==
    Spec => []TypeOK
<1>1. IInv => TypeOK
  <2> SUFFICES ASSUME IInv PROVE TypeOK
      OBVIOUS
  <2>1. Types
        BY DEF IInv
  <2>2. walk.on \in Channels \cup {"none"} /\ walk.asp \in 0 .. 2 /\ walk.count \in 0 .. MaxTags
        BY <2>1 DEF Types, Walks
  <2>3. \A i \in 1 .. Len(causes) : causes[i] \in Channels
        BY <2>1 DEF Types
  <2>4. ledger \in [{"moved", "raised", "dropped", "made_up"} -> [Channels -> Nat]]
        BY <2>1 DEF Types
  <2> QED BY <2>1, <2>2, <2>3, <2>4 DEF Types, TypeOK
<1> QED BY <1>1, InductiveInvariant, PTL

\* Every transfer that completes leads to one interrupt, taken or dropped: over
\* any number of channels, stores of 32 and of 64 bits, library calls that make
\* causes up, and changes of what is enabled in between.
THEOREM OneInterruptEach ==
    Spec => []InterruptsExact
<1>1. IInv => InterruptsExact
      BY DEF IInv
<1> QED BY <1>1, InductiveInvariant, PTL

(***************************************************************************)
(* The short cuts and the loop they stand for.                             *)
(***************************************************************************)
Again(v) == IF v.stop THEN v ELSE Turned(v)

LEMMA LoopExists ==
    ASSUME NEW w0
    PROVE  \E f : f = [n \in 0 .. MaxTags |-> IF n = 0 THEN w0 ELSE Again(f[n - 1])]
<1> DEFINE Upto(n, f) == /\ f = [i \in 0 .. n |-> f[i]]
                         /\ f[0] = w0
                         /\ \A i \in 1 .. n : f[i] = Again(f[i - 1])
           N == {n \in Nat : \E f : Upto(n, f)}
<1>1. 0 \in N
  <2> DEFINE e == [i \in 0 .. 0 |-> w0]
  <2>1. e = [i \in 0 .. 0 |-> e[i]] /\ e[0] = w0
        OBVIOUS
  <2>2. \A i \in 1 .. 0 : e[i] = Again(e[i - 1])
        OBVIOUS
  <2>3. Upto(0, e)
        BY <2>1, <2>2
  <2> QED BY <2>3
<1>2. ASSUME NEW n \in N PROVE n + 1 \in N
  <2>1. n \in Nat
        OBVIOUS
  <2>2. PICK f : Upto(n, f)
        OBVIOUS
  <2> DEFINE g == [i \in 0 .. n + 1 |-> IF i = n + 1 THEN Again(f[n]) ELSE f[i]]
  <2>3. g[n + 1] = Again(f[n])
        BY <2>1
  <2>4. \A i \in 0 .. n : g[i] = f[i]
        BY <2>1
  <2>5. g = [i \in 0 .. n + 1 |-> g[i]]
        OBVIOUS
  <2> HIDE DEF g
  <2>6. g[0] = w0
        BY <2>1, <2>2, <2>4
  <2>7. ASSUME NEW i \in 1 .. n + 1 PROVE g[i] = Again(g[i - 1])
    <3>1. CASE i = n + 1
      <4>1. i - 1 = n /\ n \in 0 .. n
            BY <2>1, <3>1
      <4> QED BY <2>3, <2>4, <3>1, <4>1
    <3>2. CASE i # n + 1
      <4>1. i \in 1 .. n /\ i \in 0 .. n /\ i - 1 \in 0 .. n
            BY <2>1, <3>2
      <4>2. f[i] = Again(f[i - 1])
            BY <2>2, <4>1
      <4> QED BY <2>4, <4>1, <4>2
    <3> QED BY <3>1, <3>2
  <2>8. Upto(n + 1, g)
        BY <2>5, <2>6, <2>7
  <2>9. n + 1 \in Nat
        BY <2>1
  <2>10. \E h : Upto(n + 1, h)
        BY <2>8
  <2> HIDE DEF Upto
  <2> QED BY <2>9, <2>10
<1>3. N = Nat
  <2>1. N \in SUBSET Nat
        OBVIOUS
  <2> HIDE DEF N
  <2> QED BY <1>1, <1>2, <2>1, SetInduction
<1>4. PICK f : Upto(MaxTags, f)
      BY <1>3, ChainAssumption
<1>5. f = [i \in 0 .. MaxTags |-> IF i = 0 THEN w0 ELSE Again(f[i - 1])]
  <2>1. \A i \in 0 .. MaxTags : f[i] = IF i = 0 THEN w0 ELSE Again(f[i - 1])
    <3>1. \A i \in 0 .. MaxTags : i = 0 \/ i \in 1 .. MaxTags
          BY ChainAssumption
    <3> QED BY <1>4, <3>1
  <2> QED BY <1>4, <2>1
<1> QED BY <1>5

\* The turns of the loop one by one, f[n] after n of them.
Turns(f, w0) == f[0] = w0 /\ \A n \in 1 .. MaxTags : f[n] = Again(f[n - 1])

LEMMA WalkedTurns ==
    ASSUME NEW w0
    PROVE  \E f : Turns(f, w0) /\ Walked(w0) = f[MaxTags]
<1> DEFINE IsLoop(f) == f = [n \in 0 .. MaxTags |->
                                IF n = 0 THEN w0
                                ELSE LET v == f[n - 1] IN IF v.stop THEN v ELSE Turned(v)]
           f == CHOOSE f : IsLoop(f)
<1>1. \E g : IsLoop(g)
      BY LoopExists DEF Again
<1>2. IsLoop(f)
      BY <1>1
<1>3. Walked(w0) = f[MaxTags]
      BY DEF Walked
<1> HIDE DEF f
<1>4. \A n \in 0 .. MaxTags : f[n] = IF n = 0 THEN w0 ELSE Again(f[n - 1])
      BY <1>2 DEF Again
<1>5. 0 \in 0 .. MaxTags /\ \A n \in 1 .. MaxTags : n \in 0 .. MaxTags /\ n # 0
      BY ChainAssumption
<1>6. Turns(f, w0)
      BY <1>4, <1>5 DEF Turns
<1> QED BY <1>3, <1>6

LEMMA StoppedStays ==
    ASSUME NEW f, NEW w0, Turns(f, w0), NEW k \in 0 .. MaxTags, f[k].stop
    PROVE  f[MaxTags] = f[k]
<1> DEFINE N == {n \in Nat : k =< n /\ n =< MaxTags => f[n] = f[k]}
<1>0. MaxTags \in Nat /\ k \in Nat /\ k =< MaxTags
      BY ChainAssumption
<1>1. 0 \in N
      BY <1>0
<1>2. ASSUME NEW n \in N PROVE n + 1 \in N
  <2>1. n \in Nat /\ n + 1 \in Nat /\ (n + 1) - 1 = n
        OBVIOUS
  <2>2. CASE k =< n /\ n + 1 =< MaxTags
    <3>1. f[n] = f[k] /\ n + 1 \in 1 .. MaxTags
          BY <1>0, <2>1, <2>2
    <3>2. f[n + 1] = Again(f[n])
          BY <2>1, <3>1 DEF Turns
    <3>3. f[n + 1] = f[k]
          BY <3>1, <3>2 DEF Again
    <3> QED BY <2>1, <3>3
  <2>3. CASE ~(k =< n /\ n + 1 =< MaxTags)
    <3>1. k =< n + 1 /\ n + 1 =< MaxTags => n + 1 = k
          BY <1>0, <2>1, <2>3
    <3> QED BY <2>1, <3>1
  <2> QED BY <2>2, <2>3
<1>3. N = Nat
  <2>1. N \in SUBSET Nat
        OBVIOUS
  <2> HIDE DEF N
  <2> QED BY <1>1, <1>2, <2>1, SetInduction
<1> QED BY <1>0, <1>3

\* One turn for the GIF, whose tags carry no VIF codes, without interrupts.
GifWalk(w) == w \in Walks /\ w.on = "GIF" /\ w.tie = FALSE

LEMMA GifTurn ==
    ASSUME Types, NEW w, GifWalk(w), w.count < MaxTags, w.addr \in DOMAIN mem
    PROVE  LET t == mem[w.addr]
               v == Turned(w)
           IN  /\ GifWalk(v) /\ v.count = w.count + 1 /\ v.tag = [id |-> t.id, irq |-> t.irq]
               /\ v.stop = (v.ended \/ w.count + 1 = MaxTags)
               /\ Local(t) => v.buf = w.buf \o Data(w.addr + 1, t.qwc)
               /\ ~Local(t) => v.buf = w.buf \o Data(t.addr, t.qwc)
               /\ t.id \in {"Cnt", "Ref", "Refe", "End"} => v.asp = w.asp
               /\ t.id \in {"Cnt", "Ref"} => v.ended = w.ended
               /\ t.id \in {"Refe", "End"} => v.ended = TRUE
               /\ t.id = "Cnt" => v.addr = w.addr + 1 + t.qwc
               /\ t.id \in {"Ref", "Refe"} => v.addr = w.addr + 1
               /\ t.id = "End" => v.addr = w.addr
<1> DEFINE t == mem[w.addr]
           v == Turned(w)
           f == Followed(w, t)
           d == Data(IF Local(t) THEN w.addr + 1 ELSE t.addr, t.qwc)
<1>1. w \in Walks /\ w.on = "GIF" /\ w.tie = FALSE
      BY DEF GifWalk
<1>2. /\ IsTag(t) /\ v \in Walks /\ v.on = w.on /\ v.tie = w.tie
      /\ v.addr = f.addr /\ v.asp = f.asp
      /\ v.ended = f.ended /\ v.count = w.count + 1
      /\ v.tag = [id |-> t.id, irq |-> t.irq]
      /\ v.buf = w.buf \o Carried(w, t)
      /\ v.stop = (f.ended \/ (t.irq /\ w.tie) \/ w.count + 1 = MaxTags)
      BY <1>1, TurnedFacts
<1>3. /\ f.ended = (w.ended \/ t.id \in {"Refe", "End"} \/ (t.id = "Ret" /\ w.asp = 0))
      /\ t.id \in {"Refe", "Ref"} => f.addr = w.addr + 1
      /\ t.id = "Cnt" => f.addr = w.addr + 1 + t.qwc
      /\ t.id = "End" => f.addr = w.addr
      /\ t.id \notin {"Call", "Ret"} => SameReturns(f, w)
      BY <1>1, <1>2, FollowedFacts
<1>4. Carried(w, t) = d
  <2>1. d \in Seq(Items)
    <3>1. /\ w.addr + 1 \in Nat /\ t.addr \in Nat /\ t.qwc \in Nat /\ Size > 0
          BY <1>1, <1>2, MemoryFacts DEF Walks, IsTag
    <3>2. Data(w.addr + 1, t.qwc) \in Seq(Items) /\ Data(t.addr, t.qwc) \in Seq(Items)
          BY <3>1, DataFacts
    <3> QED BY <3>2
  <2> HIDE DEF t
  <2>2. Carried(w, t) = <<>> \o d
        BY <1>1 DEF Carried
  <2> HIDE DEF d
  <2> QED BY <2>1, <2>2, Empties
<1>5. /\ Local(t) => d = Data(w.addr + 1, t.qwc)
      /\ ~Local(t) => d = Data(t.addr, t.qwc)
      OBVIOUS
<1>6. w.ended \in BOOLEAN
      BY <1>1 DEF Walks
<1> HIDE DEF t, v, f, d
<1>7. v.stop = (v.ended \/ w.count + 1 = MaxTags)
      BY ONLY <1>1, <1>2, Zenon
<1>8. /\ t.id \in {"Cnt", "Ref"} => v.ended = w.ended
      /\ t.id \in {"Refe", "End"} => v.ended = TRUE
      BY <1>2, <1>3, <1>6
<1>9. t.id \in {"Cnt", "Ref", "Refe", "End"} => v.asp = w.asp
      BY <1>2, <1>3 DEF SameReturns
<1>10. GifWalk(v)
      BY <1>1, <1>2 DEF GifWalk
<1> QED BY <1>2, <1>3, <1>4, <1>5, <1>7, <1>8, <1>9, <1>10 DEF t, v, f

Start(a) == Walk("GIF", Written("GIF", FALSE, 0, a, 0))

LEMMA StartFacts ==
    ASSUME Types, NEW a \in Starts
    PROVE  /\ GifWalk(Start(a)) /\ Start(a).addr = a /\ Start(a).asp = 0
           /\ Start(a).buf = <<>> /\ Start(a).count = 0 /\ Start(a).stop = FALSE
           /\ Start(a).ended = FALSE
<1> DEFINE regs == Written("GIF", FALSE, 0, a, 0)
<1>1. "GIF" \in Channels /\ a \in Nat /\ 0 \in Nat /\ FALSE \in BOOLEAN
      BY StartsTyped DEF Channels
<1>2. regs \in Registers /\ regs.tie = FALSE /\ regs.asp = 0 /\ regs.tadr = a
  <2>1. ASSUME NEW c \in Channels, NEW tie \in BOOLEAN, NEW n \in Nat
        PROVE  LET r == Written(c, tie, 0, a, n)
               IN  r \in Registers /\ r.tie = tie /\ r.asp = 0 /\ r.tadr = a
        BY <1>1, WrittenRegisters
  <2> QED BY ONLY <1>1, <2>1, Zenon
<1> HIDE DEF regs
<1>3. /\ Walk("GIF", regs) \in Walks
      /\ LET w == Walk("GIF", regs)
         IN  /\ w.on = "GIF" /\ w.addr = a /\ w.asp = 0 /\ w.tie = FALSE
             /\ w.buf = <<>> /\ w.count = 0 /\ w.stop = FALSE /\ w.ended = FALSE
      BY <1>1, <1>2, WalkFacts
<1> QED BY <1>3 DEF Start, GifWalk, regs

\* What the short cut and the loop have to agree on.
Agree(a, w) ==
    /\ w.ended /\ w.asp = 0
    /\ ShortResult(a) = [addr |-> w.addr, tag |-> w.tag, buf |-> w.buf]

LEMMA PackedAgrees ==
    ASSUME Types, NEW a \in Starts, PackedChain(a)
    PROVE  Agree(a, Walked(Start(a)))
<1> DEFINE w == Start(a)
           v == Turned(w)
           t == mem[a]
           d == Data(a + 1, t.qwc)
<1>1. /\ a \in Nat /\ a \in DOMAIN mem /\ Size > 0 /\ MaxTags \in Nat /\ MaxTags >= 4
      /\ t.qwc \in Nat /\ a + 1 \in Nat
      BY StartsTyped, MemoryFacts, ChainAssumption
<1>2. t.id = "End" /\ ~t.irq /\ t.irq \in BOOLEAN
      BY <1>1, MemoryFacts DEF PackedChain
<1>3. /\ GifWalk(w) /\ w.addr = a /\ w.asp = 0 /\ w.buf = <<>> /\ w.count = 0
      /\ w.stop = FALSE
      BY StartFacts
<1>4. w.count < MaxTags /\ w.addr \in DOMAIN mem
      BY <1>1, <1>3
<1>5. /\ v.tag = [id |-> t.id, irq |-> t.irq]
      /\ v.stop = (v.ended \/ w.count + 1 = MaxTags)
      /\ Local(t) => v.buf = w.buf \o Data(w.addr + 1, t.qwc)
      /\ t.id = "End" => v.asp = w.asp /\ v.ended = TRUE /\ v.addr = w.addr
      BY <1>3, <1>4, GifTurn
<1>6. Local(t)
      BY <1>2 DEF Local
<1>7. v.ended /\ v.stop /\ v.asp = 0 /\ v.addr = a
      BY <1>2, <1>3, <1>5
<1>8. v.buf = d
  <2>1. d \in Seq(Items)
        BY <1>1, DataFacts
  <2>2. v.buf = <<>> \o d
        BY <1>3, <1>5, <1>6
  <2> HIDE DEF d, v
  <2> QED BY <2>1, <2>2, Empties
<1>9. v.tag = [id |-> "End", irq |-> FALSE]
      BY <1>2, <1>5
<1>10. ShortResult(a) = [addr |-> a, tag |-> [id |-> "End", irq |-> FALSE], buf |-> d]
      BY DEF ShortResult
<1>11. PICK f : Turns(f, w) /\ Walked(w) = f[MaxTags]
      BY WalkedTurns
<1>12. 1 \in 1 .. MaxTags /\ 1 \in 0 .. MaxTags /\ 1 - 1 = 0
      BY <1>1
<1> HIDE DEF w, v, t, d
<1>13. f[1] = v
      BY <1>3, <1>11, <1>12 DEF Turns, Again, v
<1>14. f[MaxTags] = f[1]
      BY <1>7, <1>11, <1>12, <1>13, StoppedStays
<1>15. Walked(w) = v
      BY <1>11, <1>13, <1>14
<1>16. Agree(a, v)
      BY <1>7, <1>8, <1>9, <1>10 DEF Agree
<1> QED BY <1>15, <1>16 DEF w

\* The turns that an image chain takes: two, and then one or two more.
LEMMA LastTurn ==
    ASSUME NEW f, NEW w0, Turns(f, w0), NEW k \in 1 .. MaxTags, Turned(f[k - 1]).stop,
           ~f[k - 1].stop
    PROVE  f[MaxTags] = Turned(f[k - 1])
<1>1. f[k] = Turned(f[k - 1]) /\ k \in 0 .. MaxTags
      BY DEF Turns, Again
<1> QED BY <1>1, StoppedStays

LEMMA ImageAgrees ==
    ASSUME Types, NEW a \in Starts, ImageChain(a), ~PackedChain(a)
    PROVE  Agree(a, Walked(Start(a)))
<1> DEFINE w0 == Start(a)
           w1 == Turned(w0)
           w2 == Turned(w1)
           w3 == Turned(w2)
           w4 == Turned(w3)
           i == ImageTag(a)
           d == DataTag(a)
           u1 == Data(a + 1, SetupQwc)
           u2 == Data(i + 1, 1)
           ended == [id |-> "End", irq |-> FALSE]
<1>1. /\ a \in Nat /\ Size \in Nat /\ Size > 0 /\ MaxTags \in Nat /\ MaxTags >= 4
      /\ SetupQwc \in Nat /\ DOMAIN mem = 0 .. Size - 1
      BY StartsTyped, MemoryFacts, ChainAssumption
<1>2. /\ i \in Nat /\ d \in Nat /\ i = a + 1 + SetupQwc /\ d = i + 2 /\ i + 1 + 1 = d
      BY <1>1 DEF ImageTag, DataTag
<1>3. /\ mem[a].id = "Cnt" /\ ~mem[a].irq /\ mem[a].qwc = SetupQwc
      /\ mem[i].id = "Cnt" /\ ~mem[i].irq /\ mem[i].qwc = 1
      /\ ~mem[d].irq /\ There(a, 1) /\ There(i, 1) /\ There(d, 1)
      BY DEF ImageChain, TagAt
<1>4. \/ /\ mem[d].id = "Ref" /\ TagAt(d + 1, {"Refe", "End"}, 0)
      \/ mem[d].id = "End"
      BY DEF ImageChain
<1>5. a \in DOMAIN mem /\ i \in DOMAIN mem /\ d \in DOMAIN mem
      BY <1>1, <1>2, <1>3 DEF There
<1>6. /\ mem[d].irq \in BOOLEAN /\ mem[d].addr \in Nat /\ mem[d].qwc \in Nat
      BY <1>5, MemoryFacts
<1>7. /\ GifWalk(w0) /\ w0.addr = a /\ w0.asp = 0 /\ w0.buf = <<>> /\ w0.count = 0
      /\ w0.stop = FALSE /\ w0.ended = FALSE
      BY StartFacts
<1>8. u1 \in Seq(Items) /\ u2 \in Seq(Items)
  <2> HIDE DEF i, d
  <2>1. 1 \in Nat /\ a + 1 \in Nat /\ i + 1 \in Nat
        BY <1>1, <1>2
  <2> QED BY <1>1, <2>1, DataFacts
<1> HIDE DEF w0, w1, w2, w3, w4, i, d, u1, u2, ended
<1>9. /\ GifWalk(w1) /\ w1.addr = i /\ w1.asp = 0 /\ w1.buf = u1 /\ w1.count = 1
      /\ w1.stop = FALSE /\ w1.ended = FALSE
  <2>1. w0.count < MaxTags /\ w0.addr \in DOMAIN mem /\ w0.count + 1 = 1 /\ 1 # MaxTags
        BY <1>1, <1>5, <1>7
  <2>2. /\ GifWalk(w1) /\ w1.count = w0.count + 1
        /\ w1.stop = (w1.ended \/ w0.count + 1 = MaxTags)
        /\ Local(mem[w0.addr]) => w1.buf = w0.buf \o Data(w0.addr + 1, mem[w0.addr].qwc)
        /\ mem[w0.addr].id = "Cnt" =>
              /\ w1.asp = w0.asp /\ w1.ended = w0.ended
              /\ w1.addr = w0.addr + 1 + mem[w0.addr].qwc
        BY <1>7, <2>1, GifTurn DEF w1
  <2>3. Local(mem[a])
        BY <1>3 DEF Local
  <2>4. w1.buf = <<>> \o u1 /\ w1.addr = i /\ w1.ended = FALSE /\ w1.asp = 0
        BY <1>2, <1>3, <1>7, <2>2, <2>3 DEF u1
  <2>5. w1.buf = u1
        BY <1>8, <2>4, Empties
  <2> QED BY <2>1, <2>2, <2>4, <2>5
<1>10. /\ GifWalk(w2) /\ w2.addr = d /\ w2.asp = 0 /\ w2.buf = u1 \o u2 /\ w2.count = 2
       /\ w2.stop = FALSE /\ w2.ended = FALSE
  <2>1. w1.count < MaxTags /\ w1.addr \in DOMAIN mem /\ w1.count + 1 = 2 /\ 2 # MaxTags
        BY <1>1, <1>5, <1>9
  <2>2. /\ GifWalk(w2) /\ w2.count = w1.count + 1
        /\ w2.stop = (w2.ended \/ w1.count + 1 = MaxTags)
        /\ Local(mem[w1.addr]) => w2.buf = w1.buf \o Data(w1.addr + 1, mem[w1.addr].qwc)
        /\ mem[w1.addr].id = "Cnt" =>
              /\ w2.asp = w1.asp /\ w2.ended = w1.ended
              /\ w2.addr = w1.addr + 1 + mem[w1.addr].qwc
        BY <1>9, <2>1, GifTurn DEF w2
  <2>3. Local(mem[i])
        BY <1>3 DEF Local
  <2>4. w2.buf = u1 \o u2 /\ w2.addr = d /\ w2.ended = FALSE /\ w2.asp = 0
        BY <1>2, <1>3, <1>9, <2>2, <2>3 DEF u2
  <2> QED BY <2>1, <2>2, <2>4
<1>11. PICK f : Turns(f, w0) /\ Walked(w0) = f[MaxTags]
      BY WalkedTurns
<1>12. f[0] = w0 /\ f[1] = w1 /\ f[2] = w2
  <2>1. 1 \in 1 .. MaxTags /\ 2 \in 1 .. MaxTags /\ 1 - 1 = 0 /\ 2 - 1 = 1
        BY <1>1
  <2>2. f[0] = w0 /\ f[1] = Again(f[0]) /\ f[2] = Again(f[1])
        BY <1>11, <2>1 DEF Turns
  <2> QED BY <1>7, <1>9, <2>2 DEF Again, w1, w2
<1>13. w2.count < MaxTags /\ w2.addr \in DOMAIN mem /\ w2.count + 1 = 3 /\ 3 # MaxTags
      BY <1>1, <1>5, <1>10
<1>14. /\ GifWalk(w3) /\ w3.count = w2.count + 1 /\ w3.tag = [id |-> mem[d].id, irq |-> mem[d].irq]
       /\ w3.stop = (w3.ended \/ w2.count + 1 = MaxTags)
       /\ Local(mem[d]) => w3.buf = w2.buf \o Data(d + 1, mem[d].qwc)
       /\ ~Local(mem[d]) => w3.buf = w2.buf \o Data(mem[d].addr, mem[d].qwc)
       /\ mem[d].id = "Ref" => w3.asp = w2.asp /\ w3.ended = w2.ended /\ w3.addr = d + 1
       /\ mem[d].id = "End" => w3.asp = w2.asp /\ w3.ended = TRUE /\ w3.addr = d
  <2>1. w2.addr = d
        BY <1>10
  <2> QED BY <1>10, <1>13, <2>1, GifTurn, ZenonT(40) DEF w3
<1>15. CASE mem[d].id = "End"
  <2>1. /\ w3.ended /\ w3.stop /\ w3.asp = 0 /\ w3.addr = d
        /\ w3.buf = u1 \o u2 \o Data(d + 1, mem[d].qwc)
        BY <1>3, <1>10, <1>14, <1>15 DEF Local
  <2>2. w3.tag = ended
        BY <1>3, <1>6, <1>14, <1>15 DEF ended
  <2>3. ShortResult(a) = [addr |-> d, tag |-> ended, buf |-> u1 \o u2 \o Data(d + 1, mem[d].qwc)]
        BY <1>15 DEF ShortResult, ended, d, u1, u2, i
  <2>4. Agree(a, w3)
        BY <2>1, <2>2, <2>3 DEF Agree
  <2>5. Walked(w0) = w3
    <3>1. 3 \in 1 .. MaxTags /\ 3 - 1 = 2
          BY <1>1
    <3>2. Turned(f[3 - 1]) = w3 /\ ~f[3 - 1].stop
          BY <1>10, <1>12, <3>1 DEF w3
    <3> QED BY <1>11, <2>1, <3>1, <3>2, LastTurn
  <2> QED BY <2>4, <2>5 DEF w0
<1>16. CASE mem[d].id = "Ref"
  <2> DEFINE e == mem[d + 1]
             u3 == Data(mem[d].addr, mem[d].qwc)
             u4 == Data(IF Local(e) THEN d + 2 ELSE e.addr, 0)
  <2>1. e.id \in {"Refe", "End"} /\ ~e.irq /\ e.qwc = 0 /\ There(d + 1, 1)
        BY <1>4, <1>16 DEF TagAt
  <2>2. d + 1 \in DOMAIN mem /\ d + 1 \in Nat /\ d + 2 \in Nat /\ (d + 1) + 1 = d + 2
        BY <1>1, <1>2, <2>1 DEF There
  <2>3. e.irq \in BOOLEAN /\ e.addr \in Nat /\ e.irq = FALSE
        BY <2>1, <2>2, MemoryFacts
  <2>4. /\ w3.ended = FALSE /\ w3.stop = FALSE /\ w3.asp = 0 /\ w3.addr = d + 1 /\ w3.count = 3
        /\ w3.buf = (u1 \o u2) \o u3
        BY <1>3, <1>10, <1>13, <1>14, <1>16 DEF Local
  <2>5. (u1 \o u2) \o u3 \in Seq(Items)
    <3>1. u3 \in Seq(Items)
          BY <1>1, <1>6, DataFacts
    <3> HIDE DEF u3
    <3> QED BY <1>8, <3>1, Joined
  <2>6. u4 = <<>>
    <3>1. u4 \in Seq(Items) /\ Len(u4) = 0
      <4>1. 0 \in Nat
            OBVIOUS
      <4>2. Data(d + 2, 0) \in Seq(Items) /\ Len(Data(d + 2, 0)) = 0
            BY <1>1, <2>2, <4>1, DataFacts
      <4>3. Data(e.addr, 0) \in Seq(Items) /\ Len(Data(e.addr, 0)) = 0
            BY <1>1, <2>3, <4>1, DataFacts
      <4> QED BY <4>2, <4>3
    <3> HIDE DEF u4
    <3> QED BY <3>1, EmptySeq
  <2> HIDE DEF u3
  <2>7. w3.count < MaxTags /\ w3.addr \in DOMAIN mem
        BY <1>1, <2>2, <2>4
  <2>8. /\ w4.tag = [id |-> mem[w3.addr].id, irq |-> mem[w3.addr].irq]
        /\ w4.stop = (w4.ended \/ w3.count + 1 = MaxTags)
        /\ Local(mem[w3.addr]) => w4.buf = w3.buf \o Data(w3.addr + 1, mem[w3.addr].qwc)
        /\ ~Local(mem[w3.addr]) => w4.buf = w3.buf \o Data(mem[w3.addr].addr, mem[w3.addr].qwc)
        /\ mem[w3.addr].id = "Refe" => w4.asp = w3.asp /\ w4.ended = TRUE /\ w4.addr = w3.addr + 1
        /\ mem[w3.addr].id = "End" => w4.asp = w3.asp /\ w4.ended = TRUE /\ w4.addr = w3.addr
        BY <1>14, <2>7, GifTurn DEF w4
  <2>9. /\ w4.ended /\ w4.stop /\ w4.asp = 0 /\ w4.tag = [id |-> e.id, irq |-> FALSE]
        /\ w4.addr = (IF e.id = "Refe" THEN d + 2 ELSE d + 1)
        BY <2>1, <2>2, <2>3, <2>4, <2>8
  <2>10. w4.buf = (u1 \o u2) \o u3
    <3>1. w4.buf = ((u1 \o u2) \o u3) \o u4
      <4>1. CASE Local(e)
            BY <2>1, <2>2, <2>4, <2>8, <4>1
      <4>2. CASE ~Local(e)
            BY <2>1, <2>2, <2>4, <2>8, <4>2
      <4> QED BY <4>1, <4>2
    <3> HIDE DEF u4
    <3> QED BY <2>5, <2>6, <3>1, Empties
  <2>11. ShortResult(a) = [addr |-> IF e.id = "Refe" THEN d + 2 ELSE d + 1,
                           tag |-> [id |-> e.id, irq |-> FALSE], buf |-> (u1 \o u2) \o u3]
        BY <1>16 DEF ShortResult, d, u1, u2, u3, i
  <2>12. Agree(a, w4)
        BY <2>9, <2>10, <2>11 DEF Agree
  <2>13. Walked(w0) = w4
    <3>1. 3 \in 1 .. MaxTags /\ 3 - 1 = 2 /\ 4 \in 1 .. MaxTags /\ 4 - 1 = 3
          BY <1>1
    <3>2. f[3] = w3
      <4>1. f[3] = Again(f[2])
            BY <1>11, <3>1 DEF Turns
      <4> QED BY <1>10, <1>12, <4>1 DEF Again, w3
    <3>3. Turned(f[4 - 1]) = w4 /\ ~f[4 - 1].stop
          BY <2>4, <3>1, <3>2 DEF w4
    <3> QED BY <1>11, <2>9, <3>1, <3>3, LastTurn
  <2> QED BY <2>12, <2>13 DEF w0
<1> QED BY <1>4, <1>15, <1>16

\* The short cuts of kickGifDmaChainFromMMIO do what the loop over the tags
\* does, for every content of memory and packet to set an upload up: the same
\* quadwords to the GS, the same place in the chain and the same last tag.
THEOREM ShortCutsRight ==
    Spec => []ShortCutsAgree
<1>1. ASSUME IInv PROVE ShortCutsAgree
  <2> SUFFICES ASSUME phase = "guest", NEW a \in Starts, ShortCut(a)
               PROVE  /\ fifo = <<>> /\ ~masked
                      /\ Agree(a, Walked(Start(a)))
      BY DEF ShortCutsAgree, Agree, Start
  <2>1. Types /\ HeldWhileMasked
        BY <1>1 DEF IInv
  <2>2. ~masked /\ (ImageChain(a) \/ PackedChain(a))
        BY DEF ShortCut, Open
  <2>3. Agree(a, Walked(Start(a)))
        BY <2>1, <2>2, PackedAgrees, ImageAgrees
  <2> QED BY <2>1, <2>2, <2>3 DEF HeldWhileMasked
<1> QED BY <1>1, InductiveInvariant, PTL

(***************************************************************************)
(* A channel as a source chain channel.                                    *)
(***************************************************************************)
LEMMA ReturnsFacts ==
    ASSUME NEW r, r.asr0 \in Nat, r.asr1 \in Nat, r.asp \in 0 .. 2
    PROVE  /\ r.asp = 0 => ReturnsOf(r) = <<>>
           /\ r.asp = 1 => ReturnsOf(r) = <<r.asr0>>
           /\ r.asp = 2 => ReturnsOf(r) = <<r.asr0, r.asr1>>
           /\ ReturnsOf(r) \in Seq(Nat) /\ Len(ReturnsOf(r)) = r.asp
<1> DEFINE x == r.asr0
           y == r.asr1
           s == <<x, y>>
<1>1. s \in Seq(Nat) /\ Len(s) = 2 /\ s[1] = x /\ s[2] = y /\ x \in Nat /\ y \in Nat
      OBVIOUS
<1> HIDE DEF x, y, s
<1>2. SubSeq(s, 1, 0) = <<>>
      BY <1>1
<1>3. SubSeq(s, 1, 1) = <<x>>
  <2> DEFINE q == SubSeq(s, 1, 1)
  <2>1. q = [i \in 1 .. 1 |-> s[i]]
        BY <1>1
  <2>2. q \in Seq(Nat) /\ Len(q) = 1 /\ q[1] = x
        BY <1>1, <2>1
  <2> HIDE DEF q
  <2>3. q = <<x>>
        BY <1>1, <2>2
  <2> QED BY <2>3 DEF q
<1>4. SubSeq(s, 1, 2) = s
      BY <1>1
<1>5. s = <<x, y>>
      BY DEF s
<1>6. ReturnsOf(r) = SubSeq(s, 1, r.asp)
      BY DEF ReturnsOf, s, x, y
<1>7. CASE r.asp = 0
      BY <1>2, <1>6, <1>7
<1>8. CASE r.asp = 1
      BY <1>1, <1>3, <1>6, <1>8 DEF x
<1>9. CASE r.asp = 2
      BY <1>1, <1>4, <1>5, <1>6, <1>9 DEF x, y
<1>10. r.asp = 0 \/ r.asp = 1 \/ r.asp = 2
      OBVIOUS
<1> QED BY <1>7, <1>8, <1>9, <1>10

LEMMA Pushed ==
    ASSUME NEW x \in Nat, NEW y \in Nat
    PROVE  Append(<<x>>, y) = <<x, y>>
<1> DEFINE q == Append(<<x>>, y)
<1>1. q \in Seq(Nat) /\ Len(q) = 2 /\ q[1] = x /\ q[2] = y
      OBVIOUS
<1> HIDE DEF q
<1>2. q = <<x, y>>
      BY <1>1
<1> QED BY <1>2 DEF q

\* What SourceChain says of a tag t at pc.
PcAfter(t, pc, stack) ==
    CASE t.id \in {"Refe", "Ref"} -> pc + 1
      [] t.id = "Cnt" -> pc + 1 + t.qwc
      [] t.id \in {"Next", "Call"} -> t.addr
      [] t.id = "Ret" /\ Len(stack) > 0 -> stack[Len(stack)]
      [] OTHER -> pc
StackAfter(t, pc, stack) ==
    CASE t.id = "Call" /\ Len(stack) < 2 -> Append(stack, pc + 1 + t.qwc)
      [] t.id = "Ret" /\ Len(stack) > 0 -> SubSeq(stack, 1, Len(stack) - 1)
      [] OTHER -> stack
EndAfter(t, stack) == t.id \in {"Refe", "End"} \/ (t.id = "Ret" /\ Len(stack) = 0)

LEMMA PcFollowed ==
    ASSUME NEW w \in Walks, NEW t, IsTag(t)
    PROVE  Followed(w, t).addr = PcAfter(t, w.addr, ReturnsOf(w))
<1>1. w.asr0 \in Nat /\ w.asr1 \in Nat /\ w.asp \in 0 .. 2
      BY DEF Walks
<1> DEFINE f == Followed(w, t)
           r == ReturnsOf(w)
<1>2. /\ w.asp = 0 => r = <<>>
      /\ w.asp = 1 => r = <<w.asr0>>
      /\ w.asp = 2 => r = <<w.asr0, w.asr1>>
      /\ r \in Seq(Nat) /\ Len(r) = w.asp
      BY <1>1, ReturnsFacts
<1>3. /\ t.id \in {"Refe", "Ref"} => f.addr = w.addr + 1
      /\ t.id = "Cnt" => f.addr = w.addr + 1 + t.qwc
      /\ t.id \in {"Next", "Call"} => f.addr = t.addr
      /\ t.id = "Ret" =>
                 f.addr = (IF w.asp = 2 THEN w.asr1 ELSE IF w.asp = 1 THEN w.asr0 ELSE w.addr)
      /\ t.id = "End" => f.addr = w.addr
      BY FollowedFacts
<1>4. t.id \in Ids
      BY DEF IsTag
<1> HIDE DEF f, r
<1>5. w.asp > 0 => r[Len(r)] = IF w.asp = 2 THEN w.asr1 ELSE w.asr0
      BY <1>1, <1>2
<1>6. CASE t.id \in {"Refe", "Ref"}
      BY <1>3, <1>6 DEF PcAfter, f, r
<1>7. CASE t.id = "Cnt"
      BY <1>3, <1>7 DEF PcAfter, f, r
<1>8. CASE t.id \in {"Next", "Call"}
      BY <1>3, <1>8 DEF PcAfter, f, r
<1>9. CASE t.id = "Ret" /\ w.asp > 0
  <2>1. PcAfter(t, w.addr, r) = r[Len(r)]
        BY <1>2, <1>9 DEF PcAfter
  <2>2. f.addr = IF w.asp = 2 THEN w.asr1 ELSE w.asr0
        BY <1>1, <1>3, <1>9
  <2> QED BY <1>5, <1>9, <2>1, <2>2 DEF f, r
<1>10. CASE t.id = "Ret" /\ w.asp = 0
  <2>1. PcAfter(t, w.addr, r) = w.addr
        BY <1>2, <1>10 DEF PcAfter
  <2> QED BY <1>3, <1>10, <2>1 DEF f, r
<1>11. CASE t.id = "End"
      BY <1>3, <1>11 DEF PcAfter, f, r
<1> QED BY <1>1, <1>4, <1>6, <1>7, <1>8, <1>9, <1>10, <1>11 DEF Ids, f, r

LEMMA StackFollowed ==
    ASSUME NEW w \in Walks, NEW t, IsTag(t)
    PROVE  ReturnsOf(Followed(w, t)) = StackAfter(t, w.addr, ReturnsOf(w))
<1> DEFINE f == Followed(w, t)
           r == ReturnsOf(w)
           q == ReturnsOf(f)
           b == w.addr + 1 + t.qwc
<1>1. /\ w.asr0 \in Nat /\ w.asr1 \in Nat /\ w.asp \in 0 .. 2 /\ t.id \in Ids /\ b \in Nat
      BY DEF Walks, IsTag
<1>2. /\ w.asp = 0 => r = <<>>
      /\ w.asp = 1 => r = <<w.asr0>>
      /\ w.asp = 2 => r = <<w.asr0, w.asr1>>
      /\ r \in Seq(Nat) /\ Len(r) = w.asp
      BY <1>1, ReturnsFacts
<1>3. /\ f \in Walks
      /\ t.id \notin {"Call", "Ret"} => SameReturns(f, w)
      /\ t.id = "Call" =>
            /\ f.asp = (IF w.asp = 2 THEN 2 ELSE w.asp + 1)
            /\ f.asr0 = (IF w.asp = 0 THEN b ELSE w.asr0)
            /\ f.asr1 = (IF w.asp = 1 THEN b ELSE w.asr1)
      /\ t.id = "Ret" => /\ f.asp = (IF w.asp = 0 THEN 0 ELSE w.asp - 1)
                         /\ f.asr0 = w.asr0 /\ f.asr1 = w.asr1
      BY FollowedFacts
<1>4. /\ f.asp = 0 => q = <<>>
      /\ f.asp = 1 => q = <<f.asr0>>
      /\ f.asp = 2 => q = <<f.asr0, f.asr1>>
  <2>1. f.asr0 \in Nat /\ f.asr1 \in Nat /\ f.asp \in 0 .. 2
        BY <1>3 DEF Walks
  <2> HIDE DEF f
  <2> QED BY <2>1, ReturnsFacts
<1>5. StackAfter(t, w.addr, r) =
         CASE t.id = "Call" /\ Len(r) < 2 -> Append(r, b)
           [] t.id = "Ret" /\ Len(r) > 0 -> SubSeq(r, 1, Len(r) - 1)
           [] OTHER -> r
      BY DEF StackAfter
<1> HIDE DEF f, r, q, b
<1>6. CASE t.id \notin {"Call", "Ret"}
  <2>1. q = r
        BY <1>1, <1>2, <1>3, <1>4, <1>6 DEF SameReturns
  <2>2. StackAfter(t, w.addr, r) = r
        BY <1>5, <1>6
  <2> QED BY <2>1, <2>2 DEF q, f, r
<1>7. CASE t.id = "Call" /\ w.asp = 2
  <2>1. q = r
        BY <1>2, <1>3, <1>4, <1>7
  <2>2. StackAfter(t, w.addr, r) = r
        BY <1>2, <1>5, <1>7
  <2> QED BY <2>1, <2>2 DEF q, f, r
<1>8. CASE t.id = "Call" /\ w.asp < 2
  <2>1. StackAfter(t, w.addr, r) = Append(r, b)
        BY <1>1, <1>2, <1>5, <1>8
  <2>2. q = Append(r, b)
    <3>1. CASE w.asp = 0
      <4>1. f.asp = 1 /\ f.asr0 = b
            BY <1>3, <1>8, <3>1
      <4> QED BY <1>1, <1>2, <1>4, <3>1, <4>1
    <3>2. CASE w.asp = 1
      <4>1. f.asp = 2 /\ f.asr0 = w.asr0 /\ f.asr1 = b
            BY <1>3, <1>8, <3>2
      <4>2. r = <<w.asr0>> /\ q = <<w.asr0, b>>
            BY <1>2, <1>4, <3>2, <4>1
      <4> QED BY <1>1, <4>2, Pushed
    <3> QED BY <1>1, <1>8, <3>1, <3>2
  <2> QED BY <2>1, <2>2 DEF q, f, r
<1>9. CASE t.id = "Ret" /\ w.asp = 0
  <2>1. q = r
        BY <1>2, <1>3, <1>4, <1>9
  <2>2. StackAfter(t, w.addr, r) = r
        BY <1>2, <1>5, <1>9
  <2> QED BY <2>1, <2>2 DEF q, f, r
<1>10. CASE t.id = "Ret" /\ w.asp > 0
  <2>1. StackAfter(t, w.addr, r) = SubSeq(r, 1, w.asp - 1)
        BY <1>1, <1>2, <1>5, <1>10
  <2>2. q = SubSeq(r, 1, w.asp - 1)
    <3>1. CASE w.asp = 1
      <4>1. f.asp = 0
            BY <1>3, <1>10, <3>1
      <4> QED BY <1>1, <1>2, <1>4, <3>1, <4>1
    <3>2. CASE w.asp = 2
      <4>1. f.asp = 1 /\ f.asr0 = w.asr0
            BY <1>3, <1>10, <3>2
      <4> QED BY <1>1, <1>2, <1>4, <3>2, <4>1
    <3> QED BY <1>1, <1>10, <3>1, <3>2
  <2> QED BY <2>1, <2>2 DEF q, f, r
<1> QED BY <1>1, <1>6, <1>7, <1>8, <1>9, <1>10

Pc(c) == At(c).addr
Stack(c) == ReturnsOf(At(c))
Payload(c, pc, t) ==
    (IF c = "VIF1" /\ Local(t) THEN <<<<"upper", pc>>>> ELSE <<>>)
        \o Data(IF Local(t) THEN pc + 1 ELSE t.addr, t.qwc)

\* What a step of Next is to a channel.
Same(c) == /\ Pc(c)' = Pc(c) /\ Stack(c)' = Stack(c) /\ SentBy(c)' = SentBy(c)
           /\ over'[c] = over[c]
FreshAt(c, a) == Pc(c)' = a /\ Stack(c)' = <<>> /\ over'[c] = FALSE
Stepped(c) ==
    /\ ~over[c] /\ Pc(c) \in DOMAIN mem
    /\ Pc(c)' = PcAfter(mem[Pc(c)], Pc(c), Stack(c))
    /\ Stack(c)' = StackAfter(mem[Pc(c)], Pc(c), Stack(c))
    /\ SentBy(c)' = SentBy(c) \o Payload(c, Pc(c), mem[Pc(c)])
    /\ over'[c] = EndAfter(mem[Pc(c)], Stack(c))
PutOut(c, a, n) == SentBy(c)' = IF dmae THEN SentBy(c) \o Data(a, n) ELSE SentBy(c)

\* Nothing is started, or this, for this channel or the other.
Unstarted(c) ==
    /\ UNCHANGED <<started, asked>>
    /\ Same(c) \/ (dmae /\ dmae' = dmae /\ Stepped(c))
Served(c) ==
    \/ asked'.what = "chain" /\ FreshAt(c, asked'.addr) /\ SentBy(c)' = SentBy(c)
    \/ /\ asked'.what = "block" /\ PutOut(c, asked'.addr, asked'.n)
       /\ Pc(c)' = Pc(c) /\ Stack(c)' = Stack(c) /\ over'[c] = over[c]
    \/ asked'.what = "send" /\ PutOut(c, asked'.addr, asked'.n) /\ FreshAt(c, asked'.addr)
    \/ asked'.what = "resume" /\ ~over[c] /\ Same(c)
Started(c) ==
    /\ started' = started + 1 /\ dmae' = dmae
    /\ (asked'.c # c /\ Same(c)) \/ (asked'.c = c /\ Served(c))
Simple(c) == Unstarted(c) \/ Started(c)

GifNext == [GifSource!Step \/ GifSource!Switch \/ GifSource!Start]_(GifSource!vars)
Vif1Next == [Vif1Source!Step \/ Vif1Source!Switch \/ Vif1Source!Start]_(Vif1Source!vars)

LEMMA GifSize ==
    GifSource!Size = Size
BY DEF GifSource!Size, Size, GifSource!Cardinality, Cardinality

LEMMA GifQuads ==
    ASSUME NEW a, NEW n
    PROVE  GifSource!Quads(a, n) = Data(a, n)
BY GifSize DEF GifSource!Quads, Data

LEMMA GifStep ==
    ASSUME Stepped("GIF"), dmae, UNCHANGED <<mem, dmae, started, asked>>
    PROVE  GifSource!Step
<1> DEFINE s == [pc |-> Pc("GIF"), stack |-> Stack("GIF"), sent |-> SentBy("GIF"),
                 ended |-> over["GIF"]]
           r == GifSource!Dealt(s)
           t == mem[Pc("GIF")]
<1>1. s.pc = Pc("GIF") /\ s.stack = Stack("GIF") /\ s.sent = SentBy("GIF")
      BY DEF s
<1> HIDE DEF s
<1>2. r.pc = PcAfter(t, Pc("GIF"), Stack("GIF"))
      BY <1>1 DEF GifSource!Dealt, PcAfter
<1>3. r.stack = StackAfter(t, Pc("GIF"), Stack("GIF"))
      BY <1>1 DEF GifSource!Dealt, StackAfter
<1>4. r.sent = SentBy("GIF") \o Payload("GIF", Pc("GIF"), t)
  <2>1. r.sent = SentBy("GIF") \o GifSource!Payload(s, t)
        BY <1>1 DEF GifSource!Dealt
  <2>2. CASE Local(t)
    <3>1. GifSource!Local(t)
          BY <2>2 DEF Local, GifSource!Local
    <3>2. GifSource!Payload(s, t) = <<>> \o Data(Pc("GIF") + 1, t.qwc)
          BY <1>1, <3>1, GifQuads DEF GifSource!Payload
    <3>3. Payload("GIF", Pc("GIF"), t) = <<>> \o Data(Pc("GIF") + 1, t.qwc)
          BY <2>2 DEF Payload
    <3> QED BY <2>1, <3>2, <3>3
  <2>3. CASE ~Local(t)
    <3>1. ~GifSource!Local(t)
          BY <2>3 DEF Local, GifSource!Local
    <3>2. GifSource!Payload(s, t) = <<>> \o Data(t.addr, t.qwc)
          BY <1>1, <3>1, GifQuads DEF GifSource!Payload
    <3>3. Payload("GIF", Pc("GIF"), t) = <<>> \o Data(t.addr, t.qwc)
          BY <2>3 DEF Payload
    <3> QED BY <2>1, <3>2, <3>3
  <2> QED BY <2>2, <2>3
<1>5. r.ended = EndAfter(t, Stack("GIF"))
      BY <1>1 DEF GifSource!Dealt, EndAfter
<1> HIDE DEF r
<1>6. GifSource!Becomes(r)
      BY <1>2, <1>3, <1>4, <1>5 DEF Stepped, GifSource!Becomes, Pc, Stack
<1> QED BY <1>6 DEF Stepped, GifSource!Step, r, s, Pc, Stack

LEMMA GifServed ==
    ASSUME Served("GIF"), asked'.c = "GIF", started' = started + 1, UNCHANGED <<mem, dmae>>
    PROVE  GifSource!Start
<1> DEFINE a == asked'.addr
           n == asked'.n
<1>1. CASE asked'.what = "chain" /\ FreshAt("GIF", a) /\ SentBy("GIF")' = SentBy("GIF")
  <2>1. GifSource!NewChain(a)
        BY <1>1 DEF FreshAt, GifSource!NewChain, GifSource!BeginsAt, Pc, Stack
  <2> QED BY <1>1, <2>1 DEF GifSource!Start
<1>2. PutOut("GIF", a, n) => SentBy("GIF")' = IF dmae THEN SentBy("GIF") \o GifSource!Quads(a, n)
                                              ELSE SentBy("GIF")
      BY GifQuads DEF PutOut
<1>3. CASE /\ asked'.what = "block" /\ PutOut("GIF", a, n)
           /\ Pc("GIF")' = Pc("GIF") /\ Stack("GIF")' = Stack("GIF") /\ over'["GIF"] = over["GIF"]
  <2>1. GifSource!Block(a, n, FALSE)
        BY <1>2, <1>3 DEF GifSource!Block, Pc, Stack
  <2> QED BY <1>3, <2>1 DEF GifSource!Start
<1>4. CASE asked'.what = "send" /\ PutOut("GIF", a, n) /\ FreshAt("GIF", a)
  <2>1. GifSource!Block(a, n, TRUE)
        BY <1>2, <1>4 DEF FreshAt, GifSource!Block, GifSource!BeginsAt, Pc, Stack
  <2> QED BY <1>4, <2>1 DEF GifSource!Start
<1>5. CASE asked'.what = "resume" /\ ~over["GIF"] /\ Same("GIF")
  <2>1. GifSource!Resume
        BY <1>5 DEF Same, GifSource!Resume, GifSource!chainVars, Pc, Stack
  <2> QED BY <1>5, <2>1 DEF GifSource!Start
<1> QED BY <1>1, <1>3, <1>4, <1>5 DEF Served

LEMMA GifSimple ==
    ASSUME Simple("GIF"), mem' = mem, dmae \in BOOLEAN, dmae' \in BOOLEAN
    PROVE  GifNext
<1>1. CASE UNCHANGED <<started, asked>> /\ Same("GIF")
  <2>1. CASE dmae' = dmae
        BY <1>1, <2>1 DEF GifNext, Same, GifSource!vars, Pc, Stack
  <2>2. CASE dmae' # dmae
    <3>1. GifSource!Switch
          BY <1>1, <2>2 DEF Same, GifSource!Switch, GifSource!chainVars, Pc, Stack
    <3> QED BY <3>1 DEF GifNext
  <2> QED BY <2>1, <2>2
<1>2. CASE UNCHANGED <<started, asked>> /\ dmae /\ dmae' = dmae /\ Stepped("GIF")
      BY <1>2, GifStep DEF GifNext
<1>3. CASE Started("GIF") /\ asked'.c # "GIF" /\ Same("GIF")
  <2>1. GifSource!Start
        BY <1>3 DEF Started, Same, GifSource!Start, GifSource!chainVars, Pc, Stack
  <2> QED BY <2>1 DEF GifNext
<1>4. CASE Started("GIF") /\ asked'.c = "GIF" /\ Served("GIF")
  <2>1. GifSource!Start
        BY <1>4, GifServed DEF Started
  <2> QED BY <2>1 DEF GifNext
<1> QED BY <1>1, <1>2, <1>3, <1>4 DEF Simple, Unstarted, Started

\* What a channel has put out and held back, and the registers of its chain.
Passed(c) == out[c] \o Held(c)

LEMMA SameReturnsOf ==
    ASSUME NEW r, NEW q, SameReturns(r, q)
    PROVE  ReturnsOf(r) = ReturnsOf(q)
BY DEF SameReturns, ReturnsOf

LEMMA IdleView ==
    ASSUME NEW c, walk.on # c
    PROVE  /\ Pc(c) = ch[c].tadr /\ Stack(c) = ReturnsOf(ch[c])
           /\ SentBy(c) = Passed(c) \o <<>>
<1>1. At(c) = [addr |-> ch[c].tadr, asp |-> ch[c].asp, asr0 |-> ch[c].asr0,
               asr1 |-> ch[c].asr1]
      BY DEF At
<1>2. SameReturns(At(c), ch[c]) /\ Pc(c) = ch[c].tadr
      BY <1>1 DEF SameReturns, Pc
<1>3. Stack(c) = ReturnsOf(ch[c])
      BY <1>2, SameReturnsOf DEF Stack
<1>4. SentBy(c) = Passed(c) \o <<>>
      BY DEF SentBy, Passed
<1> QED BY <1>2, <1>3, <1>4

LEMMA IdleViewNext ==
    ASSUME NEW c, walk'.on # c
    PROVE  /\ Pc(c)' = ch'[c].tadr /\ Stack(c)' = ReturnsOf(ch'[c])
           /\ SentBy(c)' = Passed(c)' \o <<>>
<1>1. At(c)' = [addr |-> ch'[c].tadr, asp |-> ch'[c].asp, asr0 |-> ch'[c].asr0,
                asr1 |-> ch'[c].asr1]
      BY DEF At
<1>2. SameReturns(At(c)', ch'[c]) /\ Pc(c)' = ch'[c].tadr
      BY <1>1 DEF SameReturns, Pc
<1>3. Stack(c)' = ReturnsOf(At(c)')
      BY DEF Stack, ReturnsOf
<1>4. Stack(c)' = ReturnsOf(ch'[c])
      BY <1>2, <1>3, SameReturnsOf
<1>5. SentBy(c)' = Passed(c)' \o <<>>
      BY DEF SentBy, Passed
<1> QED BY <1>2, <1>4, <1>5

LEMMA BusyView ==
    /\ Pc(walk.on) = walk.addr /\ Stack(walk.on) = ReturnsOf(walk)
    /\ SentBy(walk.on) = Passed(walk.on) \o walk.buf
BY DEF At, Pc, Stack, SentBy, Passed

LEMMA BusyViewNext ==
    ASSUME NEW c, walk'.on = c
    PROVE  /\ Pc(c)' = walk'.addr /\ Stack(c)' = ReturnsOf(walk')
           /\ SentBy(c)' = Passed(c)' \o walk'.buf
<1>1. At(c)' = walk'
      BY DEF At
<1>2. Pc(c)' = walk'.addr
      BY <1>1 DEF Pc
<1>3. Stack(c)' = ReturnsOf(walk')
      BY <1>1 DEF Stack, ReturnsOf
<1>4. SentBy(c)' = Passed(c)' \o walk'.buf
      BY DEF SentBy, Passed
<1> QED BY <1>2, <1>3, <1>4

\* A channel that no chain is walked for, before and after a step.
SameRegs(r, q) == r.tadr = q.tadr /\ SameReturns(r, q)

LEMMA IdleKept ==
    ASSUME NEW c, walk.on # c, walk'.on # c, SameRegs(ch'[c], ch[c]),
           Passed(c)' = Passed(c), over'[c] = over[c]
    PROVE  Same(c)
<1>1. /\ Pc(c) = ch[c].tadr /\ Stack(c) = ReturnsOf(ch[c])
      /\ SentBy(c) = Passed(c) \o <<>>
      BY IdleView
<1>2. /\ Pc(c)' = ch'[c].tadr /\ Stack(c)' = ReturnsOf(ch'[c])
      /\ SentBy(c)' = Passed(c)' \o <<>>
      BY IdleViewNext
<1>3. ReturnsOf(ch'[c]) = ReturnsOf(ch[c]) /\ ch'[c].tadr = ch[c].tadr
      BY SameReturnsOf DEF SameRegs
<1> QED BY <1>1, <1>2, <1>3 DEF Same

\* A channel that is given a new chain or block while none is walked for it.
LEMMA IdleFresh ==
    ASSUME NEW c, walk'.on # c, ch'[c] \in Registers, ch'[c].asp = 0, over'[c] = FALSE
    PROVE  FreshAt(c, ch'[c].tadr)
<1>1. Pc(c)' = ch'[c].tadr /\ Stack(c)' = ReturnsOf(ch'[c])
      BY IdleViewNext
<1>2. ch'[c].asr0 \in Nat /\ ch'[c].asr1 \in Nat /\ ch'[c].asp \in 0 .. 2
      BY DEF Registers
<1>3. ReturnsOf(ch'[c]) = <<>>
      BY <1>2, ReturnsFacts
<1> QED BY <1>1, <1>3 DEF FreshAt

(***************************************************************************)
(* Every step is one of the source chain channel, or none of its.          *)
(***************************************************************************)
LEMMA PassedTyped ==
    ASSUME Types, NEW c \in Channels
    PROVE  Passed(c) \in Seq(Items) /\ Passed(c) \o <<>> = Passed(c)
<1>1. out[c] \in Seq(Items) /\ Held(c) \in Seq(Items)
      BY Empties DEF Types, Held
<1>2. Passed(c) \in Seq(Items)
      BY <1>1, Joined DEF Passed
<1> QED BY <1>2, Empties

LEMMA PassedUnchanged ==
    ASSUME NEW c, out'[c] = out[c], fifo' = fifo
    PROVE  Passed(c)' = Passed(c)
BY DEF Passed, Held

LEMMA SameRegsRefl ==
    ASSUME NEW r
    PROVE  SameRegs(r, r)
BY DEF SameRegs, SameReturns

LEMMA CompletePassed ==
    ASSUME Types, HeldWhileMasked, Account(ledger, causes),
           NEW c \in Channels, NEW buf \in Seq(Items), NEW regs \in Registers,
           Complete(c, buf, regs)
    PROVE  /\ Passed(c)' = Passed(c) \o buf
           /\ \A d \in Channels : d # c => Passed(d)' = Passed(d) /\ ch'[d] = ch[d]
           /\ ch'[c] \in Registers /\ SameRegs(ch'[c], regs)
<1>1. /\ out'[c] \o (IF c = "GIF" THEN fifo' ELSE <<>>)
               = (out[c] \o (IF c = "GIF" THEN fifo ELSE <<>>)) \o buf
      /\ \A d \in Channels \ {c} : out'[d] = out[d]
      /\ c # "GIF" => fifo' = fifo
      /\ ch' = [ch EXCEPT ![c] = [regs EXCEPT !.str = FALSE, !.qwc = 0]]
      /\ ch' \in [Channels -> Registers]
      BY CompleteFacts
<1>2. Passed(c)' = Passed(c) \o buf
      BY <1>1 DEF Passed, Held
<1>3. ASSUME NEW d \in Channels, d # c
      PROVE  Passed(d)' = Passed(d) /\ ch'[d] = ch[d]
  <2>1. out'[d] = out[d] /\ ch'[d] = ch[d]
        BY <1>1, <1>3 DEF Types
  <2>2. Held(d)' = Held(d)
        BY <1>1, <1>3 DEF Held, Channels
  <2> QED BY <2>1, <2>2 DEF Passed
<1>4. ch'[c] = [regs EXCEPT !.str = FALSE, !.qwc = 0]
      BY <1>1 DEF Types
<1>5. SameRegs(ch'[c], regs)
      BY <1>4 DEF Registers, SameRegs, SameReturns
<1> QED BY <1>1, <1>2, <1>3, <1>5

LEMMA NormalSimple ==
    ASSUME IInv, NEW addr \in Starts, NEW b \in Blocks, Normal(b.c, addr, b.n, b.how),
           NEW d \in Channels
    PROVE  Started(d)
<1> DEFINE c == b.c
           sent == Written(c, TRUE, 0, addr, b.n)
           kept == [ch[c] EXCEPT !.str = TRUE, !.qwc = b.n]
           regs == IF b.how = "send" THEN sent ELSE kept
<1>0. /\ Types /\ Walking /\ HeldWhileMasked /\ Account(ledger, causes) /\ ledger \in Ledgers
      BY AccountKept DEF IInv
<1>1. /\ c \in Channels /\ b.n \in Nat /\ addr \in Nat /\ addr \in DOMAIN mem /\ Size > 0
      /\ b.n =< Size /\ ch[c] \in Registers /\ over[c] \in BOOLEAN
      BY <1>0, UseAssumption, StartsTyped, MemoryFacts DEF Types
<1>2. /\ sent \in Registers /\ sent.asp = 0
  <2>1. ASSUME NEW tie \in BOOLEAN
        PROVE  LET r == Written(c, tie, 0, addr, b.n) IN r \in Registers /\ r.asp = 0
        BY <1>0, <1>1, WrittenRegisters
  <2>2. TRUE \in BOOLEAN
        OBVIOUS
  <2> QED BY ONLY <2>1, <2>2, Zenon
<1>3. kept \in Registers /\ SameRegs(kept, ch[c])
  <2> DEFINE r == ch[c]
             n == b.n
  <2>1. r \in Registers /\ n \in Nat
        BY <1>1
  <2> HIDE DEF r, n
  <2>2. [r EXCEPT !.str = TRUE, !.qwc = n] \in Registers
        BY <2>1 DEF Registers
  <2>3. SameRegs([r EXCEPT !.str = TRUE, !.qwc = n], r)
        BY <2>1 DEF Registers, SameRegs, SameReturns
  <2> QED BY <2>2, <2>3 DEF r, n
<1>4. /\ phase = "guest" /\ walk' = walk /\ walk = NoWalk
      /\ over' = IF b.how = "send" THEN [over EXCEPT ![c] = FALSE] ELSE over
      BY <1>0 DEF Normal, Ignored, CanStart, Walking
<1>5. walk.on = "none" /\ walk'.on = "none" /\ c # "none" /\ d # "none"
      BY <1>1, <1>4, NoWalkTyped DEF Channels
<1>6. /\ d # c => over'[d] = over[d]
      /\ b.how = "send" => over'[c] = FALSE
      /\ b.how # "send" => over'[c] = over[c]
      BY <1>0, <1>1, <1>4 DEF Types
<1>7. regs \in Registers
      BY <1>2, <1>3
<1>a. /\ started' = started + 1 /\ dmae' = dmae /\ asked'.c = c
      /\ asked'.what = IF b.how = "send" THEN "send" ELSE "block"
      /\ asked'.addr = addr /\ asked'.n = b.n
      BY DEF Normal, Asks
<1>b. ch'[c].tadr = addr /\ ch'[c].asp = 0 /\ ch'[c] \in Registers /\ b.how = "send"
         => FreshAt(c, addr)
      BY <1>5, <1>6, IdleFresh
<1>c. sent.tadr = addr
      BY <1>0, <1>1 DEF Written, Types, Registers
<1>d. /\ d # c /\ Same(d) => Started(d)
      /\ b.how = "send" /\ FreshAt(c, addr) /\ PutOut(c, addr, b.n) => Started(c)
      /\ /\ b.how # "send" /\ PutOut(c, addr, b.n)
         /\ Pc(c)' = Pc(c) /\ Stack(c)' = Stack(c) /\ over'[c] = over[c]
         => Started(c)
      BY <1>a DEF Started, Served
<1>8. CASE dmae /\ Complete(c, Data(addr, b.n), regs)
  <2> HIDE DEF sent, kept
  <2>1. Data(addr, b.n) \in Seq(Items)
        BY <1>0, <1>1, DataFacts
  <2>2. /\ Passed(c)' = Passed(c) \o Data(addr, b.n)
        /\ \A e \in Channels : e # c => Passed(e)' = Passed(e) /\ ch'[e] = ch[e]
        /\ ch'[c] \in Registers /\ SameRegs(ch'[c], regs)
        BY <1>0, <1>1, <1>7, <1>8, <2>1, CompletePassed
  <2>3. CASE d # c
        BY <1>5, <1>6, <1>d, <2>2, <2>3, IdleKept, SameRegsRefl
  <2>4. CASE d = c
    <3>1. SentBy(c)' = SentBy(c) \o Data(addr, b.n)
      <4>1. SentBy(c) = Passed(c) /\ Passed(c) \in Seq(Items)
            BY <1>0, <1>1, <1>5, IdleView, PassedTyped
      <4>2. SentBy(c)' = Passed(c)' \o <<>>
            BY <1>5, IdleViewNext
      <4>3. Passed(c) \o Data(addr, b.n) \in Seq(Items)
            BY <2>1, <4>1, Joined
      <4> QED BY <2>2, <4>1, <4>2, <4>3, Empties
    <3>2. PutOut(c, addr, b.n)
          BY <1>8, <3>1 DEF PutOut
    <3>3. CASE b.how = "send"
      <4>1. ch'[c].asp = 0 /\ ch'[c].tadr = addr
            BY <1>2, <1>c, <2>2, <3>3 DEF SameRegs, SameReturns
      <4> QED BY <1>b, <1>d, <2>2, <2>4, <3>2, <3>3, <4>1
    <3>4. CASE b.how # "send"
      <4>1. SameRegs(ch'[c], ch[c])
            BY <1>3, <2>2, <3>4 DEF SameRegs, SameReturns
      <4>2. Pc(c)' = Pc(c) /\ Stack(c)' = Stack(c)
            BY <1>5, <4>1, IdleView, IdleViewNext, SameReturnsOf DEF SameRegs
      <4> QED BY <1>6, <1>d, <2>4, <3>4, <3>2, <4>2
    <3> QED BY <3>3, <3>4
  <2> QED BY <2>3, <2>4
<1>9. CASE (~dmae \/ b.n = 0) /\ ch' = [ch EXCEPT ![c] = regs] /\ UNCHANGED <<out, fifo>>
  <2> HIDE DEF sent, kept
  <2>1. Passed(d)' = Passed(d)
        BY <1>9, PassedUnchanged
  <2>2. ch'[c] = regs /\ (d # c => ch'[d] = ch[d])
        BY <1>0, <1>1, <1>9 DEF Types
  <2>3. CASE d # c
        BY <1>5, <1>6, <1>d, <2>1, <2>2, <2>3, IdleKept, SameRegsRefl
  <2>6. SentBy(c)' = SentBy(c) => PutOut(c, addr, b.n)
    <3>1. CASE ~dmae
          BY <3>1 DEF PutOut
    <3>2. CASE b.n = 0
      <4>1. Data(addr, b.n) \in Seq(Items) /\ Len(Data(addr, b.n)) = 0
            BY <1>0, <1>1, <3>2, DataFacts
      <4>2. Data(addr, b.n) = <<>>
            BY <4>1, EmptySeq
      <4>3. SentBy(c) \in Seq(Items)
            BY <1>0, <1>1, <1>5, IdleView, PassedTyped
      <4>4. SentBy(c) \o Data(addr, b.n) = SentBy(c)
            BY <4>2, <4>3, Empties
      <4> QED BY <4>4 DEF PutOut
    <3> QED BY <1>9, <3>1, <3>2
  <2>4. CASE d = c /\ b.how = "send"
    <3>1. FreshAt(c, addr)
          BY <1>2, <1>b, <1>c, <2>2, <2>4
    <3>2. SentBy(c)' = SentBy(c)
          BY <1>5, <2>1, <2>4, IdleView, IdleViewNext
    <3> QED BY <1>d, <2>4, <2>6, <3>1, <3>2
  <2>5. CASE d = c /\ b.how # "send"
    <3>1. Same(c)
          BY <1>3, <1>5, <1>6, <2>1, <2>2, <2>5, IdleKept
    <3> QED BY <1>d, <2>5, <2>6, <3>1 DEF Same
  <2> QED BY <2>3, <2>4, <2>5
<1> QED BY <1>8, <1>9 DEF Normal, Ignored

LEMMA GuestIdle ==
    ASSUME IInv, phase # "walk", NEW d \in Channels
    PROVE  walk = NoWalk /\ walk.on # d
<1>1. walk = NoWalk
      BY DEF IInv, Walking
<1>2. NoWalk.on = "none" /\ d # "none"
      BY NoWalkTyped DEF Channels
<1> QED BY <1>1, <1>2

LEMMA NewChainSimple ==
    ASSUME IInv, NEW c \in Channels, NEW tie \in BOOLEAN, NEW addr \in Starts, NEW how,
           NewChain(c, tie, addr, how), NEW d \in Channels
    PROVE  Started(d)
<1> DEFINE regs == Written(c, tie, 0, addr, ch[c].qwc)
<1>0. Types
      BY DEF IInv
<1>1. addr \in Nat /\ ch[c].qwc \in Nat
      BY <1>0, StartsTyped DEF Types, Registers
<1>2. regs \in Registers /\ regs.tadr = addr /\ regs.asp = 0
      BY <1>0, <1>1, WrittenRegisters
<1>3. /\ phase = "guest" /\ ch' = [ch EXCEPT ![c] = regs] /\ out' = out /\ fifo' = fifo
      /\ over' = [over EXCEPT ![c] = FALSE]
      /\ walk' = walk \/ walk' = Walk(c, regs)
      BY DEF NewChain, Ignored, CanStart
<1> HIDE DEF regs
<1>a. /\ started' = started + 1 /\ dmae' = dmae /\ asked'.c = c /\ asked'.what = "chain"
      /\ asked'.addr = addr
      BY DEF NewChain, Asks
<1>b. /\ d # c /\ Same(d) => Started(d)
      /\ FreshAt(c, addr) /\ SentBy(c)' = SentBy(c) => Started(c)
      BY <1>a DEF Started, Served
<1>4. walk.on # d /\ walk = NoWalk /\ walk.on # c
      BY <1>3, GuestIdle
<1>5. Passed(d)' = Passed(d)
      BY <1>3, PassedUnchanged
<1>6. CASE d # c
  <2>1. walk'.on # d
        BY <1>2, <1>3, <1>4, <1>6, WalkFacts, ZenonT(40)
  <2>2. ch'[d] = ch[d] /\ over'[d] = over[d]
        BY <1>0, <1>3, <1>6 DEF Types
  <2> QED BY <1>4, <1>5, <1>6, <1>b, <2>1, <2>2, IdleKept, SameRegsRefl
<1>7. CASE d = c /\ walk' = walk
  <2>1. ch'[c] = regs /\ over'[c] = FALSE /\ walk'.on # c
        BY <1>0, <1>3, <1>4, <1>7 DEF Types
  <2>2. FreshAt(c, addr)
        BY <1>2, <2>1, IdleFresh
  <2>3. SentBy(c)' = SentBy(c)
        BY <1>4, <1>5, <1>7, <2>1, IdleView, IdleViewNext
  <2> QED BY <1>7, <1>b, <2>2, <2>3
<1>8. CASE d = c /\ walk' = Walk(c, regs)
  <2>1. /\ walk'.on = c /\ walk'.addr = addr /\ walk'.asp = 0 /\ walk'.buf = <<>>
        /\ walk' \in Walks
        BY <1>2, <1>8, WalkFacts
  <2>2. over'[c] = FALSE
        BY <1>0, <1>3 DEF Types
  <2>3. /\ Pc(c)' = walk'.addr /\ Stack(c)' = ReturnsOf(walk')
        /\ SentBy(c)' = Passed(c)' \o walk'.buf
        BY <2>1, BusyViewNext
  <2>4. ReturnsOf(walk') = <<>>
        BY <2>1, ReturnsFacts DEF Walks
  <2>5. FreshAt(c, addr)
        BY <2>1, <2>2, <2>3, <2>4 DEF FreshAt
  <2>6. SentBy(c)' = SentBy(c)
        BY <1>4, <1>5, <1>8, <2>1, <2>3, IdleView
  <2> QED BY <1>8, <1>b, <2>5, <2>6
<1> QED BY <1>3, <1>6, <1>7, <1>8

LEMMA ResumeSimple ==
    ASSUME IInv, NEW c \in Channels, Resume(c), NEW d \in Channels
    PROVE  Started(d)
<1> DEFINE regs == [ch[c] EXCEPT !.str = TRUE]
<1>0. Types
      BY DEF IInv
<1>1. regs \in Registers /\ SameRegs(regs, ch[c])
  <2>1. ch[c] \in Registers
        BY <1>0 DEF Types
  <2> DEFINE r == ch[c]
  <2> HIDE DEF r
  <2>2. r \in Registers
        BY <2>1 DEF r
  <2>3. [r EXCEPT !.str = TRUE] \in Registers /\ SameRegs([r EXCEPT !.str = TRUE], r)
        BY <2>2 DEF Registers, SameRegs, SameReturns
  <2> QED BY <2>3 DEF r
<1>2. /\ phase = "guest" /\ ch' = [ch EXCEPT ![c] = regs] /\ walk' = Walk(c, regs)
      /\ out' = out /\ fifo' = fifo /\ over' = over
      BY DEF Resume, CanStart
<1> HIDE DEF regs
<1>a. /\ started' = started + 1 /\ dmae' = dmae /\ asked'.c = c /\ asked'.what = "resume"
      /\ ~over[c]
      BY DEF Resume, Asks
<1>b. Same(d) => Started(d)
      BY <1>a DEF Started, Served
<1>3. walk.on # d /\ walk = NoWalk /\ walk.on # c
      BY <1>2, GuestIdle
<1>4. Passed(d)' = Passed(d)
      BY <1>2, PassedUnchanged
<1>5. /\ walk'.on = c /\ walk'.addr = regs.tadr /\ walk'.asp = regs.asp
      /\ walk'.asr0 = regs.asr0 /\ walk'.asr1 = regs.asr1 /\ walk'.buf = <<>>
      BY <1>1, <1>2, WalkFacts
<1>6. CASE d # c
  <2>1. walk'.on # d /\ ch'[d] = ch[d] /\ over'[d] = over[d]
        BY <1>0, <1>2, <1>5, <1>6 DEF Types
  <2> QED BY <1>3, <1>4, <1>b, <2>1, IdleKept, SameRegsRefl
<1>7. CASE d = c
  <2>1. /\ Pc(c)' = walk'.addr /\ Stack(c)' = ReturnsOf(walk')
        /\ SentBy(c)' = Passed(c)' \o walk'.buf
        BY <1>5, BusyViewNext
  <2>2. SameReturns(walk', ch[c]) /\ walk'.addr = ch[c].tadr
        BY <1>1, <1>5 DEF SameRegs, SameReturns
  <2>3. Pc(c) = ch[c].tadr /\ Stack(c) = ReturnsOf(ch[c]) /\ SentBy(c) = Passed(c) \o <<>>
        BY <1>3, IdleView
  <2>4. ReturnsOf(walk') = ReturnsOf(ch[c])
        BY <2>2, SameReturnsOf
  <2>5. Same(c)
        BY <1>2, <1>4, <1>5, <1>7, <2>1, <2>2, <2>3, <2>4 DEF Same
  <2> QED BY <1>7, <1>b, <2>5
<1> QED BY <1>6, <1>7

LEMMA StopSame ==
    ASSUME IInv, Stop, NEW d \in Channels
    PROVE  Same(d)
<1>0. /\ Types /\ Walking /\ HeldWhileMasked /\ Account(ledger, causes) /\ ledger \in Ledgers
      BY AccountKept DEF IInv
<1>1. phase = "walk" /\ walk' = NoWalk /\ over' = over /\ walk.on \in Channels
      BY <1>0 DEF Stop, Walking
<1> PICK c \in Channels : c = walk.on
    BY <1>1
<1> PICK b : b = walk.buf
    OBVIOUS
<1>2. /\ b \in Seq(Items)
      /\ Latched(c) \in Registers
      /\ Latched(c).tadr = walk.addr /\ SameReturns(Latched(c), walk)
      BY <1>0, <1>1, LatchedFacts DEF Types, Walking, Walks, SameReturns
<1>3. walk'.on # d /\ walk'.on # c
      BY <1>1, <1>2, NoWalkTyped DEF Channels
<1>4. /\ Passed(c)' = Passed(c) \o b
      /\ d # c => Passed(d)' = Passed(d) /\ ch'[d] = ch[d]
      /\ SameRegs(ch'[c], Latched(c))
  <2>1. CASE Complete(c, b, Latched(c))
    <3>1. /\ Passed(c)' = Passed(c) \o b
          /\ \A e \in Channels : e # c => Passed(e)' = Passed(e) /\ ch'[e] = ch[e]
          /\ SameRegs(ch'[c], Latched(c))
          BY <1>0, <1>2, <2>1, CompletePassed
    <3> QED BY <3>1
  <2>2. CASE /\ b = <<>> /\ ch' = [ch EXCEPT ![c] = Latched(c)]
             /\ out' = out /\ fifo' = fifo
    <3>1. ch'[c] = Latched(c) /\ (d # c => ch'[d] = ch[d])
          BY <1>0, <1>2, <2>2 DEF Types
    <3>2. Passed(c)' = Passed(c) /\ Passed(d)' = Passed(d)
          BY <2>2, PassedUnchanged
    <3>3. Passed(c)' = Passed(c) \o b
          BY <1>0, <1>2, <2>2, <3>2, PassedTyped
    <3> QED BY <3>1, <3>2, <3>3, SameRegsRefl
  <2> QED BY <2>1, <2>2 DEF Stop
<1>5. CASE d # c
      BY <1>1, <1>3, <1>4, <1>5, IdleKept, SameRegsRefl
<1>6. CASE d = c
  <2>1. /\ Pc(c)' = ch'[c].tadr /\ Stack(c)' = ReturnsOf(ch'[c])
        /\ SentBy(c)' = Passed(c)' \o <<>>
        BY <1>3, IdleViewNext
  <2>2. Pc(c) = walk.addr /\ Stack(c) = ReturnsOf(walk) /\ SentBy(c) = Passed(c) \o b
        BY BusyView
  <2>3. ReturnsOf(ch'[c]) = ReturnsOf(walk) /\ ch'[c].tadr = walk.addr
    <3>1. SameReturns(ch'[c], walk) /\ ch'[c].tadr = walk.addr
          BY <1>2, <1>4 DEF SameRegs, SameReturns
    <3> QED BY <3>1, SameReturnsOf
  <2>4. SentBy(c)' = SentBy(c)
    <3>1. Passed(c) \in Seq(Items)
          BY <1>0, <1>2, PassedTyped
    <3>2. Passed(c) \o b \in Seq(Items)
          BY <1>2, <3>1, Joined
    <3> QED BY <1>4, <2>1, <2>2, <3>2, Empties
  <2> QED BY <1>1, <1>6, <2>1, <2>2, <2>3, <2>4 DEF Same
<1> QED BY <1>5, <1>6

LEMMA DrainSame ==
    ASSUME IInv, Drain, NEW d \in Channels
    PROVE  Same(d)
<1>0. Types
      BY DEF IInv
<1>1. phase = "drain" /\ walk' = walk /\ over' = over /\ out' = out /\ fifo' = fifo
      BY DEF Drain
<1>2. ch' = ch \/ ch' = [ch EXCEPT ![by[1]].str = FALSE]
      BY DEF Drain
<1>3. SameRegs(ch'[d], ch[d])
  <2>1. by[1] \in Channels /\ ch[d] \in Registers
        BY <1>0 DEF Types
  <2>2. \A r \in Registers : SameRegs([r EXCEPT !.str = FALSE], r)
        BY DEF Registers, SameRegs, SameReturns
  <2>3. ch'[d] = ch[d] \/ ch'[d] = [ch[d] EXCEPT !.str = FALSE]
        BY <1>0, <1>2, <2>1 DEF Types
  <2> QED BY <2>1, <2>2, <2>3, SameRegsRefl
<1>4. walk.on # d /\ walk'.on # d
      BY <1>1, GuestIdle
<1>5. Passed(d)' = Passed(d)
      BY <1>1, PassedUnchanged
<1> QED BY <1>1, <1>3, <1>4, <1>5, IdleKept

LEMMA OtherSame ==
    ASSUME IInv, OtherCall, NEW d \in Channels
    PROVE  Same(d)
<1>0. Types
      BY DEF IInv
<1>1. phase = "guest" /\ walk' = walk /\ over' = over
      BY DEF OtherCall, WriteStat, WriteCtrl, MaskPath3, SetEnabled, ReadChcr, Call
<1>2. ch' = ch \/ \E c \in Channels : ch' = [ch EXCEPT ![c].str = FALSE]
      BY DEF OtherCall, WriteStat, WriteCtrl, MaskPath3, SetEnabled, ReadChcr
<1>3. SameRegs(ch'[d], ch[d])
  <2>1. ch[d] \in Registers
        BY <1>0 DEF Types
  <2>2. \A r \in Registers : SameRegs([r EXCEPT !.str = FALSE], r)
        BY DEF Registers, SameRegs, SameReturns
  <2>3. ch'[d] = ch[d] \/ ch'[d] = [ch[d] EXCEPT !.str = FALSE]
        BY <1>0, <1>2, <2>1 DEF Types
  <2> QED BY <2>1, <2>2, <2>3, SameRegsRefl
<1>4. walk.on # d /\ walk'.on # d
      BY <1>1, GuestIdle
<1>5. Passed(d)' = Passed(d)
  <2>1. CASE out' = out /\ fifo' = fifo
        BY <2>1, PassedUnchanged
  <2>2. CASE out' = [out EXCEPT !["GIF"] = @ \o fifo] /\ fifo' = <<>>
    <3>1. /\ out \in [Channels -> Seq(Items)] /\ out["GIF"] \in Seq(Items)
          /\ fifo \in Seq(Items) /\ "GIF" \in Channels
          BY <1>0 DEF Types, Channels
    <3>2. CASE d = "GIF"
      <4>1. out'[d] = out["GIF"] \o fifo
            BY <2>2, <3>1, <3>2
      <4>2. out["GIF"] \o fifo \in Seq(Items)
            BY <3>1, Joined
      <4>3. Held(d)' = <<>> /\ Held(d) = fifo
            BY <2>2, <3>2 DEF Held
      <4>4. (out["GIF"] \o fifo) \o <<>> = out["GIF"] \o fifo
            BY <4>2, Empties
      <4> QED BY <3>2, <4>1, <4>3, <4>4 DEF Passed
    <3>3. CASE d # "GIF"
      <4>1. out'[d] = out[d]
            BY <2>2, <3>1, <3>3
      <4>2. Held(d)' = <<>> /\ Held(d) = <<>>
            BY <3>3 DEF Held
      <4> QED BY <4>1, <4>2 DEF Passed
    <3> QED BY <3>2, <3>3
  <2> QED BY <2>1, <2>2 DEF OtherCall, WriteStat, WriteCtrl, MaskPath3, SetEnabled, ReadChcr
<1> QED BY <1>1, <1>3, <1>4, <1>5, IdleKept

LEMMA TurnSimple ==
    ASSUME IInv, Turn, NEW d \in Channels
    PROVE  Unstarted(d)
<1>0. Types /\ Walking
      BY DEF IInv
<1>1. /\ phase = "walk" /\ ~walk.stop /\ walk' = Turned(walk)
      /\ over' = [over EXCEPT ![walk.on] = Turned(walk).ended]
      /\ ch' = ch /\ out' = out /\ fifo' = fifo
      BY DEF Turn
<1>2. /\ walk \in Walks /\ walk.on \in Channels /\ over[walk.on] = walk.ended
      /\ walk.ended = FALSE /\ walk.count < MaxTags
      BY <1>0, <1>1 DEF Types, Walking, Walks
<1> PICK c \in Channels : c = walk.on
    BY <1>2
<1>3. /\ Pc(c) = walk.addr /\ Stack(c) = ReturnsOf(walk)
      /\ SentBy(c) = Passed(c) \o walk.buf
      BY BusyView
<1>4. Passed(c)' = Passed(c) /\ Passed(d)' = Passed(d)
      BY <1>1, PassedUnchanged
<1>5. over'[c] = Turned(walk).ended /\ (d # c => over'[d] = over[d])
      BY <1>0, <1>1 DEF Types
<1>6. dmae /\ UNCHANGED <<dmae, started, asked>>
      BY <1>0 DEF Turn, Walking
<1>a. Same(d) \/ Stepped(d) => Unstarted(d)
      BY <1>6 DEF Unstarted
<1>b. CASE d # c /\ walk'.on = c
      BY <1>1, <1>4, <1>5, <1>a, <1>b, IdleKept, SameRegsRefl
<1>7. CASE d = c /\ walk.addr \notin DOMAIN mem
  <2>1. /\ walk'.on = c /\ walk'.addr = walk.addr /\ SameReturns(walk', walk)
        /\ walk'.buf = walk.buf /\ walk'.ended = walk.ended
        BY <1>1, <1>2, <1>7, OutsideFacts DEF SameReturns
  <2>2. /\ Pc(c)' = walk'.addr /\ Stack(c)' = ReturnsOf(walk')
        /\ SentBy(c)' = Passed(c)' \o walk'.buf
        BY <2>1, BusyViewNext
  <2>3. ReturnsOf(walk') = ReturnsOf(walk)
        BY <2>1, SameReturnsOf
  <2>4. over'[c] = over[c]
        BY <1>1, <1>2, <1>5, <2>1
  <2> QED BY <1>3, <1>4, <1>7, <1>a, <2>1, <2>2, <2>3, <2>4 DEF Same
<1>8. CASE d = c /\ walk.addr \in DOMAIN mem
  <2> DEFINE t == mem[walk.addr]
             f == Followed(walk, t)
  <2>1. /\ IsTag(t) /\ walk'.on = walk.on
        /\ walk'.addr = f.addr /\ walk'.asp = f.asp /\ walk'.asr0 = f.asr0
        /\ walk'.asr1 = f.asr1
        /\ walk'.ended = f.ended
        /\ walk'.buf = walk.buf \o Carried(walk, t)
        BY <1>0, <1>1, <1>2, <1>8, TurnedFacts
  <2>2. /\ Pc(c)' = walk'.addr /\ Stack(c)' = ReturnsOf(walk')
        /\ SentBy(c)' = Passed(c)' \o walk'.buf
    <3>1. walk'.on = c
          BY <2>1
    <3> QED BY <3>1, BusyViewNext
  <2>3. f.addr = PcAfter(t, walk.addr, ReturnsOf(walk))
        BY <1>2, <2>1, PcFollowed
  <2>4. ReturnsOf(f) = StackAfter(t, walk.addr, ReturnsOf(walk))
        BY <1>2, <2>1, StackFollowed
  <2>5. ReturnsOf(walk') = ReturnsOf(f)
    <3>1. SameReturns(walk', f)
          BY <2>1 DEF SameReturns
    <3> QED BY <3>1, SameReturnsOf
  <2>6. f.ended = EndAfter(t, ReturnsOf(walk))
    <3>1. f.ended = (walk.ended \/ t.id \in {"Refe", "End"} \/ (t.id = "Ret" /\ walk.asp = 0))
          BY <1>2, <2>1, FollowedFacts
    <3>2. Len(ReturnsOf(walk)) = walk.asp
          BY <1>2, ReturnsFacts DEF Walks
    <3>3. f.ended = (FALSE \/ t.id \in {"Refe", "End"} \/ (t.id = "Ret" /\ walk.asp = 0))
          BY ONLY <1>2, <3>1, Zenon
    <3> HIDE DEF f, t
    <3>4. f.ended = (t.id \in {"Refe", "End"} \/ (t.id = "Ret" /\ Len(ReturnsOf(walk)) = 0))
          BY ONLY <3>2, <3>3, Zenon
    <3> QED BY <3>4 DEF EndAfter
  <2>7. Carried(walk, t) = Payload(c, walk.addr, t)
        BY DEF Carried, Payload
  <2>8. SentBy(c)' = SentBy(c) \o Carried(walk, t)
    <3>1. Passed(c) \in Seq(Items) /\ walk.buf \in Seq(Items)
          BY <1>0, <1>2, PassedTyped DEF Walks
    <3>2. Carried(walk, t) \in Seq(Items)
          BY <1>0, <1>2, <1>8, CarriedTyped
    <3>3. Passed(c) \o (walk.buf \o Carried(walk, t)) = (Passed(c) \o walk.buf) \o Carried(walk, t)
          BY <3>1, <3>2, Associative
    <3> QED BY <1>3, <1>4, <2>1, <2>2, <3>3
  <2>9. ~over[c] /\ over'[c] = EndAfter(t, ReturnsOf(walk))
        BY <1>1, <1>2, <1>5, <2>1, <2>6
  <2> HIDE DEF f
  <2>10. Stepped(c)
        BY <1>3, <1>8, <2>1, <2>2, <2>3, <2>4, <2>5, <2>7, <2>8, <2>9 DEF Stepped
  <2> QED BY <1>8, <1>a, <2>10
<1>9. walk'.on = c
  <2>1. CASE walk.addr \in DOMAIN mem
        BY <1>0, <1>1, <1>2, <2>1, TurnedFacts
  <2>2. CASE walk.addr \notin DOMAIN mem
        BY <1>1, <1>2, <2>2, OutsideFacts
  <2> QED BY <2>1, <2>2
<1> QED BY <1>7, <1>8, <1>9, <1>b

(***************************************************************************)
(* A short cut is a whole chain of the GIF's source chain channel.         *)
(***************************************************************************)
DealAgain(s) == IF s.ended \/ s.pc \notin DOMAIN mem THEN s ELSE GifSource!Dealt(s)

LEMMA ChainExists ==
    ASSUME NEW s0, Size \in Nat
    PROVE  \E f : f = [n \in 0 .. Size |-> IF n = 0 THEN s0 ELSE DealAgain(f[n - 1])]
<1> DEFINE Upto(n, f) == /\ f = [i \in 0 .. n |-> f[i]]
                         /\ f[0] = s0
                         /\ \A i \in 1 .. n : f[i] = DealAgain(f[i - 1])
           N == {n \in Nat : \E f : Upto(n, f)}
<1>1. 0 \in N
  <2> DEFINE e == [i \in 0 .. 0 |-> s0]
  <2>1. e = [i \in 0 .. 0 |-> e[i]] /\ e[0] = s0
        OBVIOUS
  <2>2. \A i \in 1 .. 0 : e[i] = DealAgain(e[i - 1])
        OBVIOUS
  <2>3. Upto(0, e)
        BY <2>1, <2>2
  <2> QED BY <2>3
<1>2. ASSUME NEW n \in N PROVE n + 1 \in N
  <2>1. n \in Nat
        OBVIOUS
  <2>2. PICK f : Upto(n, f)
        OBVIOUS
  <2> DEFINE g == [i \in 0 .. n + 1 |-> IF i = n + 1 THEN DealAgain(f[n]) ELSE f[i]]
  <2>3. g[n + 1] = DealAgain(f[n])
        BY <2>1
  <2>4. \A i \in 0 .. n : g[i] = f[i]
        BY <2>1
  <2>5. g = [i \in 0 .. n + 1 |-> g[i]]
        OBVIOUS
  <2> HIDE DEF g
  <2>6. g[0] = s0
        BY <2>1, <2>2, <2>4
  <2>7. ASSUME NEW i \in 1 .. n + 1 PROVE g[i] = DealAgain(g[i - 1])
    <3>1. CASE i = n + 1
      <4>1. i - 1 = n /\ n \in 0 .. n
            BY <2>1, <3>1
      <4> QED BY <2>3, <2>4, <3>1, <4>1
    <3>2. CASE i # n + 1
      <4>1. i \in 1 .. n /\ i \in 0 .. n /\ i - 1 \in 0 .. n
            BY <2>1, <3>2
      <4>2. f[i] = DealAgain(f[i - 1])
            BY <2>2, <4>1
      <4> QED BY <2>4, <4>1, <4>2
    <3> QED BY <3>1, <3>2
  <2>8. Upto(n + 1, g)
        BY <2>5, <2>6, <2>7
  <2>9. n + 1 \in Nat
        BY <2>1
  <2>10. \E h : Upto(n + 1, h)
        BY <2>8
  <2> HIDE DEF Upto
  <2> QED BY <2>9, <2>10
<1>3. N = Nat
  <2>1. N \in SUBSET Nat
        OBVIOUS
  <2> HIDE DEF N
  <2> QED BY <1>1, <1>2, <2>1, SetInduction
<1>4. PICK f : Upto(Size, f)
      BY <1>3
<1>5. f = [i \in 0 .. Size |-> IF i = 0 THEN s0 ELSE DealAgain(f[i - 1])]
  <2>1. \A i \in 0 .. Size : f[i] = IF i = 0 THEN s0 ELSE DealAgain(f[i - 1])
    <3>1. \A i \in 0 .. Size : i = 0 \/ i \in 1 .. Size
          OBVIOUS
    <3> QED BY <1>4, <3>1
  <2> QED BY <1>4, <2>1
<1> QED BY <1>5

Deals(f, s0) == f[0] = s0 /\ \A n \in 1 .. Size : f[n] = DealAgain(f[n - 1])

LEMMA EndedStays ==
    ASSUME Size \in Nat, NEW f, NEW s0, Deals(f, s0), NEW k \in 0 .. Size, f[k].ended
    PROVE  f[Size] = f[k]
<1> DEFINE N == {n \in Nat : k =< n /\ n =< Size => f[n] = f[k]}
<1>0. k \in Nat /\ k =< Size
      OBVIOUS
<1>1. 0 \in N
      BY <1>0
<1>2. ASSUME NEW n \in N PROVE n + 1 \in N
  <2>1. n \in Nat /\ n + 1 \in Nat /\ (n + 1) - 1 = n
        OBVIOUS
  <2>2. CASE k =< n /\ n + 1 =< Size
    <3>1. f[n] = f[k] /\ n + 1 \in 1 .. Size
          BY <1>0, <2>1, <2>2
    <3>2. f[n + 1] = DealAgain(f[n])
          BY <2>1, <3>1 DEF Deals
    <3>3. f[n + 1] = f[k]
          BY <3>1, <3>2 DEF DealAgain
    <3> QED BY <2>1, <3>3
  <2>3. CASE ~(k =< n /\ n + 1 =< Size)
    <3>1. k =< n + 1 /\ n + 1 =< Size => n + 1 = k
          BY <1>0, <2>1, <2>3
    <3> QED BY <2>1, <3>1
  <2> QED BY <2>2, <2>3
<1>3. N = Nat
  <2>1. N \in SUBSET Nat
        OBVIOUS
  <2> HIDE DEF N
  <2> QED BY <1>1, <1>2, <2>1, SetInduction
<1> QED BY <1>0, <1>3

\* A channel that has no return addresses, and one tag that is not CALL or RET.
View(pc, sent, ended) == [pc |-> pc, stack |-> <<>>, sent |-> sent, ended |-> ended]

LEMMA ViewDealt ==
    ASSUME Types, NEW pc \in DOMAIN mem, NEW sent \in Seq(Items)
    PROVE  LET t == mem[pc]
               r == DealAgain(View(pc, sent, FALSE))
           IN  /\ t.id = "Cnt" => r = View(pc + 1 + t.qwc, sent \o Data(pc + 1, t.qwc), FALSE)
               /\ t.id = "Ref" => r = View(pc + 1, sent \o Data(t.addr, t.qwc), FALSE)
               /\ t.id = "Refe" => r = View(pc + 1, sent \o Data(t.addr, t.qwc), TRUE)
               /\ t.id = "End" => r = View(pc, sent \o Data(pc + 1, t.qwc), TRUE)
<1> DEFINE t == mem[pc]
           s == View(pc, sent, FALSE)
           r == GifSource!Dealt(s)
           k == IF Local(t) THEN pc + 1 ELSE t.addr
<1>1. s.pc = pc /\ s.stack = <<>> /\ s.sent = sent /\ s.ended = FALSE
      BY DEF View
<1> HIDE DEF s
<1>2. DealAgain(s) = r
      BY <1>1 DEF DealAgain
<1>3. r.sent = sent \o Data(k, t.qwc)
  <2>1. r.sent = sent \o GifSource!Payload(s, t)
        BY <1>1 DEF GifSource!Dealt
  <2>2. GifSource!Payload(s, t) = <<>> \o Data(k, t.qwc)
    <3>1. CASE Local(t)
      <4>1. GifSource!Local(t)
            BY <3>1 DEF Local, GifSource!Local
      <4> QED BY <1>1, <3>1, <4>1, GifQuads DEF GifSource!Payload
    <3>2. CASE ~Local(t)
      <4>1. ~GifSource!Local(t)
            BY <3>2 DEF Local, GifSource!Local
      <4> QED BY <1>1, <3>2, <4>1, GifQuads DEF GifSource!Payload
    <3> QED BY <3>1, <3>2
  <2>3. Data(k, t.qwc) \in Seq(Items)
    <3>1. /\ pc + 1 \in Nat /\ t.addr \in Nat /\ t.qwc \in Nat /\ Size > 0
          BY MemoryFacts
    <3>2. k \in Nat
          BY <3>1
    <3> HIDE DEF k
    <3> QED BY <3>1, <3>2, DataFacts
  <2> HIDE DEF k
  <2> QED BY <2>1, <2>2, <2>3, Empties
<1>4. /\ t.id = "Cnt" => r.pc = pc + 1 + t.qwc /\ r.stack = <<>> /\ r.ended = FALSE
      /\ t.id = "Ref" => r.pc = pc + 1 /\ r.stack = <<>> /\ r.ended = FALSE
      /\ t.id = "Refe" => r.pc = pc + 1 /\ r.stack = <<>> /\ r.ended = TRUE
      /\ t.id = "End" => r.pc = pc /\ r.stack = <<>> /\ r.ended = TRUE
      BY <1>1 DEF GifSource!Dealt
<1>5. r = [pc |-> r.pc, stack |-> r.stack, sent |-> r.sent, ended |-> r.ended]
      BY DEF GifSource!Dealt
<1>6. /\ t.id \in {"Cnt", "End"} => k = pc + 1
      /\ t.id \in {"Ref", "Refe"} => k = t.addr
      BY DEF Local
<1> HIDE DEF r, k, t
<1>7. /\ t.id = "Cnt" => r = View(pc + 1 + t.qwc, sent \o Data(pc + 1, t.qwc), FALSE)
      /\ t.id = "Ref" => r = View(pc + 1, sent \o Data(t.addr, t.qwc), FALSE)
      /\ t.id = "Refe" => r = View(pc + 1, sent \o Data(t.addr, t.qwc), TRUE)
      /\ t.id = "End" => r = View(pc, sent \o Data(pc + 1, t.qwc), TRUE)
      BY <1>3, <1>4, <1>5, <1>6 DEF View
<1> QED BY <1>2, <1>7 DEF s, t

ShortRun(a, sent, f) ==
    f[Size] = View(ShortResult(a).addr, sent \o ShortResult(a).buf, TRUE)

LEMMA PackedChainRun ==
    ASSUME Types, NEW a \in Starts, PackedChain(a), NEW sent \in Seq(Items),
           NEW f, Deals(f, View(a, sent, FALSE))
    PROVE  ShortRun(a, sent, f)
<1> DEFINE u == Data(a + 1, mem[a].qwc)
           r == ShortResult(a)
<1>1. /\ a \in Nat /\ a + 1 \in Nat /\ Size \in Nat /\ Size > 0 /\ a \in DOMAIN mem
      BY StartsTyped, MemoryFacts
<1>2. mem[a].id = "End" /\ mem[a].qwc > 0 /\ mem[a].qwc \in Nat
      BY <1>1, MemoryFacts DEF PackedChain
<1>4. r.addr = a /\ r.buf = u
      BY DEF ShortResult
<1> HIDE DEF u, r
<1>5. f[1] = View(a, sent \o u, TRUE)
  <2>1. f[0] = View(a, sent, FALSE)
        BY DEF Deals
  <2>2. 1 \in 1 .. Size /\ 1 - 1 = 0
        BY <1>1
  <2>3. f[1] = DealAgain(f[0])
        BY <2>2 DEF Deals
  <2> QED BY <1>1, <1>2, <2>1, <2>3, ViewDealt DEF u
<1>6. f[Size] = f[1]
  <2>1. 1 \in 0 .. Size /\ f[1].ended
        BY <1>1, <1>5 DEF View
  <2> QED BY <1>1, <2>1, EndedStays
<1> QED BY <1>4, <1>5, <1>6 DEF ShortRun, r

LEMMA ImageChainRun ==
    ASSUME Types, NEW a \in Starts, ImageChain(a), ~PackedChain(a), NEW sent \in Seq(Items),
           NEW f, Deals(f, View(a, sent, FALSE))
    PROVE  ShortRun(a, sent, f)
<1> DEFINE i == ImageTag(a)
           d == DataTag(a)
           u1 == Data(a + 1, SetupQwc)
           u2 == Data(i + 1, 1)
           r == ShortResult(a)
<1>1. /\ a \in Nat /\ Size \in Nat /\ Size > 0
      /\ SetupQwc \in Nat /\ SetupQwc > 0 /\ DOMAIN mem = 0 .. Size - 1
      BY StartsTyped, MemoryFacts, ChainAssumption
<1>2. /\ i \in Nat /\ d \in Nat /\ i = a + 1 + SetupQwc /\ d = i + 2 /\ i + 1 + 1 = d
      BY <1>1 DEF ImageTag, DataTag
<1>3. /\ mem[a].id = "Cnt" /\ mem[a].qwc = SetupQwc
      /\ mem[i].id = "Cnt" /\ mem[i].qwc = 1
      /\ There(a, 1) /\ There(i, 1) /\ There(d, 1)
      BY DEF ImageChain, TagAt
<1>4. \/ /\ mem[d].id = "Ref" /\ There(d + 1, 1) /\ mem[d + 1].id \in {"Refe", "End"}
         /\ mem[d + 1].qwc = 0
      \/ mem[d].id = "End"
      BY DEF ImageChain, TagAt
<1>5. a \in DOMAIN mem /\ i \in DOMAIN mem /\ d \in DOMAIN mem
      BY <1>1, <1>2, <1>3 DEF There
<1>6. mem[d].addr \in Nat /\ mem[d].qwc \in Nat
      BY <1>5, MemoryFacts
<1>7. u1 \in Seq(Items) /\ u2 \in Seq(Items)
  <2> HIDE DEF i, d
  <2>1. 1 \in Nat /\ a + 1 \in Nat /\ i + 1 \in Nat
        BY <1>1, <1>2
  <2> QED BY <1>1, <2>1, DataFacts
<1>9. r.buf = u1 \o u2 \o (IF mem[d].id = "End" THEN Data(d + 1, mem[d].qwc) ELSE Data(mem[d].addr, mem[d].qwc))
      BY DEF ShortResult
<1>10. r.addr = IF mem[d].id = "End" THEN d ELSE IF mem[d + 1].id = "Refe" THEN d + 2 ELSE d + 1
      BY DEF ShortResult
<1> HIDE DEF i, d, u1, u2, r
<1>11. f[0] = View(a, sent, FALSE) /\ \A n \in 1 .. Size : f[n] = DealAgain(f[n - 1])
      BY DEF Deals
<1>12. Size > 4
      BY <1>1, <1>2, <1>3 DEF There
<1>13. /\ f[1] = DealAgain(f[0]) /\ f[2] = DealAgain(f[1])
       /\ f[3] = DealAgain(f[2]) /\ f[4] = DealAgain(f[3])
  <2>1. /\ 1 \in 1 .. Size /\ 2 \in 1 .. Size /\ 3 \in 1 .. Size /\ 4 \in 1 .. Size
        /\ 1 - 1 = 0 /\ 2 - 1 = 1 /\ 3 - 1 = 2 /\ 4 - 1 = 3
        BY <1>1, <1>12
  <2> QED BY <1>11, <2>1
<1>14. f[1] = View(i, sent \o u1, FALSE)
  <2>1. f[1] = View(a + 1 + mem[a].qwc, sent \o Data(a + 1, mem[a].qwc), FALSE)
        BY <1>3, <1>5, <1>11, <1>13, ViewDealt
  <2> QED BY <1>2, <1>3, <2>1 DEF u1
<1>15. f[2] = View(d, (sent \o u1) \o u2, FALSE)
  <2>1. sent \o u1 \in Seq(Items)
        BY <1>7, Joined
  <2>2. f[2] = View(i + 1 + mem[i].qwc, (sent \o u1) \o Data(i + 1, mem[i].qwc), FALSE)
        BY <1>3, <1>5, <1>13, <1>14, <2>1, ViewDealt
  <2> QED BY <1>2, <1>3, <2>2 DEF u2
<1>16. u1 \o u2 \in Seq(Items) /\ (sent \o u1) \o u2 \in Seq(Items)
       /\ (sent \o u1) \o u2 = sent \o (u1 \o u2)
  <2>1. u1 \o u2 \in Seq(Items) /\ sent \o u1 \in Seq(Items)
        BY <1>7, Joined
  <2>2. (sent \o u1) \o u2 \in Seq(Items) /\ (sent \o u1) \o u2 = sent \o (u1 \o u2)
        BY <1>7, <2>1, Joined, Associative
  <2> QED BY <2>1, <2>2
\* The third part, wherever it lies.
<1>17. ASSUME NEW u \in Seq(Items)
       PROVE  ((sent \o u1) \o u2) \o u = sent \o ((u1 \o u2) \o u)
  <2> DEFINE v == u1 \o u2
  <2>1. v \in Seq(Items) /\ (sent \o u1) \o u2 = sent \o v
        BY <1>16
  <2> HIDE DEF v
  <2>2. (sent \o v) \o u = sent \o (v \o u)
        BY <2>1, Associative
  <2> QED BY <2>1, <2>2 DEF v
<1>18. CASE mem[d].id = "End"
  <2> DEFINE u3 == Data(d + 1, mem[d].qwc)
  <2>1. u3 \in Seq(Items)
    <3>1. d + 1 \in Nat
          BY <1>2
    <3> QED BY <1>1, <1>6, <3>1, DataFacts
  <2>2. f[3] = View(d, ((sent \o u1) \o u2) \o u3, TRUE)
        BY <1>3, <1>5, <1>13, <1>15, <1>16, <1>18, ViewDealt
  <2>3. r.buf = (u1 \o u2) \o u3 /\ r.addr = d
        BY <1>9, <1>10, <1>18
  <2> HIDE DEF u3
  <2>4. f[Size] = f[3]
    <3>1. 3 \in 0 .. Size /\ f[3].ended
          BY <1>1, <1>12, <2>2 DEF View
    <3> QED BY <1>1, <3>1, EndedStays
  <2>5. ((sent \o u1) \o u2) \o u3 = sent \o r.buf
        BY <1>17, <2>1, <2>3
  <2> QED BY <2>2, <2>3, <2>4, <2>5 DEF ShortRun, r
<1>19. CASE mem[d].id # "End"
  <2> DEFINE u3 == Data(mem[d].addr, mem[d].qwc)
             s3 == ((sent \o u1) \o u2) \o u3
             last == d + 1
  <2>1. u3 \in Seq(Items)
        BY <1>1, <1>6, DataFacts
  <2>2. f[3] = View(last, s3, FALSE)
        BY <1>3, <1>4, <1>5, <1>13, <1>15, <1>16, <1>19, ViewDealt
  <2>3. r.buf = (u1 \o u2) \o u3
        /\ r.addr = IF mem[last].id = "Refe" THEN d + 2 ELSE last
        BY <1>9, <1>10, <1>19
  <2>4. last \in DOMAIN mem /\ last \in Nat /\ last + 1 = d + 2 /\ mem[last].addr \in Nat
    <3>1. last \in DOMAIN mem /\ last \in Nat /\ last + 1 = d + 2
          BY <1>1, <1>2, <1>4, <1>19 DEF There
    <3> HIDE DEF last
    <3> QED BY <3>1, MemoryFacts
  <2>5. mem[last].id \in {"Refe", "End"} /\ mem[last].qwc = 0
        BY <1>4, <1>19
  <2>6. s3 \in Seq(Items)
    <3> HIDE DEF u3
    <3> QED BY <1>16, <2>1, Joined
  <2> HIDE DEF u3, s3, last
  <2>7. f[4] = View(r.addr, s3, TRUE)
    <3>1. \A b \in Nat : s3 \o Data(b, 0) = s3
      <4>1. ASSUME NEW b \in Nat PROVE s3 \o Data(b, 0) = s3
        <5>1. Data(b, 0) = <<>>
              BY DEF Data
        <5> QED BY <2>6, <5>1, Empties
      <4> QED BY <4>1
    <3>2. last + 1 \in Nat
          BY <2>4
    <3>3. CASE mem[last].id = "Refe"
      <4>1. f[4] = View(last + 1, s3 \o Data(mem[last].addr, 0), TRUE)
            BY <1>13, <2>2, <2>4, <2>5, <2>6, <3>3, ViewDealt
      <4> QED BY <2>3, <2>4, <3>1, <3>3, <4>1
    <3>4. CASE mem[last].id = "End"
      <4>1. f[4] = View(last, s3 \o Data(last + 1, 0), TRUE)
            BY <1>13, <2>2, <2>4, <2>5, <2>6, <3>4, ViewDealt
      <4> QED BY <2>3, <3>1, <3>2, <3>4, <4>1
    <3> QED BY <2>5, <3>3, <3>4
  <2>8. f[Size] = f[4]
    <3>1. 4 \in 0 .. Size /\ f[4].ended
          BY <1>1, <1>12, <2>7 DEF View
    <3> QED BY <1>1, <3>1, EndedStays
  <2>9. s3 = sent \o r.buf
        BY <1>17, <2>1, <2>3 DEF s3
  <2> QED BY <2>7, <2>8, <2>9 DEF ShortRun, r
<1> QED BY <1>18, <1>19

LEMMA ShortChain ==
    ASSUME Types, NEW a \in Starts, ShortCut(a), NEW sent \in Seq(Items),
           NEW f, Deals(f, View(a, sent, FALSE))
    PROVE  ShortRun(a, sent, f)
BY PackedChainRun, ImageChainRun DEF ShortCut

(***************************************************************************)
(* The refinement.                                                         *)
(***************************************************************************)
LEMMA WholeRun ==
    ASSUME Types, dmae, NEW a \in DOMAIN mem, NEW last,
           \A f : Deals(f, View(a, SentBy("GIF"), FALSE)) => f[Size] = last,
           last = View(Pc("GIF")', SentBy("GIF")', TRUE), Stack("GIF")' = <<>>,
           over'["GIF"] = TRUE
    PROVE  GifSource!WholeChain(a)
<1> DEFINE s0 == [pc |-> a, stack |-> <<>>, sent |-> SentBy("GIF"), ended |-> FALSE]
           IsRun(f) == f = [n \in 0 .. Size |->
                               IF n = 0 THEN s0
                               ELSE LET r == f[n - 1]
                                    IN  IF r.ended \/ r.pc \notin DOMAIN mem THEN r
                                        ELSE GifSource!Dealt(r)]
           f == CHOOSE f : IsRun(f)
<1>0. Size \in Nat
      BY MemoryFacts
<1>1. \E g : IsRun(g)
      BY <1>0, ChainExists DEF DealAgain
<1>2. IsRun(f)
      BY <1>1
<1>3. f = CHOOSE g : IsRun(g)
      OBVIOUS
<1> HIDE DEF f
<1>4. \A n \in 0 .. Size : f[n] = IF n = 0 THEN s0 ELSE DealAgain(f[n - 1])
      BY <1>2 DEF DealAgain
<1>5. 0 \in 0 .. Size /\ \A n \in 1 .. Size : n \in 0 .. Size /\ n # 0
      BY <1>0
<1>6. Deals(f, s0)
      BY <1>4, <1>5 DEF Deals
<1>7. f[Size] = last
      BY <1>6 DEF View
<1>8. /\ last.ended = TRUE /\ last.pc = Pc("GIF")' /\ last.stack = <<>>
      /\ last.sent = SentBy("GIF")'
      BY DEF View
<1>9. GifSource!Becomes(f[Size]) /\ f[Size].ended
      BY <1>7, <1>8 DEF GifSource!Becomes, Pc, Stack
<1> HIDE DEF s0
<1> QED BY <1>3, <1>9, GifSize DEF GifSource!WholeChain, s0

LEMMA KickShortSimple ==
    ASSUME IInv, NEW addr \in Starts, NEW s \in Stats, KickShort(addr, s)
    PROVE  Started("VIF1") /\ GifSource!Start
<1> DEFINE r == ShortResult(addr)
           w == Written("GIF", FALSE, 0, addr, 0)
           regs == [w EXCEPT !.tadr = r.addr, !.tag = r.tag, !.asr0 = 0, !.asr1 = 0]
           last == [regs EXCEPT !.str = FALSE]
<1>0. Types /\ Walking /\ HeldWhileMasked
      BY DEF IInv
<1>1. /\ phase = "guest" /\ ~masked /\ dmae /\ ShortCut(addr) /\ (ImageChain(addr) \/ PackedChain(addr))
      /\ out' = [out EXCEPT !["GIF"] = @ \o r.buf] /\ ch' = [ch EXCEPT !["GIF"] = last]
      /\ over' = [over EXCEPT !["GIF"] = TRUE]
      /\ UNCHANGED <<mem, walk, masked, fifo>>
      BY DEF KickShort, CanStart, ShortCut, Open
<1>2. /\ "GIF" \in Channels /\ "VIF1" \in Channels /\ addr \in Nat /\ addr \in DOMAIN mem
      /\ 0 \in Nat /\ FALSE \in BOOLEAN
      /\ out["GIF"] \in Seq(Items)
      BY <1>0, StartsTyped, MemoryFacts DEF Types, Channels
<1>3. /\ r.addr \in Nat /\ r.tag \in Tags /\ r.buf \in Seq(Items)
      BY <1>0, <1>1, ShortFacts
<1>4. w \in Registers /\ w.asp = 0
  <2>1. ASSUME NEW tie \in BOOLEAN
        PROVE  LET q == Written("GIF", tie, 0, addr, 0) IN q \in Registers /\ q.asp = 0
        BY <1>0, <1>2, WrittenRegisters
  <2> QED BY ONLY <1>2, <2>1, Zenon
<1> HIDE DEF r, w
<1>5. regs \in Registers /\ regs.tadr = r.addr /\ regs.asp = 0
      BY <1>2, <1>3, <1>4 DEF Registers, Tags
<1> HIDE DEF regs
<1>6. last \in Registers /\ last.tadr = r.addr /\ last.asp = 0
      BY <1>5 DEF Registers
<1> HIDE DEF last
<1>7. walk.on # "GIF" /\ walk.on # "VIF1" /\ walk'.on # "GIF" /\ walk'.on # "VIF1"
      BY <1>1, <1>2, GuestIdle
<1>8. Same("VIF1")
  <2>1. ch'["VIF1"] = ch["VIF1"] /\ over'["VIF1"] = over["VIF1"] /\ out'["VIF1"] = out["VIF1"]
        BY <1>0, <1>1, <1>2 DEF Types
  <2>2. Passed("VIF1")' = Passed("VIF1")
        BY <1>1, <2>1, PassedUnchanged
  <2> QED BY <1>7, <2>1, <2>2, IdleKept, SameRegsRefl
<1>9. ch'["GIF"] = last /\ over'["GIF"] = TRUE /\ out'["GIF"] = out["GIF"] \o r.buf
      BY <1>0, <1>1, <1>2 DEF Types
<1>10. fifo = <<>> /\ fifo' = <<>>
      BY <1>0, <1>1 DEF HeldWhileMasked
<1>11. SentBy("GIF") = out["GIF"] /\ SentBy("GIF") \in Seq(Items)
  <2>1. Passed("GIF") = out["GIF"] \o <<>>
        BY <1>10 DEF Passed, Held
  <2>2. SentBy("GIF") = (out["GIF"] \o <<>>) \o <<>>
        BY <1>7, <2>1, IdleView
  <2> QED BY <1>2, <2>2, Empties
<1>12. SentBy("GIF")' = SentBy("GIF") \o r.buf
  <2>1. Passed("GIF")' = out'["GIF"] \o <<>>
        BY <1>10 DEF Passed, Held
  <2>2. SentBy("GIF")' = (out'["GIF"] \o <<>>) \o <<>>
        BY <1>7, <2>1, IdleViewNext
  <2>3. out["GIF"] \o r.buf \in Seq(Items)
        BY <1>2, <1>3, Joined
  <2>4. out'["GIF"] \o <<>> = out'["GIF"]
        BY <1>9, <2>3, Empties
  <2> QED BY <1>9, <1>11, <2>2, <2>4
<1>13. Pc("GIF")' = r.addr /\ Stack("GIF")' = <<>>
  <2>1. Pc("GIF")' = last.tadr /\ Stack("GIF")' = ReturnsOf(last)
        BY <1>7, <1>9, IdleViewNext
  <2>2. last.asr0 \in Nat /\ last.asr1 \in Nat /\ last.asp \in 0 .. 2
        BY <1>6 DEF Registers
  <2> QED BY <1>6, <2>1, <2>2, ReturnsFacts
<1>14. ASSUME NEW f, Deals(f, View(addr, SentBy("GIF"), FALSE))
       PROVE  ShortRun(addr, SentBy("GIF"), f)
       BY <1>0, <1>1, <1>11, <1>14, ShortChain
<1>15. \A f : Deals(f, View(addr, SentBy("GIF"), FALSE)) =>
          f[Size] = View(Pc("GIF")', SentBy("GIF")', TRUE)
       BY <1>12, <1>13, <1>14 DEF ShortRun, r
<1>16. GifSource!WholeChain(addr)
       BY <1>0, <1>1, <1>2, <1>9, <1>13, <1>15, WholeRun
<1>17. /\ started' = started + 1 /\ dmae' = dmae /\ asked'.c = "GIF" /\ asked'.what = "chain"
       /\ asked'.addr = addr /\ mem' = mem
       BY DEF KickShort, Asks
<1>18. Started("VIF1")
       BY <1>8, <1>17 DEF Started
<1>19. GifSource!Start
       BY <1>16, <1>17 DEF GifSource!Start
<1> QED BY <1>18, <1>19

LEMMA Vif1Size ==
    Vif1Source!Size = Size
BY DEF Vif1Source!Size, Size, Vif1Source!Cardinality, Cardinality

LEMMA Vif1Quads ==
    ASSUME NEW a, NEW n
    PROVE  Vif1Source!Quads(a, n) = Data(a, n)
BY Vif1Size DEF Vif1Source!Quads, Data

LEMMA Vif1Step ==
    ASSUME Stepped("VIF1"), dmae, UNCHANGED <<mem, dmae, started, asked>>
    PROVE  Vif1Source!Step
<1> DEFINE s == [pc |-> Pc("VIF1"), stack |-> Stack("VIF1"), sent |-> SentBy("VIF1"),
                 ended |-> over["VIF1"]]
           r == Vif1Source!Dealt(s)
           t == mem[Pc("VIF1")]
<1>1. s.pc = Pc("VIF1") /\ s.stack = Stack("VIF1") /\ s.sent = SentBy("VIF1")
      BY DEF s
<1> HIDE DEF s
<1>2. r.pc = PcAfter(t, Pc("VIF1"), Stack("VIF1"))
      BY <1>1 DEF Vif1Source!Dealt, PcAfter
<1>3. r.stack = StackAfter(t, Pc("VIF1"), Stack("VIF1"))
      BY <1>1 DEF Vif1Source!Dealt, StackAfter
<1>4. r.sent = SentBy("VIF1") \o Payload("VIF1", Pc("VIF1"), t)
  <2>1. r.sent = SentBy("VIF1") \o Vif1Source!Payload(s, t)
        BY <1>1 DEF Vif1Source!Dealt
  <2>2. CASE Local(t)
    <3>1. Vif1Source!Local(t)
          BY <2>2 DEF Local, Vif1Source!Local
    <3>2. Vif1Source!Payload(s, t)
             = <<<<"upper", Pc("VIF1")>>>> \o Data(Pc("VIF1") + 1, t.qwc)
          BY <1>1, <3>1, Vif1Quads DEF Vif1Source!Payload
    <3>3. Payload("VIF1", Pc("VIF1"), t)
             = <<<<"upper", Pc("VIF1")>>>> \o Data(Pc("VIF1") + 1, t.qwc)
          BY <2>2 DEF Payload
    <3> QED BY <2>1, <3>2, <3>3
  <2>3. CASE ~Local(t)
    <3>1. ~Vif1Source!Local(t)
          BY <2>3 DEF Local, Vif1Source!Local
    <3>2. Vif1Source!Payload(s, t) = <<>> \o Data(t.addr, t.qwc)
          BY <1>1, <3>1, Vif1Quads DEF Vif1Source!Payload
    <3>3. Payload("VIF1", Pc("VIF1"), t) = <<>> \o Data(t.addr, t.qwc)
          BY <2>3 DEF Payload
    <3> QED BY <2>1, <3>2, <3>3
  <2> QED BY <2>2, <2>3
<1>5. r.ended = EndAfter(t, Stack("VIF1"))
      BY <1>1 DEF Vif1Source!Dealt, EndAfter
<1> HIDE DEF r
<1>6. Vif1Source!Becomes(r)
      BY <1>2, <1>3, <1>4, <1>5 DEF Stepped, Vif1Source!Becomes, Pc, Stack
<1> QED BY <1>6 DEF Stepped, Vif1Source!Step, r, s, Pc, Stack

LEMMA Vif1Served ==
    ASSUME Served("VIF1"), asked'.c = "VIF1", started' = started + 1, UNCHANGED <<mem, dmae>>
    PROVE  Vif1Source!Start
<1> DEFINE a == asked'.addr
           n == asked'.n
<1>1. CASE asked'.what = "chain" /\ FreshAt("VIF1", a) /\ SentBy("VIF1")' = SentBy("VIF1")
  <2>1. Vif1Source!NewChain(a)
        BY <1>1 DEF FreshAt, Vif1Source!NewChain, Vif1Source!BeginsAt, Pc, Stack
  <2> QED BY <1>1, <2>1 DEF Vif1Source!Start
<1>2. PutOut("VIF1", a, n) => SentBy("VIF1")' = IF dmae THEN SentBy("VIF1") \o Vif1Source!Quads(a, n)
                                              ELSE SentBy("VIF1")
      BY Vif1Quads DEF PutOut
<1>3. CASE /\ asked'.what = "block" /\ PutOut("VIF1", a, n)
           /\ Pc("VIF1")' = Pc("VIF1") /\ Stack("VIF1")' = Stack("VIF1") /\ over'["VIF1"] = over["VIF1"]
  <2>1. Vif1Source!Block(a, n, FALSE)
        BY <1>2, <1>3 DEF Vif1Source!Block, Pc, Stack
  <2> QED BY <1>3, <2>1 DEF Vif1Source!Start
<1>4. CASE asked'.what = "send" /\ PutOut("VIF1", a, n) /\ FreshAt("VIF1", a)
  <2>1. Vif1Source!Block(a, n, TRUE)
        BY <1>2, <1>4 DEF FreshAt, Vif1Source!Block, Vif1Source!BeginsAt, Pc, Stack
  <2> QED BY <1>4, <2>1 DEF Vif1Source!Start
<1>5. CASE asked'.what = "resume" /\ ~over["VIF1"] /\ Same("VIF1")
  <2>1. Vif1Source!Resume
        BY <1>5 DEF Same, Vif1Source!Resume, Vif1Source!chainVars, Pc, Stack
  <2> QED BY <1>5, <2>1 DEF Vif1Source!Start
<1> QED BY <1>1, <1>3, <1>4, <1>5 DEF Served

LEMMA Vif1Simple ==
    ASSUME Simple("VIF1"), mem' = mem, dmae \in BOOLEAN, dmae' \in BOOLEAN
    PROVE  Vif1Next
<1>1. CASE UNCHANGED <<started, asked>> /\ Same("VIF1")
  <2>1. CASE dmae' = dmae
        BY <1>1, <2>1 DEF Vif1Next, Same, Vif1Source!vars, Pc, Stack
  <2>2. CASE dmae' # dmae
    <3>1. Vif1Source!Switch
          BY <1>1, <2>2 DEF Same, Vif1Source!Switch, Vif1Source!chainVars, Pc, Stack
    <3> QED BY <3>1 DEF Vif1Next
  <2> QED BY <2>1, <2>2
<1>2. CASE UNCHANGED <<started, asked>> /\ dmae /\ dmae' = dmae /\ Stepped("VIF1")
      BY <1>2, Vif1Step DEF Vif1Next
<1>3. CASE Started("VIF1") /\ asked'.c # "VIF1" /\ Same("VIF1")
  <2>1. Vif1Source!Start
        BY <1>3 DEF Started, Same, Vif1Source!Start, Vif1Source!chainVars, Pc, Stack
  <2> QED BY <2>1 DEF Vif1Next
<1>4. CASE Started("VIF1") /\ asked'.c = "VIF1" /\ Served("VIF1")
  <2>1. Vif1Source!Start
        BY <1>4, Vif1Served DEF Started
  <2> QED BY <2>1 DEF Vif1Next
<1> QED BY <1>1, <1>2, <1>3, <1>4 DEF Simple, Unstarted, Started

LEMMA StartRefines ==
    ASSUME IInv, StartCall
    PROVE  Started("VIF1") /\ (Started("GIF") \/ GifSource!Start)
<1>0. Types /\ "GIF" \in Channels /\ "VIF1" \in Channels
      BY DEF IInv, Channels
<1>1. CASE \E addr \in Starts, b \in Blocks : Normal(b.c, addr, b.n, b.how)
      BY <1>0, <1>1, NormalSimple
<1>2. CASE \E addr \in Starts, b \in Chains : Chain(b.c, b.tie, addr, b.how)
  <2>1. PICK addr \in Starts, b \in Chains : Chain(b.c, b.tie, addr, b.how)
        BY <1>2
  <2>2. b.c \in Channels /\ b.tie \in BOOLEAN
        BY UseAssumption
  <2>3. NewChain(b.c, b.tie, addr, b.how)
        BY <2>1 DEF Chain
  <2> QED BY <1>0, <2>2, <2>3, NewChainSimple
<1>3. CASE \E addr \in Starts, tie \in BOOLEAN, w \in StatWrites : Kick(tie, addr, w[1], w[2])
  <2>1. PICK addr \in Starts, tie \in BOOLEAN, w \in StatWrites : Kick(tie, addr, w[1], w[2])
        BY <1>3
  <2> DEFINE s == WrittenStat(w[1], w[2])
  <2>2. s \in Stats
        BY <1>0, WrittenTyped
  <2>3. KickShort(addr, s) \/ NewChain("GIF", tie, addr, "kick")
        BY <2>1 DEF Kick
  <2> HIDE DEF s
  <2>4. CASE KickShort(addr, s)
        BY <2>2, <2>4, KickShortSimple
  <2>5. CASE NewChain("GIF", tie, addr, "kick")
        BY <1>0, <2>5, NewChainSimple
  <2> QED BY <2>3, <2>4, <2>5
<1>4. CASE \E c \in Channels : Resume(c)
      BY <1>0, <1>4, ResumeSimple
<1> QED BY <1>1, <1>2, <1>3, <1>4 DEF StartCall

LEMMA StepRefines ==
    ASSUME IInv, [Next]_vars
    PROVE  GifNext /\ Vif1Next
<1>0. "GIF" \in Channels /\ "VIF1" \in Channels
      BY DEF Channels
<1>1. mem' = mem
  <2>1. StartCall => mem' = mem
        BY DEF StartCall, Normal, Chain, NewChain, Kick, KickShort, Resume
  <2>2. OtherCall => mem' = mem
        BY DEF OtherCall, WriteStat, WriteCtrl, MaskPath3, SetEnabled, ReadChcr
  <2> QED BY <2>1, <2>2 DEF Next, Turn, Stop, Drain, vars
<1>2. dmae \in BOOLEAN /\ dmae' \in BOOLEAN
      BY NextKeeps DEF IInv, Types
<1>3. ASSUME NEW c \in Channels
      PROVE  UNCHANGED vars \/ Turn \/ Stop \/ Drain \/ OtherCall => Simple(c)
  <2>1. CASE UNCHANGED vars
    <3>1. Pc(c)' = Pc(c) /\ Stack(c)' = Stack(c) /\ SentBy(c)' = SentBy(c)
          BY <2>1 DEF vars, Pc, Stack, SentBy, At, ReturnsOf, Held
    <3> QED BY <2>1, <3>1 DEF vars, Simple, Unstarted, Same
  <2>2. CASE Turn
        BY <1>3, <2>2, TurnSimple DEF Simple
  <2>3. CASE Stop
    <3>1. Same(c) /\ UNCHANGED <<started, asked>>
          BY <1>3, <2>3, StopSame DEF Stop
    <3> QED BY <3>1 DEF Simple, Unstarted
  <2>4. CASE Drain
    <3>1. Same(c) /\ UNCHANGED <<started, asked>>
          BY <1>3, <2>4, DrainSame DEF Drain
    <3> QED BY <3>1 DEF Simple, Unstarted
  <2>5. CASE OtherCall
    <3>1. UNCHANGED <<started, asked>>
          BY <2>5 DEF OtherCall, WriteStat, WriteCtrl, MaskPath3, SetEnabled, ReadChcr
    <3> QED BY <1>3, <2>5, <3>1, OtherSame DEF Simple, Unstarted
  <2> QED BY <2>1, <2>2, <2>3, <2>4, <2>5
<1>4. Simple("VIF1") /\ (Simple("GIF") \/ GifSource!Start)
      BY <1>0, <1>3, StartRefines DEF Next, Simple
<1>5. GifNext
      BY <1>1, <1>2, <1>4, GifSimple DEF GifNext
<1>6. Vif1Next
      BY <1>1, <1>2, <1>4, Vif1Simple
<1> QED BY <1>5, <1>6

LEMMA InitRefines ==
    ASSUME Init
    PROVE  GifSource!Init /\ Vif1Source!Init
<1>1. ASSUME NEW c \in Channels
      PROVE  /\ Pc(c) = 0 /\ Stack(c) = <<>> /\ SentBy(c) = <<>> /\ over[c] = TRUE
  <2>1. walk.on # c
        BY NoWalkTyped DEF Init, Channels
  <2>2. /\ ch[c].tadr = 0 /\ ch[c].asp = 0 /\ ch[c].asr0 = 0 /\ ch[c].asr1 = 0
        /\ out[c] = <<>> /\ Held(c) = <<>> /\ over[c] = TRUE
        BY DEF Init, Held
  <2>3. <<>> \in Seq(Items) /\ <<>> \o <<>> = <<>>
        BY Empties
  <2>4. ReturnsOf(ch[c]) = <<>>
        BY <2>2, ReturnsFacts
  <2> QED BY <2>1, <2>2, <2>3, <2>4, IdleView DEF Passed
<1>2. "GIF" \in Channels /\ "VIF1" \in Channels
      BY DEF Channels
<1>3. GifSource!Init
      BY <1>1, <1>2 DEF GifSource!Init, Pc, Stack
<1>4. Vif1Source!Init
      BY <1>1, <1>2 DEF Vif1Source!Init, Pc, Stack
<1> QED BY <1>3, <1>4

\* Both channels implement the source chain channel of SourceChain: whatever the
\* chains in memory, and however often the interrupt bit of a tag stops the loop
\* and the program sets STR again, a step of the program either starts the very
\* chain or block that was asked for, or lets the loop deal with the next tag,
\* where it is and with all that it carries, or leaves the chain and what was
\* sent alone.
THEOREM ImplementsSourceChains ==
    Spec => ImplementsSource
<1>1. Init => GifSource!Init /\ Vif1Source!Init
      BY InitRefines
<1>2. IInv /\ [Next]_vars => GifNext /\ Vif1Next
      BY StepRefines
<1>3. Spec => GifSource!Spec
      BY <1>1, <1>2, InductiveInvariant, PTL DEF Spec, GifSource!Spec, GifNext
<1>4. Spec => Vif1Source!Spec
      BY <1>1, <1>2, InductiveInvariant, PTL DEF Spec, Vif1Source!Spec, Vif1Next
<1> QED BY <1>3, <1>4 DEF ImplementsSource
=============================================================================
