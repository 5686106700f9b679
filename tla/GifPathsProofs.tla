--------------------------- MODULE GifPathsProofs ---------------------------
(***************************************************************************)
(* GifPaths, for all packets and streams of a program and every bound.     *)
(*                                                                         *)
(* The packets of PATH3 reach the GS in the order of sending, and a drain  *)
(* hands over what was queued in the order that DIRECTHL asks for: what is *)
(* queued or held back is PATH3's alone and numbered in that order, so     *)
(* that a drain sorts nothing, or one packet of another path among them.   *)
(*                                                                         *)
(* VIF1 and the program stay in step: the places of a transfer are codes   *)
(* and data as the program meant them, for as much as VIF1 has left.       *)
(*                                                                         *)
(* The buffers of VU1 alternate: TOPS is the buffer that DBF names.        *)
(***************************************************************************)
EXTENDS GifPaths, KernelListsProofs, FiniteSetTheorems

\* The packets that a program may send.
Packets == [id : Nat, path : 1 .. 3, hl : BOOLEAN, quads : {q \in Seq(Items) : q # <<>>}]

(***************************************************************************)
(* The ids of PATH3's packets.                                             *)
(***************************************************************************)
With3(g, p) == IF p.path = 3 THEN Append(g, p.id) ELSE g

\* The recursive function of Path3Of exists.
LEMMA IdsExist ==
    ASSUME NEW s, Len(s) \in Nat
    PROVE  \E f : f = [i \in 0 .. Len(s) |-> IF i = 0 THEN <<>> ELSE With3(f[i - 1], s[i])]
<1> DEFINE L == Len(s)
           Upto(n, f) == /\ f = [i \in 0 .. n |-> f[i]]
                         /\ f[0] = <<>>
                         /\ \A i \in 1 .. n : f[i] = With3(f[i - 1], s[i])
           N == {n \in Nat : \E f : Upto(n, f)}
<1>1. 0 \in N
  <2> DEFINE e == [i \in 0 .. 0 |-> <<>>]
  <2>1. e = [i \in 0 .. 0 |-> e[i]] /\ e[0] = <<>>
        OBVIOUS
  <2>2. \A i \in 1 .. 0 : e[i] = With3(e[i - 1], s[i])
        OBVIOUS
  <2>3. Upto(0, e)
        BY <2>1, <2>2
  <2> QED BY <2>3
<1>2. ASSUME NEW n \in N PROVE n + 1 \in N
  <2>1. n \in Nat
        OBVIOUS
  <2>2. PICK f : Upto(n, f)
        OBVIOUS
  <2> DEFINE g == [i \in 0 .. n + 1 |-> IF i = n + 1 THEN With3(f[n], s[n + 1]) ELSE f[i]]
  <2>3. g[n + 1] = With3(f[n], s[n + 1])
        BY <2>1
  <2>4. \A i \in 0 .. n : g[i] = f[i]
        BY <2>1
  <2>5. g = [i \in 0 .. n + 1 |-> g[i]]
        OBVIOUS
  <2> HIDE DEF g
  <2>6. g[0] = <<>>
        BY <2>1, <2>2, <2>4
  <2>7. ASSUME NEW i \in 1 .. n + 1 PROVE g[i] = With3(g[i - 1], s[i])
    <3>1. CASE i = n + 1
      <4>1. i - 1 = n /\ n \in 0 .. n
            BY <2>1, <3>1
      <4> QED BY <2>3, <2>4, <3>1, <4>1
    <3>2. CASE i # n + 1
      <4>1. i \in 1 .. n /\ i \in 0 .. n /\ i - 1 \in 0 .. n
            BY <2>1, <3>2
      <4>2. f[i] = With3(f[i - 1], s[i])
            BY <2>2, <4>1
      <4> QED BY <2>4, <4>1, <4>2
    <3> QED BY <3>1, <3>2
  <2>8. Upto(n + 1, g)
        BY <2>5, <2>6, <2>7
  <2>9. n + 1 \in Nat
        BY <2>1
  <2>10. \E h : Upto(n + 1, h)
        BY <2>8
  <2> HIDE DEF Upto
  <2> QED BY <2>9, <2>10
<1>3. N = Nat
  <2>1. N \in SUBSET Nat
        OBVIOUS
  <2> HIDE DEF N
  <2> QED BY <1>1, <1>2, <2>1, SetInduction
<1>4. PICK f : Upto(L, f)
      BY <1>3
<1>5. f = [i \in 0 .. L |-> IF i = 0 THEN <<>> ELSE With3(f[i - 1], s[i])]
  <2>1. \A i \in 0 .. L : f[i] = IF i = 0 THEN <<>> ELSE With3(f[i - 1], s[i])
    <3>1. \A i \in 0 .. L : i = 0 \/ i \in 1 .. L
          OBVIOUS
    <3> QED BY <1>4, <3>1
  <2> QED BY <1>4, <2>1
<1> QED BY <1>5

\* The ids one by one, f[n] those of the first n packets.
Ids3(f, s) == f[0] = <<>> /\ \A n \in 1 .. Len(s) : f[n] = With3(f[n - 1], s[n])

\* Path3Of tells the ids one by one.
LEMMA Path3Steps ==
    ASSUME NEW s, Len(s) \in Nat
    PROVE  \E f : Ids3(f, s) /\ Path3Of(s) = f[Len(s)]
<1> DEFINE IsLoop(f) == f = [i \in 0 .. Len(s) |->
                                IF i = 0 THEN <<>>
                                ELSE IF s[i].path = 3 THEN Append(f[i - 1], s[i].id) ELSE f[i - 1]]
           f == CHOOSE f : IsLoop(f)
<1>1. \E g : IsLoop(g)
      BY IdsExist DEF With3
<1>2. IsLoop(f)
      BY <1>1
<1>3. Path3Of(s) = f[Len(s)]
      BY DEF Path3Of
<1> HIDE DEF f
<1>4. \A n \in 0 .. Len(s) : f[n] = IF n = 0 THEN <<>> ELSE With3(f[n - 1], s[n])
      BY <1>2 DEF With3
<1>5. 0 \in 0 .. Len(s) /\ \A n \in 1 .. Len(s) : n \in 0 .. Len(s) /\ n # 0
      OBVIOUS
<1>6. Ids3(f, s)
      BY <1>4, <1>5 DEF Ids3
<1> QED BY <1>3, <1>6

\* Any such account tells the ids, so that those of a longer sequence do.
LEMMA Path3Unique ==
    ASSUME NEW s, Len(s) \in Nat, NEW f, NEW k \in 0 .. Len(s),
           NEW t, Len(t) = k, \A n \in 1 .. k : t[n] = s[n], Ids3(f, s)
    PROVE  Path3Of(t) = f[k]
<1>1. PICK g : Ids3(g, t) /\ Path3Of(t) = g[Len(t)]
      BY Path3Steps
<1> DEFINE N == {n \in Nat : n =< k => g[n] = f[n]}
<1>2. 0 \in N
      BY <1>1 DEF Ids3
<1>3. ASSUME NEW n \in N PROVE n + 1 \in N
  <2>1. CASE n + 1 =< k
    <3>1. n \in Nat /\ n + 1 \in 1 .. k /\ (n + 1) - 1 = n /\ n =< k /\ n + 1 \in 1 .. Len(s)
          BY <2>1
    <3>2. g[n + 1] = With3(g[n], t[n + 1]) /\ f[n + 1] = With3(f[n], s[n + 1])
          BY <1>1, <3>1 DEF Ids3
    <3> QED BY <3>1, <3>2
  <2> QED BY <2>1
<1>4. N = Nat
  <2>1. N \in SUBSET Nat
        OBVIOUS
  <2> HIDE DEF N
  <2> QED BY <1>2, <1>3, <2>1, SetInduction
<1>5. k \in N
      BY <1>4
<1> QED BY <1>1, <1>5

\* Nothing has no ids.
LEMMA Path3Empty ==
    Path3Of(<<>>) = <<>>
<1>1. Len(<<>>) = 0
      OBVIOUS
<1> QED BY <1>1, Path3Steps DEF Ids3

\* A packet of PATH3 adds its id, another adds none.
LEMMA Path3Append ==
    ASSUME NEW s \in Seq(Packets), NEW p \in Packets
    PROVE  Path3Of(Append(s, p)) = With3(Path3Of(s), p)
<1> DEFINE t == Append(s, p)
<1>1. /\ Len(s) \in Nat /\ Len(t) = Len(s) + 1 /\ t[Len(s) + 1] = p
      /\ \A i \in 1 .. Len(s) : t[i] = s[i]
      OBVIOUS
<1> HIDE DEF t
<1>2. PICK f : Ids3(f, t) /\ Path3Of(t) = f[Len(t)]
      BY <1>1, Path3Steps
<1>3. Path3Of(s) = f[Len(s)]
  <2>1. Len(s) \in 0 .. Len(t) /\ Len(t) \in Nat /\ \A n \in 1 .. Len(s) : s[n] = t[n]
        BY <1>1
  <2> QED BY <1>2, <2>1, Path3Unique
<1>4. f[Len(t)] = With3(f[Len(s)], p)
  <2>1. Len(t) \in 1 .. Len(t) /\ Len(t) - 1 = Len(s)
        BY <1>1
  <2> QED BY <1>1, <1>2, <2>1 DEF Ids3
<1> QED BY <1>2, <1>3, <1>4 DEF t

\* The ids are numbers.
LEMMA Path3Typed ==
    ASSUME NEW s \in Seq(Packets)
    PROVE  Path3Of(s) \in Seq(Nat)
<1>1. PICK f : Ids3(f, s) /\ Path3Of(s) = f[Len(s)]
      BY Path3Steps
<1> DEFINE N == {n \in Nat : n =< Len(s) => f[n] \in Seq(Nat)}
<1>2. 0 \in N
  <2>1. f[0] = <<>> /\ <<>> \in Seq(Nat)
        BY <1>1 DEF Ids3
  <2> QED BY <2>1
<1>3. ASSUME NEW n \in N PROVE n + 1 \in N
  <2>1. CASE n + 1 =< Len(s)
    <3>1. n \in Nat /\ n + 1 \in 1 .. Len(s) /\ (n + 1) - 1 = n /\ n =< Len(s)
          BY <2>1
    <3>2. f[n + 1] = With3(f[n], s[n + 1]) /\ f[n] \in Seq(Nat)
          BY <1>1, <3>1 DEF Ids3
    <3>3. s[n + 1].id \in Nat
      <4>1. s[n + 1] \in Packets
            BY <3>1
      <4> QED BY <4>1 DEF Packets
    <3>4. f[n + 1] \in Seq(Nat)
          BY <3>2, <3>3 DEF With3
    <3> QED BY <3>1, <3>4
  <2> QED BY <2>1
<1>4. N = Nat
  <2>1. N \in SUBSET Nat
        OBVIOUS
  <2> HIDE DEF N
  <2> QED BY <1>2, <1>3, <2>1, SetInduction
<1>5. Len(s) \in N /\ Len(s) \in Nat
      BY <1>4
<1> QED BY <1>1, <1>5

\* Three sequences in a row.
LEMMA ThreeJoined ==
    ASSUME NEW a \in Seq(Nat), NEW b \in Seq(Nat), NEW c \in Seq(Nat)
    PROVE  (a \o b) \o c = a \o (b \o c)
BY ConcatAssociative

\* Appending to the second of two sequences.
LEMMA AppendJoined ==
    ASSUME NEW a \in Seq(Nat), NEW b \in Seq(Nat), NEW x \in Nat
    PROVE  Append(a \o b, x) = a \o Append(b, x)
<1> DEFINE o == <<x>>
<1>1. o \in Seq(Nat)
      OBVIOUS
<1>2. Append(b, x) = b \o o
      OBVIOUS
<1>3. a \o b \in Seq(Nat)
      BY ConcatProperties
<1>4. \A c \in Seq(Nat) : Append(c, x) = c \o o
      OBVIOUS
<1> HIDE DEF o
<1>5. Append(a \o b, x) = (a \o b) \o o
      BY <1>3, <1>4
<1>6. (a \o b) \o o = a \o (b \o o)
      BY <1>1, ThreeJoined
<1> QED BY <1>2, <1>5, <1>6

\* The ids of two sequences in a row.
LEMMA Path3Joined ==
    ASSUME NEW s \in Seq(Packets), NEW t \in Seq(Packets)
    PROVE  Path3Of(s \o t) = Path3Of(s) \o Path3Of(t)
<1> DEFINE Good(n) == \A u \in Seq(Packets) :
                         Len(u) = n => Path3Of(s \o u) = Path3Of(s) \o Path3Of(u)
           N == {n \in Nat : Good(n)}
<1>0. Path3Of(s) \in Seq(Nat)
      BY Path3Typed
<1>1. 0 \in N
  <2>1. ASSUME NEW u \in Seq(Packets), Len(u) = 0
        PROVE  Path3Of(s \o u) = Path3Of(s) \o Path3Of(u)
    <3>1. u = <<>>
          BY <2>1
    <3>2. s \o <<>> = s /\ Path3Of(s) \o <<>> = Path3Of(s)
          BY <1>0, ConcatEmptySeq
    <3> QED BY <3>1, <3>2, Path3Empty
  <2> QED BY <2>1
<1>2. ASSUME NEW n \in N PROVE n + 1 \in N
  <2>0. n \in Nat /\ n + 1 \in Nat /\ Good(n)
        OBVIOUS
  <2>1. ASSUME NEW u \in Seq(Packets), Len(u) = n + 1
        PROVE  Path3Of(s \o u) = Path3Of(s) \o Path3Of(u)
    <3> DEFINE v == SubSeq(u, 1, n)
               p == u[n + 1]
    <3>1. v \in Seq(Packets) /\ Len(v) = n /\ p \in Packets
          BY <2>0, <2>1
    <3>2. u = Append(v, p)
          BY <2>0, <2>1
    <3>3. \A w \in Seq(Packets), x \in Packets : s \o Append(w, x) = Append(s \o w, x)
          OBVIOUS
    <3> HIDE DEF v, p
    <3>4. Path3Of(s \o v) = Path3Of(s) \o Path3Of(v)
          BY <2>0, <3>1
    <3>5. s \o u = Append(s \o v, p) /\ s \o v \in Seq(Packets)
          BY <3>1, <3>2, <3>3, ConcatProperties
    <3>6. Path3Of(s \o u) = With3(Path3Of(s \o v), p) /\ Path3Of(u) = With3(Path3Of(v), p)
          BY <3>1, <3>2, <3>5, Path3Append
    <3>8. Path3Of(v) \in Seq(Nat) /\ p.id \in Nat
          BY <3>1, Path3Typed DEF Packets
    <3>9. CASE p.path = 3
      <4>1. Path3Of(s \o u) = Append(Path3Of(s) \o Path3Of(v), p.id)
            BY <3>4, <3>6, <3>9 DEF With3
      <4>2. Path3Of(u) = Append(Path3Of(v), p.id)
            BY <3>6, <3>9 DEF With3
      <4>3. Append(Path3Of(s) \o Path3Of(v), p.id) = Path3Of(s) \o Append(Path3Of(v), p.id)
            BY <1>0, <3>8, AppendJoined
      <4> QED BY <4>1, <4>2, <4>3
    <3>10. CASE p.path # 3
           BY <3>4, <3>6, <3>10 DEF With3
    <3> QED BY <3>9, <3>10
  <2>2. Good(n + 1)
        BY <2>1
  <2> HIDE DEF Good
  <2> QED BY <2>0, <2>2
<1>3. N = Nat
  <2>1. N \in SUBSET Nat
        OBVIOUS
  <2> HIDE DEF N
  <2> QED BY <1>1, <1>2, <2>1, SetInduction
<1>4. Len(t) \in N
  <2> HIDE DEF N
  <2> QED BY <1>3
<1> QED BY <1>4

(***************************************************************************)
(* The sorting of the arbiter, for what a drain finds.                     *)
(***************************************************************************)
\* The recursive function of AllInserted exists.
LEMMA SortingExists ==
    ASSUME NEW s, Len(s) \in Nat
    PROVE  \E f : f = [i \in 0 .. Len(s) |-> IF i = 0 THEN <<>> ELSE Inserted(f[i - 1], s[i])]
<1> DEFINE L == Len(s)
           Upto(n, f) == /\ f = [i \in 0 .. n |-> f[i]]
                         /\ f[0] = <<>>
                         /\ \A i \in 1 .. n : f[i] = Inserted(f[i - 1], s[i])
           N == {n \in Nat : \E f : Upto(n, f)}
<1>1. 0 \in N
  <2> DEFINE e == [i \in 0 .. 0 |-> <<>>]
  <2>1. e = [i \in 0 .. 0 |-> e[i]] /\ e[0] = <<>>
        OBVIOUS
  <2>2. \A i \in 1 .. 0 : e[i] = Inserted(e[i - 1], s[i])
        OBVIOUS
  <2>3. Upto(0, e)
        BY <2>1, <2>2
  <2> QED BY <2>3
<1>2. ASSUME NEW n \in N PROVE n + 1 \in N
  <2>1. n \in Nat
        OBVIOUS
  <2>2. PICK f : Upto(n, f)
        OBVIOUS
  <2> DEFINE g == [i \in 0 .. n + 1 |-> IF i = n + 1 THEN Inserted(f[n], s[n + 1]) ELSE f[i]]
  <2>3. g[n + 1] = Inserted(f[n], s[n + 1])
        BY <2>1
  <2>4. \A i \in 0 .. n : g[i] = f[i]
        BY <2>1
  <2>5. g = [i \in 0 .. n + 1 |-> g[i]]
        OBVIOUS
  <2> HIDE DEF g
  <2>6. g[0] = <<>>
        BY <2>1, <2>2, <2>4
  <2>7. ASSUME NEW i \in 1 .. n + 1 PROVE g[i] = Inserted(g[i - 1], s[i])
    <3>1. CASE i = n + 1
      <4>1. i - 1 = n /\ n \in 0 .. n
            BY <2>1, <3>1
      <4> QED BY <2>3, <2>4, <3>1, <4>1
    <3>2. CASE i # n + 1
      <4>1. i \in 1 .. n /\ i \in 0 .. n /\ i - 1 \in 0 .. n
            BY <2>1, <3>2
      <4>2. f[i] = Inserted(f[i - 1], s[i])
            BY <2>2, <4>1
      <4> QED BY <2>4, <4>1, <4>2
    <3> QED BY <3>1, <3>2
  <2>8. Upto(n + 1, g)
        BY <2>5, <2>6, <2>7
  <2>9. n + 1 \in Nat
        BY <2>1
  <2>10. \E h : Upto(n + 1, h)
        BY <2>8
  <2> HIDE DEF Upto
  <2> QED BY <2>9, <2>10
<1>3. N = Nat
  <2>1. N \in SUBSET Nat
        OBVIOUS
  <2> HIDE DEF N
  <2> QED BY <1>1, <1>2, <2>1, SetInduction
<1>4. PICK f : Upto(L, f)
      BY <1>3
<1>5. f = [i \in 0 .. L |-> IF i = 0 THEN <<>> ELSE Inserted(f[i - 1], s[i])]
  <2>1. \A i \in 0 .. L : f[i] = IF i = 0 THEN <<>> ELSE Inserted(f[i - 1], s[i])
    <3>1. \A i \in 0 .. L : i = 0 \/ i \in 1 .. L
          OBVIOUS
    <3> QED BY <1>4, <3>1
  <2> QED BY <1>4, <2>1
<1> QED BY <1>5

Insertions(f, s) == f[0] = <<>> /\ \A n \in 1 .. Len(s) : f[n] = Inserted(f[n - 1], s[n])

\* Sorted inserts the packets one by one.
LEMMA SortedSteps ==
    ASSUME NEW s, Len(s) \in Nat
    PROVE  \E f : Insertions(f, s) /\ Sorted(s) = f[Len(s)]
<1> DEFINE IsLoop(f) == f = [i \in 0 .. Len(s) |->
                                IF i = 0 THEN <<>> ELSE Inserted(f[i - 1], s[i])]
           f == CHOOSE f : IsLoop(f)
<1>1. \E g : IsLoop(g)
      BY SortingExists
<1>2. IsLoop(f)
      BY <1>1
<1>3. Sorted(s) = f[Len(s)]
      BY DEF Sorted, AllInserted
<1> HIDE DEF f
<1>4. \A n \in 0 .. Len(s) : f[n] = IF n = 0 THEN <<>> ELSE Inserted(f[n - 1], s[n])
      BY <1>2
<1>5. 0 \in 0 .. Len(s) /\ \A n \in 1 .. Len(s) : n \in 0 .. Len(s) /\ n # 0
      OBVIOUS
<1>6. Insertions(f, s)
      BY <1>4, <1>5 DEF Insertions
<1> QED BY <1>3, <1>6

\* p behind the first k packets of s.
Put(s, p, k) == SubSeq(s, 1, k) \o <<p>> \o SubSeq(s, k + 1, Len(s))

\* The places of the packets after one is put among them.
LEMMA PutFacts ==
    ASSUME NEW s \in Seq(Packets), NEW p \in Packets, NEW k \in 0 .. Len(s)
    PROVE  /\ Put(s, p, k) \in Seq(Packets) /\ Len(Put(s, p, k)) = Len(s) + 1
           /\ Put(s, p, k)[k + 1] = p
           /\ \A i \in 1 .. k : Put(s, p, k)[i] = s[i]
           /\ \A i \in k + 2 .. Len(s) + 1 : Put(s, p, k)[i] = s[i - 1]
<1> DEFINE a == SubSeq(s, 1, k)
           b == SubSeq(s, k + 1, Len(s))
           o == <<p>>
<1>1. /\ a \in Seq(Packets) /\ Len(a) = k /\ \A i \in 1 .. k : a[i] = s[i]
      /\ Len(s) \in Nat /\ k \in Nat
      OBVIOUS
<1>2. /\ b \in Seq(Packets) /\ Len(b) = Len(s) - k
      /\ \A i \in 1 .. Len(s) - k : b[i] = s[k + i]
      OBVIOUS
<1>3. o \in Seq(Packets) /\ Len(o) = 1 /\ o[1] = p
      OBVIOUS
<1>4. Put(s, p, k) = (a \o o) \o b
      BY DEF Put
<1> HIDE DEF a, b, o
<1>j. \A u, v \in Seq(Packets) :
         /\ u \o v \in Seq(Packets) /\ Len(u \o v) = Len(u) + Len(v)
         /\ Len(u) \in Nat /\ Len(v) \in Nat
         /\ \A i \in 1 .. Len(u) : (u \o v)[i] = u[i]
         /\ \A i \in Len(u) + 1 .. Len(u) + Len(v) : (u \o v)[i] = v[i - Len(u)]
      OBVIOUS
<1>5. /\ a \o o \in Seq(Packets) /\ Len(a \o o) = k + 1 /\ (a \o o)[k + 1] = p
      /\ \A i \in 1 .. k : (a \o o)[i] = s[i]
  <2>1. /\ a \o o \in Seq(Packets) /\ Len(a \o o) = k + 1
        /\ \A i \in 1 .. k : (a \o o)[i] = a[i]
        /\ \A i \in k + 1 .. k + 1 : (a \o o)[i] = o[i - k]
    <3>1. /\ a \o o \in Seq(Packets) /\ Len(a \o o) = Len(a) + Len(o)
          /\ \A i \in 1 .. Len(a) : (a \o o)[i] = a[i]
          /\ \A i \in Len(a) + 1 .. Len(a) + Len(o) : (a \o o)[i] = o[i - Len(a)]
          BY ONLY <1>1, <1>3, <1>j, Zenon
    <3> QED BY ONLY <1>1, <1>3, <3>1
  <2>2. k + 1 \in k + 1 .. k + 1 /\ (k + 1) - k = 1
        BY <1>1
  <2> HIDE DEF a, o
  <2>3. (a \o o)[k + 1] = o[1]
        BY ONLY <2>1, <2>2
  <2> QED BY ONLY <1>1, <1>3, <2>1, <2>3
<1> DEFINE c == a \o o
<1> HIDE DEF c
<1>6. /\ c \in Seq(Packets) /\ Len(c) = k + 1 /\ c[k + 1] = p /\ \A i \in 1 .. k : c[i] = s[i]
      BY <1>5 DEF c
<1>7. c \o b \in Seq(Packets) /\ Len(c \o b) = Len(s) + 1
  <2>1. c \o b \in Seq(Packets) /\ Len(c \o b) = Len(c) + Len(b)
        BY ONLY <1>2, <1>6, <1>j
  <2>2. (k + 1) + (Len(s) - k) = Len(s) + 1
        BY <1>1
  <2> QED BY ONLY <1>2, <1>6, <2>1, <2>2
<1>8. /\ \A i \in 1 .. k + 1 : (c \o b)[i] = c[i]
      /\ \A i \in k + 2 .. Len(s) + 1 : (c \o b)[i] = b[i - (k + 1)]
  <2>1. (k + 1) + (Len(s) - k) = Len(s) + 1 /\ (k + 1) + 1 = k + 2
        BY <1>1
  <2> QED BY ONLY <1>1, <1>2, <1>6, <1>j, <2>1
<1>9. \A i \in k + 2 .. Len(s) + 1 : (c \o b)[i] = s[i - 1]
  <2>1. ASSUME NEW i \in k + 2 .. Len(s) + 1
        PROVE  i - (k + 1) \in 1 .. Len(s) - k /\ k + (i - (k + 1)) = i - 1
        BY <1>1
  <2> QED BY <1>2, <1>8, <2>1
<1>10. (c \o b)[k + 1] = p /\ \A i \in 1 .. k : (c \o b)[i] = s[i]
  <2>1. k + 1 \in 1 .. k + 1 /\ \A i \in 1 .. k : i \in 1 .. k + 1
        BY <1>1
  <2> QED BY <1>6, <1>8, <2>1
<1> QED BY <1>4, <1>7, <1>9, <1>10 DEF c

Plain3(p) == p.path = 3 /\ ~p.hl

\* Inserting puts a packet behind the last one that it may not pass.
LEMMA InsertedPut ==
    ASSUME NEW s \in Seq(Packets), NEW p \in Packets, NEW k \in 1 .. Len(s),
           ~Before(p, s[1]), ~Before(p, s[k]), \A j \in k + 1 .. Len(s) : Before(p, s[j])
    PROVE  Inserted(s, p) = Put(s, p, k)
<1> DEFINE stays == {i \in 1 .. Len(s) : \E j \in i .. Len(s) : ~Before(p, s[j])}
<1>1. stays = 1 .. k
  <2>1. ASSUME NEW i \in stays PROVE i \in 1 .. k
    <3>1. PICK j \in i .. Len(s) : ~Before(p, s[j])
          OBVIOUS
    <3>2. i \in Nat /\ i >= 1 /\ j \in Nat /\ i =< j /\ k \in Nat
          OBVIOUS
    <3>3. ~(j \in k + 1 .. Len(s))
          BY <3>1
    <3> QED BY <3>2, <3>3
  <2>2. ASSUME NEW i \in 1 .. k PROVE i \in stays
        OBVIOUS
  <2> QED BY <2>1, <2>2
<1>2. Cardinality(stays) = k
  <2>1. Cardinality(1 .. k) = k
        BY FS_Interval
  <2> QED BY <1>1, <2>1
<1>3. ~(s # <<>> /\ Before(p, s[1]))
      OBVIOUS
<1> QED BY <1>2, <1>3 DEF Inserted, Put

\* A bounded set of numbers has a largest one.
LEMMA LargestOf ==
    ASSUME NEW S \in SUBSET Nat, NEW b \in Nat, \A i \in S : i =< b, S # {}
    PROVE  \E k \in S : \A i \in S : i =< k
<1> DEFINE D == {d \in Nat : \E i \in S : d = b - i}
<1>1. D # {} /\ D \in SUBSET Nat
  <2>1. PICK i \in S : TRUE
        OBVIOUS
  <2>2. b - i \in D
        OBVIOUS
  <2> QED BY <2>2
<1>2. PICK m \in D : \A n \in D : m =< n
  <2> HIDE DEF D
  <2> QED BY <1>1, LeastElement
<1>3. PICK k \in S : m = b - k
      OBVIOUS
<1>4. ASSUME NEW i \in S PROVE i =< k
  <2>1. b - i \in D /\ i \in Nat /\ k \in Nat /\ m \in Nat
        OBVIOUS
  <2>2. m =< b - i
        BY <1>2, <2>1
  <2> QED BY <1>3, <2>1, <2>2
<1> QED BY <1>4

\* A packet that passes the first one passes all.
LEMMA InsertedFirst ==
    ASSUME NEW s \in Seq(Packets), NEW p \in Packets,
           s # <<>> => Before(p, s[1])
    PROVE  Inserted(s, p) = Put(s, p, 0)
<1> DEFINE o == <<p>>
<1>1. Put(s, p, 0) = (<<>> \o o) \o s
  <2>1. SubSeq(s, 1, 0) = <<>> /\ SubSeq(s, 0 + 1, Len(s)) = s
        OBVIOUS
  <2> QED BY <2>1 DEF Put
<1>2. <<>> \o o = o
  <2>1. o \in Seq(Packets)
        OBVIOUS
  <2> QED BY <2>1, ConcatEmptySeq
<1>3. CASE s # <<>>
      BY <1>1, <1>2, <1>3 DEF Inserted
<1>4. CASE s = <<>>
  <2> DEFINE stays == {i \in 1 .. Len(s) : \E j \in i .. Len(s) : ~Before(p, s[j])}
  <2>1. stays = {}
        BY <1>4
  <2>2. Cardinality(stays) = 0
        BY <2>1, FS_EmptySet
  <2>3. Inserted(s, p) = SubSeq(s, 1, 0) \o o \o SubSeq(s, 0 + 1, Len(s))
        BY <1>4, <2>2 DEF Inserted
  <2> QED BY <2>3 DEF Put
<1> QED BY <1>3, <1>4

\* A packet of PATH3 passes none of PATH3.
LEMMA InsertedLast ==
    ASSUME NEW s \in Seq(Packets), NEW p \in Packets, Plain3(p),
           \A i \in 1 .. Len(s) : Plain3(s[i])
    PROVE  Inserted(s, p) = Append(s, p)
<1>0. Len(s) \in Nat /\ Append(s, p) \in Seq(Packets) /\ Len(Append(s, p)) = Len(s) + 1
      OBVIOUS
<1>1. \A i \in 1 .. Len(s) : ~Before(p, s[i])
      BY DEF Before, Plain3, IsImage
<1> DEFINE k == Len(s)
<1>2. Inserted(s, p) = Put(s, p, k)
  <2>1. CASE s = <<>>
    <3>1. k = 0
          BY <2>1
    <3> QED BY <2>1, <3>1, InsertedFirst
  <2>2. CASE s # <<>>
    <3>1. k \in 1 .. Len(s) /\ 1 \in 1 .. Len(s) /\ k + 1 .. Len(s) = {}
          BY <1>0, <2>2
    <3>2. ~Before(p, s[1]) /\ ~Before(p, s[k])
          BY <1>1, <3>1
    <3>3. \A j \in k + 1 .. Len(s) : Before(p, s[j])
          BY <3>1
    <3> QED BY <3>1, <3>2, <3>3, InsertedPut
  <2> QED BY <2>1, <2>2
<1>3. Put(s, p, k) = Append(s, p)
  <2> DEFINE u == Put(s, p, k)
             v == Append(s, p)
  <2>1. k \in 0 .. Len(s)
        BY <1>0
  <2>2. /\ u \in Seq(Packets) /\ Len(u) = Len(s) + 1 /\ u[k + 1] = p
        /\ \A i \in 1 .. k : u[i] = s[i]
        BY <2>1, PutFacts
  <2>3. /\ v \in Seq(Packets) /\ Len(v) = Len(s) + 1 /\ v[k + 1] = p
        /\ \A i \in 1 .. k : v[i] = s[i]
        OBVIOUS
  <2> HIDE DEF u, v
  <2>4. \A i \in 1 .. Len(s) + 1 : i \in 1 .. k \/ i = k + 1
        BY <1>0
  <2>5. u = v
    <3>1. \A i \in 1 .. Len(u) : u[i] = v[i]
          BY <2>2, <2>3, <2>4
    <3> QED BY <2>2, <2>3, <3>1, SeqEqual
  <2> QED BY <2>5 DEF u, v
<1> QED BY <1>2, <1>3

\* Where a packet of another path gets among packets of PATH3.
LEMMA InsertedOther ==
    ASSUME NEW s \in Seq(Packets), NEW p \in Packets, p.path # 3,
           \A i \in 1 .. Len(s) : Plain3(s[i])
    PROVE  \E k \in 0 .. Len(s) :
              /\ Inserted(s, p) = Put(s, p, k)
              /\ k > 0 => p.hl
              /\ p.hl => \/ k = 0 /\ s # <<>> /\ ~IsImage(s[1])
                         \/ \A j \in k + 1 .. Len(s) : ~IsImage(s[j])
<1>0. Len(s) \in Nat
      OBVIOUS
<1>1. \A i \in 1 .. Len(s) : Before(p, s[i]) <=> ~(p.hl /\ IsImage(s[i]))
  <2>1. ASSUME NEW i \in 1 .. Len(s)
        PROVE  Before(p, s[i]) <=> ~(p.hl /\ IsImage(s[i]))
    <3>1. s[i].path = 3 /\ ~s[i].hl
          BY DEF Plain3
    <3>2. p.path < 3 /\ p.hl \in BOOLEAN
          BY DEF Packets
    <3> QED BY <3>1, <3>2 DEF Before
  <2> QED BY <2>1
<1>2. CASE s # <<>> => Before(p, s[1])
  <2>1. Inserted(s, p) = Put(s, p, 0)
        BY <1>2, InsertedFirst
  <2>2. p.hl => \/ s # <<>> /\ ~IsImage(s[1])
                \/ \A j \in 0 + 1 .. Len(s) : ~IsImage(s[j])
    <3>1. CASE s = <<>>
      <4>1. 0 + 1 .. Len(s) = {}
            BY <3>1
      <4> QED BY <4>1
    <3>2. CASE s # <<>>
      <4>1. 1 \in 1 .. Len(s)
            BY <1>0, <3>2
      <4> QED BY <1>1, <1>2, <3>2, <4>1
    <3> QED BY <3>1, <3>2
  <2>3. 0 \in 0 .. Len(s) /\ ~(0 > 0)
        BY <1>0
  <2> QED BY <2>1, <2>2, <2>3
<1>3. CASE s # <<>> /\ ~Before(p, s[1])
  <2>1. 1 \in 1 .. Len(s)
        BY <1>0, <1>3
  <2> DEFINE Late == {i \in 1 .. Len(s) : ~Before(p, s[i])}
  <2>2. Late \in SUBSET Nat /\ 1 \in Late /\ \A i \in Late : i =< Len(s)
        BY <1>3, <2>1
  <2>3. PICK k \in Late : \A i \in Late : i =< k
    <3> HIDE DEF Late
    <3> QED BY <1>0, <2>2, LargestOf
  <2>4. \A j \in k + 1 .. Len(s) : Before(p, s[j])
    <3>1. ASSUME NEW j \in k + 1 .. Len(s), ~Before(p, s[j]) PROVE FALSE
      <4>1. k \in Nat /\ j \in 1 .. Len(s) /\ ~(j =< k)
            OBVIOUS
      <4> QED BY <2>3, <3>1, <4>1
    <3> QED BY <3>1
  <2>5. k \in 1 .. Len(s) /\ ~Before(p, s[k]) /\ k \in 0 .. Len(s)
        OBVIOUS
  <2>6. Inserted(s, p) = Put(s, p, k)
        BY <1>3, <2>4, <2>5, InsertedPut
  <2>7. p.hl
        BY <1>1, <1>3, <2>1
  <2>8. \A j \in k + 1 .. Len(s) : ~IsImage(s[j])
    <3>1. \A j \in k + 1 .. Len(s) : j \in 1 .. Len(s)
          BY <2>5
    <3> QED BY <1>1, <2>4, <2>7, <3>1
  <2> QED BY <2>5, <2>6, <2>7, <2>8
<1> QED BY <1>2, <1>3

Plain(s) == \A i \in 1 .. Len(s) : Plain3(s[i])

\* Packets of PATH3 alone keep their order.
LEMMA PrefixSorted ==
    ASSUME NEW s \in Seq(Packets), NEW f, Insertions(f, s),
           NEW k \in 0 .. Len(s), \A i \in 1 .. k : Plain3(s[i])
    PROVE  f[k] = SubSeq(s, 1, k)
<1>0. Len(s) \in Nat /\ k \in Nat /\ k =< Len(s)
      OBVIOUS
<1> DEFINE N == {n \in Nat : n =< k => f[n] = SubSeq(s, 1, n)}
<1>1. 0 \in N
  <2>1. f[0] = <<>> /\ SubSeq(s, 1, 0) = <<>>
        BY DEF Insertions
  <2> QED BY <2>1
<1>2. ASSUME NEW n \in N PROVE n + 1 \in N
  <2>1. CASE n + 1 =< k
    <3>1. /\ n \in Nat /\ n + 1 \in 1 .. k /\ (n + 1) - 1 = n /\ n =< k
          /\ n + 1 \in 1 .. Len(s)
          BY <1>0, <2>1
    <3> DEFINE t == SubSeq(s, 1, n)
    <3>2. f[n + 1] = Inserted(t, s[n + 1])
          BY <3>1 DEF Insertions
    <3>3. t \in Seq(Packets) /\ Len(t) = n /\ \A i \in 1 .. n : t[i] = s[i]
          BY <1>0, <3>1
    <3>4. s[n + 1] \in Packets /\ Plain3(s[n + 1]) /\ \A i \in 1 .. n : i \in 1 .. k
          BY <3>1
    <3>5. SubSeq(s, 1, n + 1) = Append(t, s[n + 1])
          BY <1>0, <3>1
    <3> HIDE DEF t
    <3>6. Inserted(t, s[n + 1]) = Append(t, s[n + 1])
          BY <3>3, <3>4, InsertedLast
    <3>7. f[n + 1] = SubSeq(s, 1, n + 1)
          BY ONLY <3>2, <3>5, <3>6
    <3> QED BY ONLY <3>1, <3>7
  <2> QED BY <2>1
<1>3. N = Nat
  <2>1. N \in SUBSET Nat
        OBVIOUS
  <2> HIDE DEF N
  <2> QED BY <1>1, <1>2, <2>1, SetInduction
<1>4. k \in N
      BY <1>0, <1>3
<1> QED BY <1>4

\* Sorting packets of PATH3 alone changes nothing.
LEMMA SortedPlain ==
    ASSUME NEW s \in Seq(Packets), Plain(s)
    PROVE  Sorted(s) = s
<1>1. PICK f : Insertions(f, s) /\ Sorted(s) = f[Len(s)]
      BY SortedSteps
<1>2. Len(s) \in 0 .. Len(s) /\ SubSeq(s, 1, Len(s)) = s
      OBVIOUS
<1> QED BY <1>1, <1>2, PrefixSorted DEF Plain

\* One packet of another path behind them.
LEMMA SortedOther ==
    ASSUME NEW s \in Seq(Packets), Plain(s), NEW p \in Packets, p.path # 3
    PROVE  \E k \in 0 .. Len(s) :
              /\ Sorted(Append(s, p)) = Put(s, p, k)
              /\ k > 0 => p.hl
              /\ p.hl => \/ k = 0 /\ s # <<>> /\ ~IsImage(s[1])
                         \/ \A j \in k + 1 .. Len(s) : ~IsImage(s[j])
<1> DEFINE t == Append(s, p)
<1>1. /\ t \in Seq(Packets) /\ Len(s) \in Nat /\ Len(t) = Len(s) + 1 /\ t[Len(s) + 1] = p
      /\ \A i \in 1 .. Len(s) : t[i] = s[i]
      /\ SubSeq(t, 1, Len(s)) = s
      OBVIOUS
<1> HIDE DEF t
<1>2. PICK f : Insertions(f, t) /\ Sorted(t) = f[Len(t)]
      BY <1>1, SortedSteps
<1>3. f[Len(s)] = s
  <2>1. Len(s) \in 0 .. Len(t) /\ \A i \in 1 .. Len(s) : Plain3(t[i])
        BY <1>1 DEF Plain
  <2> QED BY <1>1, <1>2, <2>1, PrefixSorted
<1>4. f[Len(t)] = Inserted(s, p)
  <2>1. Len(t) \in 1 .. Len(t) /\ Len(t) - 1 = Len(s)
        BY <1>1
  <2> QED BY <1>1, <1>2, <1>3, <2>1 DEF Insertions
<1>5. Sorted(Append(s, p)) = Inserted(s, p)
      BY <1>2, <1>4 DEF t
<1> QED BY <1>5, InsertedOther DEF Plain

\* A packet of another path among them is none of PATH3's.
LEMMA Path3OfPut ==
    ASSUME NEW s \in Seq(Packets), NEW p \in Packets, p.path # 3, NEW k \in 0 .. Len(s)
    PROVE  Path3Of(Put(s, p, k)) = Path3Of(s)
<1> DEFINE a == SubSeq(s, 1, k)
           b == SubSeq(s, k + 1, Len(s))
           o == <<p>>
<1>1. a \in Seq(Packets) /\ b \in Seq(Packets) /\ o \in Seq(Packets) /\ <<>> \in Seq(Packets)
      OBVIOUS
<1>2. a \o b = s
  <2>1. /\ Len(a) = k /\ Len(b) = Len(s) - k /\ k \in 0 .. Len(s) /\ Len(s) \in Nat
        /\ \A i \in 1 .. k : a[i] = s[i]
        /\ \A i \in 1 .. Len(s) - k : b[i] = s[k + i]
        OBVIOUS
  <2> HIDE DEF a, b
  <2>2. /\ a \o b \in Seq(Packets) /\ Len(a \o b) = Len(a) + Len(b)
        /\ \A i \in 1 .. Len(a) + Len(b) :
              (a \o b)[i] = IF i <= Len(a) THEN a[i] ELSE b[i - Len(a)]
        BY <1>1, ConcatProperties
  <2>3. Len(a \o b) = Len(s)
        BY <2>1, <2>2
  <2>4. ASSUME NEW i \in 1 .. Len(s) PROVE (a \o b)[i] = s[i]
    <3>1. CASE i <= k
      <4>1. i \in 1 .. k /\ i \in 1 .. Len(a) + Len(b) /\ i <= Len(a)
            BY <2>1, <3>1
      <4> QED BY <2>1, <2>2, <4>1
    <3>2. CASE ~(i <= k)
      <4>1. /\ i - k \in 1 .. Len(s) - k /\ i \in 1 .. Len(a) + Len(b) /\ ~(i <= Len(a))
            /\ k + (i - k) = i
            BY <2>1, <3>2
      <4>2. (a \o b)[i] = b[i - k]
            BY <2>1, <2>2, <4>1
      <4> QED BY <2>1, <4>1, <4>2
    <3> QED BY <3>1, <3>2
  <2> QED BY <2>2, <2>3, <2>4, SeqEqual
<1>3. o = Append(<<>>, p)
      OBVIOUS
<1>4. Put(s, p, k) = (a \o o) \o b
      BY DEF Put
<1> HIDE DEF a, b, o
<1>5. Path3Of(o) = <<>>
      BY <1>1, <1>3, Path3Append, Path3Empty DEF With3
<1>6. a \o o \in Seq(Packets) /\ Path3Of(a) \in Seq(Nat)
      BY <1>1, ConcatProperties, Path3Typed
<1>7. Path3Of(a \o o) = Path3Of(a)
  <2>1. Path3Of(a) \o <<>> = Path3Of(a)
        BY <1>6, ConcatEmptySeq
  <2> QED BY <1>1, <1>5, <2>1, Path3Joined
<1>8. Path3Of((a \o o) \o b) = Path3Of(a \o o) \o Path3Of(b)
      BY <1>1, <1>6, Path3Joined
<1>9. Path3Of(a \o b) = Path3Of(a) \o Path3Of(b)
      BY <1>1, Path3Joined
<1> QED BY <1>2, <1>4, <1>7, <1>8, <1>9

Rising(s) == \A i, j \in 1 .. Len(s) : i < j => s[i].id < s[j].id
Under(s, n) == \A i \in 1 .. Len(s) : s[i].id < n

\* What DrainedInOrder says of the packets that one drain hands over.
Handed(new) ==
    \A i, j \in 1 .. Len(new) :
        i < j =>
          /\ new[i].path = new[j].path => new[i].id < new[j].id
          /\ new[i].path = 3 /\ new[j].path # 3 => new[j].hl
          /\ new[i].hl /\ IsImage(new[j]) /\ new[j].id < new[i].id
             => \E k \in 1 .. Len(new) : /\ new[k].path = 3 /\ ~IsImage(new[k])
                                         /\ new[k].id < new[j].id

\* Packets of PATH3 in the order of sending are in order.
LEMMA PlainHanded ==
    ASSUME NEW s \in Seq(Packets), Plain(s), Rising(s)
    PROVE  Handed(s)
BY DEF Plain, Plain3, Rising, Handed

\* So they are with one packet of another path where it gets to.
LEMMA PutHanded ==
    ASSUME NEW s \in Seq(Packets), Plain(s), Rising(s),
           NEW p \in Packets, p.path # 3, NEW k \in 0 .. Len(s),
           k > 0 => p.hl,
           p.hl => \/ k = 0 /\ s # <<>> /\ ~IsImage(s[1])
                   \/ \A j \in k + 1 .. Len(s) : ~IsImage(s[j])
    PROVE  Handed(Put(s, p, k))
<1> DEFINE t == Put(s, p, k)
<1>0. Len(s) \in Nat /\ k \in Nat /\ k =< Len(s)
      OBVIOUS
<1>1. /\ t \in Seq(Packets) /\ Len(t) = Len(s) + 1 /\ t[k + 1] = p
      /\ \A i \in 1 .. k : t[i] = s[i]
      /\ \A i \in k + 2 .. Len(s) + 1 : t[i] = s[i - 1]
  <2>1. k \in 0 .. Len(s) /\ p \in Packets /\ s \in Seq(Packets)
        OBVIOUS
  <2> QED BY ONLY <2>1, PutFacts
<1> HIDE DEF t
<1> DEFINE Old(i) == IF i =< k THEN i ELSE i - 1
<1>2. ASSUME NEW i \in 1 .. Len(t), i # k + 1
      PROVE  Old(i) \in 1 .. Len(s) /\ t[i] = s[Old(i)]
  <2>1. CASE i =< k
    <3>1. i \in 1 .. k /\ i \in 1 .. Len(s)
          BY <1>0, <1>1, <2>1
    <3> QED BY <1>1, <2>1, <3>1
  <2>2. CASE ~(i =< k)
    <3>1. i \in k + 2 .. Len(s) + 1 /\ i - 1 \in 1 .. Len(s)
          BY <1>0, <1>1, <1>2, <2>2
    <3> QED BY <1>1, <2>2, <3>1
  <2> QED BY <2>1, <2>2
<1>3. ASSUME NEW i \in 1 .. Len(t), NEW j \in 1 .. Len(t), i # k + 1, j # k + 1, i < j
      PROVE  Old(i) < Old(j)
      BY <1>0, <1>3
<1>4. SUFFICES ASSUME NEW i \in 1 .. Len(t), NEW j \in 1 .. Len(t), i < j
      PROVE  /\ t[i].path = t[j].path => t[i].id < t[j].id
             /\ t[i].path = 3 /\ t[j].path # 3 => t[j].hl
             /\ t[i].hl /\ IsImage(t[j]) /\ t[j].id < t[i].id
                => \E m \in 1 .. Len(t) : /\ t[m].path = 3 /\ ~IsImage(t[m])
                                          /\ t[m].id < t[j].id
      BY DEF Handed, t
<1>5. ASSUME NEW m \in 1 .. Len(s) PROVE s[m].path = 3 /\ ~s[m].hl
      BY DEF Plain, Plain3
<1>6. CASE i # k + 1 /\ j # k + 1
  <2>1. /\ Old(i) \in 1 .. Len(s) /\ t[i] = s[Old(i)]
        /\ Old(j) \in 1 .. Len(s) /\ t[j] = s[Old(j)] /\ Old(i) < Old(j)
        BY <1>2, <1>3, <1>4, <1>6
  <2> HIDE DEF Old
  <2>2. t[i].path = 3 /\ ~t[i].hl /\ t[j].path = 3 /\ t[i].id < t[j].id
        BY <1>5, <2>1 DEF Rising
  <2> QED BY <2>2
<1>7. CASE j = k + 1
  <2>1. i # k + 1 /\ k > 0
        BY <1>0, <1>4, <1>7
  <2>2. t[i].path = 3 /\ ~t[i].hl /\ t[j] = p
    <3>1. Old(i) \in 1 .. Len(s) /\ t[i] = s[Old(i)]
          BY <1>2, <2>1
    <3> HIDE DEF Old
    <3> QED BY <1>1, <1>5, <1>7, <3>1
  <2> QED BY <2>1, <2>2
<1>8. CASE i = k + 1
  <2>1. j # k + 1 /\ j \in k + 2 .. Len(s) + 1 /\ j - 1 \in k + 1 .. Len(s) /\ j - 1 \in 1 .. Len(s)
        BY <1>0, <1>1, <1>4, <1>8
  <2>2. t[j] = s[j - 1] /\ t[i] = p
        BY <1>1, <1>8, <2>1
  <2>3. t[j].path = 3
        BY <1>5, <2>1, <2>2
  <2>4. ASSUME p.hl, IsImage(t[j])
        PROVE  \E m \in 1 .. Len(t) : /\ t[m].path = 3 /\ ~IsImage(t[m]) /\ t[m].id < t[j].id
    <3>1. k = 0 /\ s # <<>> /\ ~IsImage(s[1])
          BY <2>1, <2>2, <2>4
    <3>2. 1 \in 1 .. Len(s) /\ 2 \in 1 .. Len(t) /\ 2 \in k + 2 .. Len(s) + 1
          BY <1>0, <1>1, <3>1
    <3>3. t[2] = s[1]
      <4>1. t[2] = s[2 - 1]
            BY <1>1, <3>2
      <4> QED BY <4>1
    <3>4. j - 1 # 1
          BY <2>2, <2>4, <3>1
    <3>5. 1 < j - 1
          BY <2>1, <3>4
    <3>6. s[1].path = 3 /\ s[1].id < s[j - 1].id
          BY <1>5, <2>1, <3>2, <3>5 DEF Rising
    <3> QED BY <2>2, <3>1, <3>2, <3>3, <3>6
  <2> QED BY <2>2, <2>3, <2>4
<1> QED BY <1>6, <1>7, <1>8

\* What is behind the packets the GS had.
LEMMA Behind ==
    ASSUME NEW a \in Seq(Packets), NEW r \in Seq(Packets)
    PROVE  SubSeq(a \o r, Len(a) + 1, Len(a \o r)) = r
<1> DEFINE c == a \o r
           d == SubSeq(c, Len(a) + 1, Len(c))
<1>1. /\ c \in Seq(Packets) /\ Len(c) = Len(a) + Len(r) /\ Len(a) \in Nat /\ Len(r) \in Nat
      /\ \A i \in 1 .. Len(a) + Len(r) : c[i] = IF i <= Len(a) THEN a[i] ELSE r[i - Len(a)]
      BY ConcatProperties
<1> HIDE DEF c
<1>2. /\ d \in Seq(Packets) /\ Len(d) = Len(r)
      /\ \A i \in 1 .. Len(r) : d[i] = c[Len(a) + i]
      BY <1>1
<1> HIDE DEF d
<1>3. ASSUME NEW i \in 1 .. Len(r) PROVE d[i] = r[i]
  <2>1. Len(a) + i \in 1 .. Len(a) + Len(r) /\ ~(Len(a) + i <= Len(a)) /\ (Len(a) + i) - Len(a) = i
        BY <1>1
  <2> QED BY <1>1, <1>2, <2>1
<1>4. d = r
      BY <1>2, <1>3, SeqEqual
<1> QED BY <1>4 DEF c, d

Typed ==
    /\ queue \in Seq(Packets) /\ fifo \in Seq(Packets) /\ done \in Seq(Packets)
    /\ masked \in BOOLEAN

\* What the paths hold is PATH3's and numbered in the order of sending.
Numbered ==
    /\ Plain(queue) /\ Rising(queue) /\ Under(queue, NextId)
    /\ Plain(fifo) /\ Rising(fifo) /\ Under(fifo, NextId)
    /\ \A i \in 1 .. Len(queue), j \in 1 .. Len(fifo) : queue[i].id < fifo[j].id
    /\ fifo # <<>> => masked

PathInv == Typed /\ Numbered /\ Path3InOrder

\* A packet that is sent gets the next number.
IsNext(p) == p \in Packets /\ p.id = NextId /\ (p.path = 3 => ~p.hl)

\* The places of two sequences in a row.
LEMMA Joined ==
    ASSUME NEW a \in Seq(Packets), NEW b \in Seq(Packets)
    PROVE  /\ a \o b \in Seq(Packets) /\ Len(a \o b) = Len(a) + Len(b)
           /\ Len(a) \in Nat /\ Len(b) \in Nat
           /\ \A i \in 1 .. Len(a) : (a \o b)[i] = a[i]
           /\ \A i \in 1 .. Len(a) + Len(b) :
                 \/ i \in 1 .. Len(a) /\ (a \o b)[i] = a[i]
                 \/ i - Len(a) \in 1 .. Len(b) /\ ~(i =< Len(a)) /\ (a \o b)[i] = b[i - Len(a)]
<1>1. /\ a \o b \in Seq(Packets) /\ Len(a \o b) = Len(a) + Len(b)
      /\ \A i \in 1 .. Len(a) + Len(b) :
            (a \o b)[i] = IF i <= Len(a) THEN a[i] ELSE b[i - Len(a)]
      BY ConcatProperties
<1>2. Len(a) \in Nat /\ Len(b) \in Nat
      OBVIOUS
<1>3. ASSUME NEW i \in 1 .. Len(a) + Len(b)
      PROVE  \/ i \in 1 .. Len(a) /\ (a \o b)[i] = a[i]
             \/ i - Len(a) \in 1 .. Len(b) /\ ~(i =< Len(a)) /\ (a \o b)[i] = b[i - Len(a)]
  <2>1. CASE i =< Len(a)
        BY <1>1, <1>2, <2>1
  <2>2. CASE ~(i =< Len(a))
    <3>1. i - Len(a) \in 1 .. Len(b)
          BY <1>2, <2>2
    <3> QED BY <1>1, <2>2, <3>1
  <2> QED BY <2>1, <2>2
<1>4. ASSUME NEW i \in 1 .. Len(a) PROVE (a \o b)[i] = a[i]
  <2>1. i \in 1 .. Len(a) + Len(b) /\ i =< Len(a)
        BY <1>2
  <2> QED BY <1>1, <2>1
<1> QED BY <1>1, <1>2, <1>3, <1>4

\* Numbered packets behind lower ones are numbered.
LEMMA PlainJoined ==
    ASSUME NEW a \in Seq(Packets), NEW b \in Seq(Packets), Plain(a), Plain(b),
           Rising(a), Rising(b),
           \A i \in 1 .. Len(a), j \in 1 .. Len(b) : a[i].id < b[j].id
    PROVE  Plain(a \o b) /\ Rising(a \o b)
<1> DEFINE c == a \o b
<1>1. /\ c \in Seq(Packets) /\ Len(c) = Len(a) + Len(b) /\ Len(a) \in Nat /\ Len(b) \in Nat
      /\ \A i \in 1 .. Len(a) + Len(b) :
            \/ i \in 1 .. Len(a) /\ c[i] = a[i]
            \/ i - Len(a) \in 1 .. Len(b) /\ ~(i =< Len(a)) /\ c[i] = b[i - Len(a)]
      BY Joined, Zenon
<1> HIDE DEF c
<1>2. Plain(c)
      BY <1>1 DEF Plain
<1>3. ASSUME NEW i \in 1 .. Len(c), NEW j \in 1 .. Len(c), i < j
      PROVE  c[i].id < c[j].id
  <2>1. i \in 1 .. Len(a) + Len(b) /\ j \in 1 .. Len(a) + Len(b)
        BY <1>1
  <2>2. CASE i \in 1 .. Len(a) /\ c[i] = a[i]
    <3>1. CASE j \in 1 .. Len(a) /\ c[j] = a[j]
          BY <1>3, <2>2, <3>1 DEF Rising
    <3>2. CASE j - Len(a) \in 1 .. Len(b) /\ c[j] = b[j - Len(a)]
          BY <2>2, <3>2
    <3> QED BY <1>1, <2>1, <3>1, <3>2
  <2>3. CASE i - Len(a) \in 1 .. Len(b) /\ ~(i =< Len(a)) /\ c[i] = b[i - Len(a)]
    <3>1. j - Len(a) \in 1 .. Len(b) /\ c[j] = b[j - Len(a)] /\ i - Len(a) < j - Len(a)
      <4>1. ~(j \in 1 .. Len(a))
            BY <1>1, <1>3, <2>1, <2>3
      <4>2. i - Len(a) < j - Len(a)
            BY <1>1, <1>3, <2>1
      <4> QED BY <1>1, <2>1, <4>1, <4>2
    <3> QED BY <2>3, <3>1 DEF Rising
  <2> QED BY <1>1, <2>1, <2>2, <2>3
<1> QED BY <1>2, <1>3 DEF Rising, c

\* So is the next packet behind them.
LEMMA PlainAppended ==
    ASSUME NEW s \in Seq(Packets), Plain(s), Rising(s), NEW n \in Nat, Under(s, n),
           NEW p \in Packets, Plain3(p), p.id = n
    PROVE  /\ Append(s, p) \in Seq(Packets) /\ Len(Append(s, p)) = Len(s) + 1
           /\ Plain(Append(s, p)) /\ Rising(Append(s, p)) /\ Under(Append(s, p), n + 1)
<1> DEFINE t == Append(s, p)
<1>1. /\ t \in Seq(Packets) /\ Len(s) \in Nat /\ Len(t) = Len(s) + 1 /\ t[Len(s) + 1] = p
      /\ \A i \in 1 .. Len(s) : t[i] = s[i]
      OBVIOUS
<1> HIDE DEF t
<1>2. \A i \in 1 .. Len(t) : i \in 1 .. Len(s) \/ i = Len(s) + 1
      BY <1>1
<1>3. Plain(t)
      BY <1>1, <1>2 DEF Plain
<1>4. ASSUME NEW i \in 1 .. Len(s) PROVE t[i].id \in Nat /\ t[i].id < n
  <2>1. s[i] \in Packets
        OBVIOUS
  <2> QED BY <1>1, <2>1 DEF Under, Packets
<1>5. Under(t, n + 1)
  <2>1. ASSUME NEW i \in 1 .. Len(t) PROVE t[i].id < n + 1
    <3>1. CASE i \in 1 .. Len(s)
          BY <1>4, <3>1
    <3>2. CASE i = Len(s) + 1
          BY <1>1, <3>2
    <3> QED BY <1>2, <3>1, <3>2
  <2> QED BY <2>1 DEF Under
<1>6. ASSUME NEW i \in 1 .. Len(t), NEW j \in 1 .. Len(t), i < j
      PROVE  t[i].id < t[j].id
  <2>1. i \in 1 .. Len(s)
        BY <1>1, <1>6
  <2>2. CASE j \in 1 .. Len(s)
        BY <1>1, <1>6, <2>1, <2>2 DEF Rising
  <2>3. CASE j = Len(s) + 1
        BY <1>1, <1>4, <2>1, <2>3
  <2> QED BY <1>2, <2>2, <2>3
<1> QED BY <1>1, <1>3, <1>5, <1>6 DEF Rising, t

\* The step property for a step after which the GS has r in addition.
HandedOver == LET new == SubSeq(done', Len(done) + 1, Len(done')) IN Handed(new)

\* A step that hands over nothing is in order.
LEMMA NothingHanded ==
    ASSUME Typed, done' = done
    PROVE  HandedOver
<1>1. SubSeq(done', Len(done) + 1, Len(done')) = <<>>
      BY DEF Typed
<1>2. Handed(<<>>)
      BY DEF Handed
<1> QED BY <1>1, <1>2 DEF HandedOver

\* A step is in order when what it adds is.
LEMMA HandedBehind ==
    ASSUME Typed, NEW r \in Seq(Packets), Handed(r), done' = done \o r
    PROVE  HandedOver
BY Behind DEF Typed, HandedOver

\* What is below a number is below the next.
LEMMA UnderMore ==
    ASSUME NEW s \in Seq(Packets), NEW n \in Nat, Under(s, n)
    PROVE  Under(s, n + 1)
<1>1. ASSUME NEW i \in 1 .. Len(s) PROVE s[i].id < n + 1
  <2>1. s[i] \in Packets
        OBVIOUS
  <2>2. s[i].id \in Nat /\ s[i].id < n
        BY <2>1 DEF Under, Packets
  <2> QED BY <2>2
<1> QED BY <1>1 DEF Under

\* No packets are numbered in any way.
LEMMA EmptyNumbered ==
    /\ <<>> \in Seq(Packets) /\ Len(<<>>) = 0 /\ Plain(<<>>) /\ Rising(<<>>)
    /\ \A n : Under(<<>>, n)
BY DEF Plain, Rising, Under

\* The ids of PATH3, and the next packet's.
LEMMA IdsTyped ==
    ASSUME Typed
    PROVE  /\ Path3Of(done) \in Seq(Nat) /\ Path3Of(queue) \in Seq(Nat)
           /\ Path3Of(fifo) \in Seq(Nat) /\ NextId \in Nat
           /\ Len(done) \in Nat /\ Len(queue) \in Nat /\ Len(fifo) \in Nat
<1>1. Path3Of(done) \in Seq(Nat) /\ Path3Of(queue) \in Seq(Nat) /\ Path3Of(fifo) \in Seq(Nat)
      BY Path3Typed DEF Typed
<1>2. Len(done) \in Nat /\ Len(queue) \in Nat /\ Len(fifo) \in Nat
      BY DEF Typed
<1> QED BY <1>1, <1>2 DEF NextId

\* A packet of PATH3 is held back.
LEMMA HeldKeeps ==
    ASSUME PathInv, NEW p, IsNext(p), p.path = 3, masked,
           fifo' = Append(fifo, p), sent' = Append(sent, p.id), masked' = masked,
           \/ queue' = queue /\ done' = done
           \/ queue' = <<>> /\ done' = done \o queue
    PROVE  PathInv' /\ HandedOver
<1>1. /\ p \in Packets /\ p.id = NextId /\ Plain3(p) /\ Typed /\ Numbered
      /\ sent = Path3Of(done) \o Path3Of(queue) \o Path3Of(fifo)
      BY DEF IsNext, Plain3, PathInv, Path3InOrder
<1> DEFINE A == Path3Of(done)
           B == Path3Of(queue)
           C == Path3Of(fifo)
           n == NextId
<1>2. /\ A \in Seq(Nat) /\ B \in Seq(Nat) /\ C \in Seq(Nat) /\ n \in Nat /\ p.id \in Nat
      /\ Len(done) \in Nat /\ Len(queue) \in Nat /\ Len(fifo) \in Nat
      BY <1>1, IdsTyped
<1>3. /\ fifo' \in Seq(Packets) /\ Len(fifo') = Len(fifo) + 1
      /\ Plain(fifo') /\ Rising(fifo') /\ Under(fifo', n + 1)
      BY <1>1, <1>2, PlainAppended DEF Typed, Numbered
<1>4. Path3Of(fifo') = Append(C, p.id)
      BY <1>1, Path3Append DEF Typed, Plain3, With3
<1>5. Under(queue, n + 1)
      BY <1>1, <1>2, UnderMore DEF Typed, Numbered
<1>6. \A j \in 1 .. Len(fifo') : \/ j \in 1 .. Len(fifo) /\ fifo'[j] = fifo[j]
                                 \/ fifo'[j] = p
  <2>1. /\ fifo'[Len(fifo) + 1] = p /\ \A j \in 1 .. Len(fifo) : fifo'[j] = fifo[j]
        BY <1>1 DEF Typed
  <2>2. \A j \in 1 .. Len(fifo') : j \in 1 .. Len(fifo) \/ j = Len(fifo) + 1
        BY <1>2, <1>3
  <2> QED BY <2>1, <2>2
<1>7. \A i \in 1 .. Len(queue), j \in 1 .. Len(fifo') : queue[i].id < fifo'[j].id
  <2>1. ASSUME NEW i \in 1 .. Len(queue), NEW j \in 1 .. Len(fifo')
        PROVE  queue[i].id < fifo'[j].id
    <3>1. queue[i].id < n
          BY <1>1 DEF Numbered, Under
    <3>2. CASE fifo'[j] = p
          BY <1>1, <3>1, <3>2
    <3>3. CASE j \in 1 .. Len(fifo) /\ fifo'[j] = fifo[j]
          BY <1>1, <3>3 DEF Numbered
    <3> QED BY <1>6, <3>2, <3>3
  <2> QED BY <2>1
<1>8. sent' = (A \o B) \o Append(C, p.id)
  <2>1. A \o B \in Seq(Nat)
        BY <1>2, ConcatProperties
  <2> QED BY <1>1, <1>2, <2>1, AppendJoined
<1>9. CASE queue' = queue /\ done' = done
  <2>1. NextId' = n + 1
        BY <1>2, <1>3, <1>9 DEF NextId
  <2>2. Typed'
        BY <1>1, <1>3, <1>9 DEF Typed
  <2>3. Numbered'
        BY <1>1, <1>3, <1>5, <1>7, <1>9, <2>1 DEF Numbered
  <2>4. Path3InOrder'
        BY <1>4, <1>8, <1>9 DEF Path3InOrder
  <2>5. HandedOver
        BY <1>1, <1>9, NothingHanded
  <2> QED BY <2>2, <2>3, <2>4, <2>5 DEF PathInv
<1>10. CASE queue' = <<>> /\ done' = done \o queue
  <2>1. done' \in Seq(Packets) /\ Len(done') = Len(done) + Len(queue)
        BY <1>1, <1>10, ConcatProperties DEF Typed
  <2>2. NextId' = n + 1
        BY <1>2, <1>3, <1>10, <2>1, EmptyNumbered DEF NextId
  <2>3. Typed'
        BY <1>1, <1>3, <1>10, <2>1, EmptyNumbered DEF Typed
  <2>4. Numbered'
    <3>1. \A i \in 1 .. Len(queue'), j \in 1 .. Len(fifo') : queue'[i].id < fifo'[j].id
      <4>1. 1 .. Len(queue') = {}
            BY <1>10, EmptyNumbered
      <4> QED BY <4>1
    <3> QED BY <1>1, <1>3, <1>10, <2>2, <3>1, EmptyNumbered DEF Numbered
  <2>5. Path3InOrder'
    <3>1. Path3Of(done') = A \o B
          BY <1>1, <1>10, Path3Joined DEF Typed
    <3>2. Path3Of(queue') = <<>>
          BY <1>10, Path3Empty
    <3>3. (A \o B) \o <<>> = A \o B
      <4>1. A \o B \in Seq(Nat)
            BY <1>2, ConcatProperties
      <4> QED BY <4>1, ConcatEmptySeq
    <3> QED BY <1>4, <1>8, <3>1, <3>2, <3>3 DEF Path3InOrder
  <2>6. HandedOver
        BY <1>1, <1>10, PlainHanded, HandedBehind DEF Typed, Numbered
  <2> QED BY <2>3, <2>4, <2>5, <2>6 DEF PathInv
<1> QED BY <1>9, <1>10

\* A packet of PATH3 that is not held back.
LEMMA QueuedKeeps ==
    ASSUME PathInv, NEW p, IsNext(p), p.path = 3, fifo = <<>>, fifo' = <<>>,
           sent' = Append(sent, p.id), masked' = masked,
           \/ queue' = Append(queue, p) /\ done' = done
           \/ queue' = <<>> /\ done' = done \o Append(queue, p)
    PROVE  PathInv' /\ HandedOver
<1>1. /\ p \in Packets /\ p.id = NextId /\ Plain3(p) /\ Typed /\ Numbered
      /\ sent = Path3Of(done) \o Path3Of(queue) \o Path3Of(fifo)
      BY DEF IsNext, Plain3, PathInv, Path3InOrder
<1> DEFINE A == Path3Of(done)
           B == Path3Of(queue)
           q == Append(queue, p)
           n == NextId
<1>2. /\ A \in Seq(Nat) /\ B \in Seq(Nat) /\ n \in Nat /\ p.id \in Nat
      /\ Len(done) \in Nat /\ Len(queue) \in Nat /\ Len(fifo) = 0 /\ Len(fifo') = 0
      BY <1>1, IdsTyped
<1>3. /\ q \in Seq(Packets) /\ Len(q) = Len(queue) + 1
      /\ Plain(q) /\ Rising(q) /\ Under(q, n + 1)
      BY <1>1, <1>2, PlainAppended DEF Typed, Numbered
<1>4. Path3Of(q) = Append(B, p.id)
      BY <1>1, Path3Append DEF Typed, Plain3, With3
<1>5. Append(B, p.id) \in Seq(Nat) /\ A \o Append(B, p.id) \in Seq(Nat)
  <2>1. Append(B, p.id) \in Seq(Nat)
        BY <1>2
  <2> QED BY <1>2, <2>1, ConcatProperties
<1>6. sent' = A \o Append(B, p.id)
  <2>1. (A \o B) \o <<>> = A \o B
    <3>1. A \o B \in Seq(Nat)
          BY <1>2, ConcatProperties
    <3> QED BY <3>1, ConcatEmptySeq
  <2>2. sent = A \o B
        BY <1>1, <2>1, Path3Empty
  <2> QED BY <1>2, <2>2, AppendJoined
<1>7. (A \o Append(B, p.id)) \o <<>> = A \o Append(B, p.id)
      BY <1>5, ConcatEmptySeq
<1> HIDE DEF q
<1>8. \A s : \A i \in 1 .. Len(s), j \in 1 .. Len(fifo') : s[i].id < fifo'[j].id
  <2>1. 1 .. Len(fifo') = {}
        BY <1>2
  <2> QED BY <2>1
<1>9. CASE queue' = q /\ done' = done
  <2>1. NextId' = n + 1
    <3>1. Len(done') = Len(done) /\ Len(queue') = Len(queue) + 1 /\ Len(fifo') = Len(fifo)
          BY <1>2, <1>3, <1>9
    <3> QED BY ONLY <1>2, <3>1 DEF NextId
  <2>2. Typed'
        BY <1>1, <1>3, <1>9, EmptyNumbered DEF Typed
  <2>3. Numbered'
        BY <1>3, <1>8, <1>9, <2>1, EmptyNumbered DEF Numbered
  <2>4. Path3InOrder'
        BY <1>4, <1>6, <1>7, <1>9, Path3Empty DEF Path3InOrder
  <2>5. HandedOver
        BY <1>1, <1>9, NothingHanded
  <2> QED BY <2>2, <2>3, <2>4, <2>5 DEF PathInv
<1>10. CASE queue' = <<>> /\ done' = done \o q
  <2>1. done' \in Seq(Packets) /\ Len(done') = Len(done) + Len(q)
        BY <1>1, <1>3, <1>10, ConcatProperties DEF Typed
  <2>2. NextId' = n + 1
        BY <1>2, <1>3, <1>10, <2>1, EmptyNumbered DEF NextId
  <2>3. Typed'
        BY <1>1, <1>10, <2>1, EmptyNumbered DEF Typed
  <2>4. Numbered'
        BY <1>8, <1>10, <2>2, EmptyNumbered DEF Numbered
  <2>5. Path3InOrder'
    <3>1. Path3Of(done') = A \o Append(B, p.id)
          BY <1>1, <1>3, <1>4, <1>10, Path3Joined DEF Typed
    <3> QED BY <1>6, <1>7, <1>10, <3>1, Path3Empty DEF Path3InOrder
  <2>6. HandedOver
        BY <1>1, <1>3, <1>10, PlainHanded, HandedBehind
  <2> QED BY <2>3, <2>4, <2>5, <2>6 DEF PathInv
<1> QED BY <1>9, <1>10 DEF q

\* A packet of another path, with which the arbiter drains.
LEMMA OtherKeeps ==
    ASSUME PathInv, NEW p, IsNext(p), p.path # 3, fifo' = fifo,
           sent' = sent, masked' = masked, queue' = <<>>,
           done' = done \o Sorted(Append(queue, p))
    PROVE  PathInv' /\ HandedOver
<1>1. /\ p \in Packets /\ Typed /\ Numbered
      /\ sent = Path3Of(done) \o Path3Of(queue) \o Path3Of(fifo)
      BY DEF IsNext, PathInv, Path3InOrder
<1> DEFINE A == Path3Of(done)
           B == Path3Of(queue)
           n == NextId
<1>2. /\ A \in Seq(Nat) /\ B \in Seq(Nat) /\ n \in Nat
      /\ Len(done) \in Nat /\ Len(queue) \in Nat /\ Len(fifo) \in Nat
      BY <1>1, IdsTyped
<1>3. PICK k \in 0 .. Len(queue) :
         /\ Sorted(Append(queue, p)) = Put(queue, p, k)
         /\ k > 0 => p.hl
         /\ p.hl => \/ k = 0 /\ queue # <<>> /\ ~IsImage(queue[1])
                    \/ \A j \in k + 1 .. Len(queue) : ~IsImage(queue[j])
      BY <1>1, SortedOther DEF Typed, Numbered
<1> DEFINE r == Put(queue, p, k)
<1>4. r \in Seq(Packets) /\ Len(r) = Len(queue) + 1 /\ Path3Of(r) = B
      BY <1>1, PutFacts, Path3OfPut, SMTT(30) DEF Typed
<1>5. Handed(r)
      BY <1>1, <1>3, PutHanded DEF Typed, Numbered
<1>6. done' = done \o r
      BY <1>3
<1> HIDE DEF r
<1>7. done' \in Seq(Packets) /\ Len(done') = Len(done) + Len(r)
  <2>1. done \in Seq(Packets)
        BY <1>1 DEF Typed
  <2> QED BY ONLY <1>4, <1>6, <2>1, ConcatProperties
<1>8. NextId' = n + 1
      BY <1>2, <1>4, <1>7, EmptyNumbered DEF NextId
<1>9. Typed'
      BY <1>1, <1>7, EmptyNumbered DEF Typed
<1>10. Numbered'
  <2>1. \A i \in 1 .. Len(queue'), j \in 1 .. Len(fifo') : queue'[i].id < fifo'[j].id
    <3>1. 1 .. Len(queue') = {}
          BY EmptyNumbered
    <3> QED BY <3>1
  <2>2. Under(fifo, n + 1)
        BY <1>1, <1>2, UnderMore DEF Typed, Numbered
  <2> QED BY <1>1, <1>8, <2>1, <2>2, EmptyNumbered DEF Numbered
<1>11. Path3InOrder'
  <2>1. Path3Of(done') = A \o B
        BY <1>1, <1>4, <1>6, Path3Joined DEF Typed
  <2>2. (A \o B) \o <<>> = A \o B
    <3>1. A \o B \in Seq(Nat)
          BY <1>2, ConcatProperties
    <3> QED BY <3>1, ConcatEmptySeq
  <2> QED BY <1>1, <2>1, <2>2, Path3Empty DEF Path3InOrder
<1>12. HandedOver
       BY <1>1, <1>4, <1>5, <1>6, HandedBehind
<1> QED BY <1>9, <1>10, <1>11, <1>12 DEF PathInv

\* The end of the mask.
LEMMA LetOutKeeps ==
    ASSUME PathInv, masked' \in BOOLEAN, sent' = sent,
           \/ fifo' = <<>> /\ queue' = <<>> /\ done' = done \o (queue \o fifo)
           \/ fifo' = fifo /\ queue' = queue /\ done' = done /\ (fifo # <<>> => masked')
    PROVE  PathInv' /\ HandedOver
<1>1. /\ Typed /\ Numbered
      /\ sent = Path3Of(done) \o Path3Of(queue) \o Path3Of(fifo)
      BY DEF PathInv, Path3InOrder
<1>2. CASE fifo' = <<>> /\ queue' = <<>> /\ done' = done \o (queue \o fifo)
  <2> DEFINE A == Path3Of(done)
             B == Path3Of(queue)
             C == Path3Of(fifo)
             r == queue \o fifo
  <2>1. /\ A \in Seq(Nat) /\ B \in Seq(Nat) /\ C \in Seq(Nat)
        BY <1>1, IdsTyped
  <2>2. r \in Seq(Packets) /\ Plain(r) /\ Rising(r) /\ Path3Of(r) = B \o C
        BY <1>1, PlainJoined, Path3Joined, ConcatProperties DEF Typed, Numbered
  <2> HIDE DEF r
  <2>3. done' = done \o r
        BY <1>2 DEF r
  <2>4. done' \in Seq(Packets) /\ Path3Of(done') = A \o (B \o C)
        BY <1>1, <2>2, <2>3, Path3Joined, ConcatProperties DEF Typed
  <2>5. Typed'
        BY <1>1, <1>2, <2>4, EmptyNumbered DEF Typed
  <2>6. Numbered'
    <3>1. \A i \in 1 .. Len(queue'), j \in 1 .. Len(fifo') : queue'[i].id < fifo'[j].id
      <4>1. 1 .. Len(queue') = {}
            BY <1>2, EmptyNumbered
      <4> QED BY <4>1
    <3> QED BY <1>2, <3>1, EmptyNumbered DEF Numbered
  <2>7. Path3InOrder'
    <3>1. A \o (B \o C) = (A \o B) \o C
      <4> HIDE DEF A, B, C
      <4> QED BY ONLY <2>1, ThreeJoined
    <3>2. ((A \o (B \o C)) \o <<>>) \o <<>> = A \o (B \o C)
      <4>1. A \o (B \o C) \in Seq(Nat)
        <5>1. B \o C \in Seq(Nat)
              BY <2>1, ConcatProperties
        <5> QED BY <2>1, <5>1, ConcatProperties
      <4>2. (A \o (B \o C)) \o <<>> = A \o (B \o C)
            BY <4>1, ConcatEmptySeq
      <4> QED BY <4>2
    <3> QED BY <1>1, <1>2, <2>4, <3>1, <3>2, Path3Empty DEF Path3InOrder
  <2>8. HandedOver
        BY <1>1, <2>2, <2>3, PlainHanded, HandedBehind
  <2> QED BY <2>5, <2>6, <2>7, <2>8 DEF PathInv
<1>3. CASE fifo' = fifo /\ queue' = queue /\ done' = done /\ (fifo # <<>> => masked')
  <2>1. Typed'
        BY <1>1, <1>3 DEF Typed
  <2>2. NextId' = NextId
        BY <1>3 DEF NextId
  <2>3. Numbered'
        BY <1>1, <1>3, <2>2 DEF Numbered
  <2>4. Path3InOrder'
        BY <1>1, <1>3 DEF Path3InOrder
  <2>5. HandedOver
        BY <1>1, <1>3, NothingHanded
  <2> QED BY <2>1, <2>3, <2>4, <2>5 DEF PathInv
<1> QED BY <1>2, <1>3

(***************************************************************************)
(* VIF1 and the buffers.                                                   *)
(***************************************************************************)
VifTyped ==
    /\ vif \in Seq(Items)
    /\ pending \in [left : 0 .. MaxCount, hl : BOOLEAN] /\ owed \in 0 .. MaxCount

Address == 0 .. 1023
Registers(S, T) == [base : S, ofst : S, tops : S, top : S, dbf : T]

BuffersTyped ==
    /\ vu \in Registers(Address, BOOLEAN)
    /\ starts \in 0 .. 2

\* From the first program on TOPS is the buffer that DBF names.
Placed == starts >= 1 => vu.tops = IF vu.dbf THEN (vu.base + vu.ofst) % 1024 ELSE vu.base

BuffersInv == BuffersTyped /\ Placed /\ BuffersAlternate

\* Half a memory further is another address.
LEMMA Wrapped ==
    ASSUME NEW v, v.base \in 0 .. 1023, v.ofst \in 0 .. 1023
    PROVE  /\ (v.base + v.ofst) % 1024 \in 0 .. 1023
           /\ v.ofst # 0 => (v.base + v.ofst) % 1024 # v.base
<1> DEFINE b == v.base
           o == v.ofst
<1>1. b \in 0 .. 1023 /\ o \in 0 .. 1023
      OBVIOUS
<1> HIDE DEF b, o
<1>2. (b + o) % 1024 \in 0 .. 1023 /\ (o # 0 => (b + o) % 1024 # b)
  <2>1. CASE b + o < 1024
    <3>1. (b + o) % 1024 = b + o
          BY ONLY <1>1, <2>1
    <3> QED BY ONLY <1>1, <2>1, <3>1
  <2>2. CASE ~(b + o < 1024)
    <3>1. (b + o) % 1024 = b + o - 1024
          BY ONLY <1>1, <2>2
    <3> QED BY ONLY <1>1, <2>2, <3>1
  <2> QED BY <2>1, <2>2
<1> QED BY <1>2 DEF b, o

\* Steps of the paths leave the buffers alone.
LEMMA BuffersUnchanged ==
    ASSUME BuffersInv, vu' = vu, starts' = starts
    PROVE  BuffersInv'
BY DEF BuffersInv, BuffersTyped, Placed, BuffersAlternate

\* Every step keeps TOPS where DBF says and away from TOP.
LEMMA BuffersStep ==
    ASSUME BuffersInv, VifTyped, [Next]_vars
    PROVE  BuffersInv'
<1>a. /\ vu.base \in Address /\ vu.ofst \in Address /\ vu.tops \in Address
      /\ vu.dbf \in BOOLEAN /\ vu \in Registers(Address, BOOLEAN)
      BY DEF BuffersInv, BuffersTyped, Registers
<1>0. /\ vu.base \in 0 .. 1023 /\ vu.ofst \in 0 .. 1023 /\ vu.tops \in 0 .. 1023
      /\ vu.dbf \in BOOLEAN /\ starts \in 0 .. 2
      BY <1>a DEF BuffersInv, BuffersTyped, Address
<1>1. ASSUME NEW quads \in GifPackets, GifTransfer(quads) PROVE BuffersInv'
      BY <1>1, BuffersUnchanged DEF GifTransfer
<1>2. ASSUME NEW quads \in GifPackets, QueuePath3(quads) PROVE BuffersInv'
      BY <1>2, BuffersUnchanged DEF QueuePath3
<1>3. ASSUME Vif1Transfer PROVE BuffersInv'
      BY <1>3, BuffersUnchanged DEF Vif1Transfer
<1>4. ASSUME Continue PROVE BuffersInv'
  <2>1. vu' = vu /\ starts' = starts
        BY <1>4 DEF Continue
  <2> QED BY <2>1, BuffersUnchanged
<1>5. ASSUME NEW hl \in BOOLEAN, Direct(hl) PROVE BuffersInv'
      BY <1>5, BuffersUnchanged DEF Direct
<1>6. ASSUME MskPath3 PROVE BuffersInv'
      BY <1>6, BuffersUnchanged DEF MskPath3
<1>7. ASSUME Mscal PROVE BuffersInv'
  <2>1. vu' = Swapped(vu) /\ starts' = Least(starts + 1, 2)
        BY <1>7 DEF Mscal
  <2> DEFINE other == (vu.base + vu.ofst) % 1024
             next == IF vu.dbf THEN vu.base ELSE other
  <2>2. other \in 0 .. 1023 /\ (vu.ofst # 0 => other # vu.base)
    <3>1. vu.base \in 0 .. 1023 /\ vu.ofst \in 0 .. 1023
          BY <1>0
    <3> QED BY ONLY <3>1, Wrapped
  <2>3. next \in 0 .. 1023 /\ next = IF ~vu.dbf THEN other ELSE vu.base
    <3> HIDE DEF other
    <3> QED BY ONLY <1>0, <2>2
  <2>4. starts' \in 0 .. 2 /\ (starts' = 2 => starts >= 1)
        BY <1>0, <2>1 DEF Least
  <2>5. starts >= 1 => vu.tops = IF vu.dbf THEN other ELSE vu.base
        BY DEF BuffersInv, Placed
  <2>6. vu' = [vu EXCEPT !.top = vu.tops, !.dbf = ~vu.dbf, !.tops = next]
        BY ONLY <2>1 DEF Swapped
  <2>a. next \in Address
        BY ONLY <2>3 DEF Address
  <2> DEFINE turned == ~vu.dbf
  <2>7. turned \in BOOLEAN
        OBVIOUS
  <2> HIDE DEF next, turned
  <2>8. /\ vu' \in Registers(Address, BOOLEAN) /\ vu'.base = vu.base /\ vu'.ofst = vu.ofst
        /\ vu'.top = vu.tops /\ vu'.dbf = turned /\ vu'.tops = next
    <3>1. vu' = [vu EXCEPT !.top = vu.tops, !.dbf = turned, !.tops = next]
          BY ONLY <2>6 DEF turned
    <3> DEFINE bits == BOOLEAN
               w == vu'
               v == vu
    <3>2. /\ v \in Registers(Address, bits) /\ v.tops \in Address /\ next \in Address
          /\ turned \in bits /\ w = [v EXCEPT !.top = v.tops, !.dbf = turned, !.tops = next]
          BY ONLY <1>a, <2>a, <2>7, <3>1
    <3> HIDE DEF bits, w, v
    <3>3. /\ w \in Registers(Address, bits) /\ w.base = v.base /\ w.ofst = v.ofst
          /\ w.top = v.tops /\ w.dbf = turned /\ w.tops = next
          BY ONLY <3>2 DEF Registers
    <3> QED BY <3>3 DEF bits, w, v
  <2>9. (vu'.base + vu'.ofst) % 1024 = other
        BY ONLY <2>8
  <2> HIDE DEF other
  <2>10. Placed'
    <3>1. vu'.tops = IF vu'.dbf THEN other ELSE vu'.base
      <4>1. CASE vu.dbf
        <5>1. ~vu'.dbf
              BY ONLY <2>8, <4>1 DEF turned
        <5>2. next = vu.base
              BY ONLY <2>3, <4>1, Zenon
        <5> QED BY ONLY <2>8, <5>1, <5>2
      <4>2. CASE ~vu.dbf
        <5>1. vu'.dbf
              BY ONLY <2>8, <4>2 DEF turned
        <5>2. next = other
              BY ONLY <2>3, <4>2, Zenon
        <5> QED BY ONLY <2>8, <5>1, <5>2
      <4> QED BY <4>1, <4>2
    <3> QED BY ONLY <2>9, <3>1 DEF Placed
  <2>11. BuffersAlternate'
         BY ONLY <1>0, <2>2, <2>3, <2>4, <2>5, <2>8 DEF BuffersAlternate
  <2> QED BY ONLY <2>4, <2>8, <2>10, <2>11 DEF BuffersInv, BuffersTyped
<1>8. ASSUME SetBuffers PROVE BuffersInv'
  <2> DEFINE n == Head(vif).n % 1024
  <2>1. Head(vif).n \in Nat
    <3>1. vif # <<>>
          BY <1>8 DEF SetBuffers, Code
    <3>2. Head(vif) \in Items
          BY <3>1 DEF VifTyped
    <3> QED BY <3>1, <3>2, BoundAssumption DEF Items
  <2>2. \A m \in Nat : m % 1024 \in 0 .. 1023
        OBVIOUS
  <2>3. n \in 0 .. 1023
        BY <2>1, <2>2
  <2>4. \/ vu' = [vu EXCEPT !.base = n] /\ starts' = 0
        \/ vu' = [vu EXCEPT !.ofst = n, !.tops = vu.base, !.dbf = FALSE] /\ starts' = 1
        BY <1>8 DEF SetBuffers
  <2> HIDE DEF n
  <2>a. n \in Address
        BY ONLY <2>3 DEF Address
  <2>5. CASE vu' = [vu EXCEPT !.base = n] /\ starts' = 0
    <3>1. vu' \in Registers(Address, BOOLEAN)
          BY ONLY <1>a, <2>a, <2>5 DEF Registers
    <3>2. starts' \in 0 .. 2 /\ Placed' /\ BuffersAlternate'
          BY ONLY <2>5 DEF Placed, BuffersAlternate
    <3> QED BY ONLY <3>1, <3>2 DEF BuffersInv, BuffersTyped
  <2>6. CASE vu' = [vu EXCEPT !.ofst = n, !.tops = vu.base, !.dbf = FALSE] /\ starts' = 1
    <3>1. /\ vu' \in Registers(Address, BOOLEAN)
          /\ vu'.base = vu.base /\ vu'.dbf = FALSE /\ vu'.tops = vu.base
      <4> DEFINE bits == BOOLEAN
                 w == vu'
                 v == vu
                 no == FALSE
      <4>1. /\ v \in Registers(Address, bits) /\ v.base \in Address /\ n \in Address
            /\ no \in bits /\ w = [v EXCEPT !.ofst = n, !.tops = v.base, !.dbf = no]
            BY ONLY <1>a, <2>a, <2>6
      <4> HIDE DEF bits, w, v, no
      <4>2. /\ w \in Registers(Address, bits) /\ w.base = v.base /\ w.dbf = no
            /\ w.tops = v.base
            BY ONLY <4>1 DEF Registers
      <4> QED BY <4>2 DEF bits, w, v, no
    <3>2. vu'.tops = vu'.base /\ vu'.dbf = FALSE
          BY ONLY <3>1
    <3>3. vu' \in Registers(Address, BOOLEAN)
          BY ONLY <3>1
    <3>4. Placed'
          BY ONLY <3>2 DEF Placed
    <3>5. BuffersAlternate' /\ starts' \in 0 .. 2
          BY ONLY <2>6 DEF BuffersAlternate
    <3> QED BY ONLY <3>3, <3>4, <3>5 DEF BuffersInv, BuffersTyped
  <2> QED BY <2>4, <2>5, <2>6
<1>9. ASSUME Vif1Reset PROVE BuffersInv'
      BY <1>9 DEF Vif1Reset, BuffersInv, BuffersTyped, Registers, Address, Placed, BuffersAlternate
<1>10. ASSUME UNCHANGED vars PROVE BuffersInv'
       BY <1>10, BuffersUnchanged DEF vars
<1> QED BY <1>1, <1>2, <1>3, <1>4, <1>5, <1>6, <1>7, <1>8, <1>9, <1>10 DEF Next, Send, VifStep

(***************************************************************************)
(* The stream of VIF1: its places are codes or data, as the program meant. *)
(***************************************************************************)
Fits(items, owing, codes, lack) ==
    /\ codes \in SUBSET (1 .. Len(items))
    /\ GoesOn(items, owing, codes, 0, lack)
    /\ \A i \in codes : CodeFits(items, owing, codes, i)

VifFits == \E codes \in SUBSET (1 .. Len(vif)) : Fits(vif, owed, codes, pending.left)

\* Without the first k items.
Rest(s, k) == SubSeq(s, k + 1, Len(s))
Later(codes, k) == {i \in Nat \ {0} : i + k \in codes}

\* The items behind the first k.
LEMMA RestFacts ==
    ASSUME NEW s \in Seq(Items), NEW k \in 0 .. Len(s)
    PROVE  /\ Rest(s, k) \in Seq(Items) /\ Len(Rest(s, k)) = Len(s) - k
           /\ Len(s) \in Nat /\ k \in Nat
           /\ \A i \in 1 .. Len(s) - k : Rest(s, k)[i] = s[i + k]
<1>1. /\ Rest(s, k) \in Seq(Items) /\ Len(Rest(s, k)) = Len(s) - k
      /\ Len(s) \in Nat /\ k \in Nat
      BY DEF Rest
<1>2. \A i \in 1 .. Len(s) - k : Rest(s, k)[i] = s[k + i]
      BY DEF Rest
<1>3. \A i \in 1 .. Len(s) - k : k + i = i + k
      BY <1>1
<1> QED BY <1>1, <1>2, <1>3

\* A part of the rest is a part of the whole.
LEMMA PartsOfRest ==
    ASSUME NEW s \in Seq(Items), NEW k \in 0 .. Len(s),
           NEW i \in Nat, NEW n \in Nat, i + n =< Len(s) - k
    PROVE  SubSeq(Rest(s, k), i + 1, i + n) = SubSeq(s, (i + k) + 1, (i + k) + n)
<1> DEFINE t == Rest(s, k)
           a == SubSeq(t, i + 1, i + n)
           b == SubSeq(s, (i + k) + 1, (i + k) + n)
<1>1. /\ t \in Seq(Items) /\ Len(t) = Len(s) - k /\ Len(s) \in Nat /\ k \in Nat
      /\ \A j \in 1 .. Len(s) - k : t[j] = s[j + k]
      BY RestFacts
<1> HIDE DEF t
<1>2. a \in Seq(Items) /\ Len(a) = n /\ \A j \in 1 .. n : a[j] = t[i + j]
      BY <1>1
<1>3. b \in Seq(Items) /\ Len(b) = n /\ \A j \in 1 .. n : b[j] = s[(i + k) + j]
      BY <1>1
<1> HIDE DEF a, b
<1>4. ASSUME NEW j \in 1 .. n PROVE a[j] = b[j]
  <2>1. i + j \in 1 .. Len(s) - k /\ (i + j) + k = (i + k) + j
        BY <1>1
  <2> QED BY <1>1, <1>2, <1>3, <2>1
<1>5. a = b
      BY <1>2, <1>3, <1>4, SeqEqual
<1> QED BY <1>5 DEF a, b, t

\* An image goes on in the rest as it does in the whole.
LEMMA GoesOnLater ==
    ASSUME NEW s \in Seq(Items), NEW k \in 0 .. Len(s), NEW owing \in Nat, NEW codes,
           NEW at \in Nat, NEW lack \in Nat
    PROVE  GoesOn(s, owing, codes, at + k, lack)
             <=> GoesOn(Rest(s, k), owing, Later(codes, k), at, lack)
<1> DEFINE t == Rest(s, k)
           later == Later(codes, k)
           n == Len(s)
<1>1. /\ t \in Seq(Items) /\ Len(t) = n - k /\ n \in Nat /\ k \in Nat
      /\ \A i \in 1 .. n - k : t[i] = s[i + k]
      BY RestFacts
<1>2. ((at + k) + lack) + 1 \in codes <=> (at + lack) + 1 \in later
  <2>1. (at + lack) + 1 \in Nat \ {0} /\ ((at + lack) + 1) + k = ((at + k) + lack) + 1
        BY <1>1
  <2> QED BY <2>1 DEF Later
<1> HIDE DEF t, later, n
<1>3. (at + k) + lack >= n <=> at + lack >= Len(t)
      BY <1>1
<1>4. ((at + k) + lack) - n = (at + lack) - Len(t)
      BY <1>1
<1>5. (\A i \in (at + k) + 1 .. Least((at + k) + lack, n) : s[i].op = "Data")
        <=> (\A i \in at + 1 .. Least(at + lack, Len(t)) : t[i].op = "Data")
  <2>1. Least((at + k) + lack, n) = Least(at + lack, Len(t)) + k
        BY <1>1 DEF Least
  <2>2. Least(at + lack, Len(t)) =< n - k /\ Least(at + lack, Len(t)) \in Int
        BY <1>1 DEF Least
  <2> DEFINE m == Least(at + lack, Len(t))
  <2> HIDE DEF m
  <2>3. m =< n - k /\ m \in Int
        BY <2>2 DEF m
  <2>4. ASSUME \A i \in (at + k) + 1 .. m + k : s[i].op = "Data", NEW i \in at + 1 .. m
        PROVE  t[i].op = "Data"
    <3>1. i + k \in (at + k) + 1 .. m + k /\ i \in 1 .. n - k
          BY <1>1, <2>3
    <3> QED BY <1>1, <2>4, <3>1
  <2>5. ASSUME \A i \in at + 1 .. m : t[i].op = "Data", NEW i \in (at + k) + 1 .. m + k
        PROVE  s[i].op = "Data"
    <3>1. i - k \in at + 1 .. m /\ i - k \in 1 .. n - k /\ (i - k) + k = i
          BY <1>1, <2>3
    <3> QED BY <1>1, <2>5, <3>1
  <2> QED BY <2>1, <2>4, <2>5 DEF m
<1>6. GoesOn(s, owing, codes, at + k, lack) <=>
        /\ \A i \in (at + k) + 1 .. Least((at + k) + lack, n) : s[i].op = "Data"
        /\ IF (at + k) + lack >= n THEN owing = ((at + k) + lack) - n
           ELSE ((at + k) + lack) + 1 \in codes
      BY DEF GoesOn, n
<1>7. GoesOn(t, owing, later, at, lack) <=>
        /\ \A i \in at + 1 .. Least(at + lack, Len(t)) : t[i].op = "Data"
        /\ IF at + lack >= Len(t) THEN owing = (at + lack) - Len(t)
           ELSE (at + lack) + 1 \in later
      BY DEF GoesOn
<1>8. GoesOn(s, owing, codes, at + k, lack) <=> GoesOn(t, owing, later, at, lack)
      BY ONLY <1>2, <1>3, <1>4, <1>5, <1>6, <1>7
<1> QED BY <1>8 DEF t, later

\* A DIRECT has at least one quadword.
LEMMA CountFacts ==
    ASSUME NEW c \in Items
    PROVE  Count(c) \in Nat \ {0}
BY BoundAssumption DEF Count, Items

\* An image lacks no more than its tag counts; VIF1 and the program agree on it.
LEMMA LackingFacts ==
    ASSUME NEW s \in Seq(Items), NEW k \in Nat \ {0}, Len(s) >= 1
    PROVE  Lacking(s, k) \in 0 .. MaxCount /\ ImageBehind(s, k) = Lacking(s, k)
<1>1. s[1] \in Items
      OBVIOUS
<1>2. s[1].n \in 0 .. MaxCount
      BY <1>1 DEF Items
<1> QED BY <1>2, BoundAssumption DEF Lacking, ImageBehind

\* A code fits in the rest as it does in the whole.
LEMMA CodeFitsLater ==
    ASSUME NEW s \in Seq(Items), NEW k \in 0 .. Len(s), NEW owing \in Nat, NEW codes,
           NEW i \in 1 .. Len(s) - k
    PROVE  CodeFits(s, owing, codes, i + k)
             <=> CodeFits(Rest(s, k), owing, Later(codes, k), i)
<1> DEFINE t == Rest(s, k)
           later == Later(codes, k)
           n == Count(t[i])
<1>1. /\ t \in Seq(Items) /\ Len(t) = Len(s) - k /\ Len(s) \in Nat /\ k \in Nat
      /\ t[i] = s[i + k] /\ i \in Nat
      BY RestFacts
<1>2. t[i] \in Items /\ n \in Nat \ {0}
  <2>1. t[i] \in Items
        BY <1>1
  <2> QED BY <2>1, CountFacts
<1>3. GoesOn(s, owing, codes, i + k, 0) <=> GoesOn(t, owing, later, i, 0)
      BY <1>1, GoesOnLater
<1>4. (i + k) + n =< Len(s) <=> i + n =< Len(t)
      BY <1>1, <1>2
<1>5. ASSUME i + n =< Len(t)
      PROVE  GoesOn(s, owing, codes, (i + k) + n,
                    ImageBehind(SubSeq(s, (i + k) + 1, (i + k) + n), n))
             <=> GoesOn(t, owing, later, i + n, ImageBehind(SubSeq(t, i + 1, i + n), n))
  <2> DEFINE part == SubSeq(t, i + 1, i + n)
             lack == ImageBehind(part, n)
  <2>1. part = SubSeq(s, (i + k) + 1, (i + k) + n)
    <3> HIDE DEF n
    <3>1. n \in Nat /\ i + n =< Len(s) - k /\ i \in Nat
          BY <1>1, <1>2, <1>5
    <3> QED BY ONLY <3>1, PartsOfRest, s \in Seq(Items), k \in 0 .. Len(s)
  <2>2. lack \in Nat
    <3>1. part \in Seq(Items) /\ Len(part) = n
      <4> HIDE DEF t, n
      <4>1. /\ t \in Seq(Items) /\ i \in Nat /\ n \in Nat /\ n # 0 /\ i + n =< Len(t)
            /\ Len(t) \in Nat
            BY <1>1, <1>2, <1>5
      <4> QED BY ONLY <4>1
    <3>2. Len(part) >= 1
          BY <1>2, <3>1
    <3> HIDE DEF part
    <3>3. Lacking(part, n) \in Nat /\ ImageBehind(part, n) = Lacking(part, n)
          BY <1>2, <3>1, <3>2, LackingFacts, BoundAssumption
    <3> QED BY <3>3
  <2>3. i + n \in Nat /\ (i + n) + k = (i + k) + n
        BY <1>1, <1>2
  <2> HIDE DEF lack, part
  <2>4. GoesOn(s, owing, codes, (i + n) + k, lack) <=> GoesOn(t, owing, later, i + n, lack)
        BY <2>2, <2>3, GoesOnLater
  <2> QED BY <2>1, <2>3, <2>4 DEF lack, part
<1>6. CodeFits(t, owing, later, i) <=>
        /\ t[i].op \in Codes
        /\ IF t[i].op \in {"Direct", "DirectHl"}
           THEN /\ i + n =< Len(t)
                /\ GoesOn(t, owing, later, i + n, ImageBehind(SubSeq(t, i + 1, i + n), n))
           ELSE GoesOn(t, owing, later, i, 0)
      BY DEF CodeFits
<1>7. CodeFits(s, owing, codes, i + k) <=>
        /\ t[i].op \in Codes
        /\ IF t[i].op \in {"Direct", "DirectHl"}
           THEN /\ (i + k) + n =< Len(s)
                /\ GoesOn(s, owing, codes, (i + k) + n,
                          ImageBehind(SubSeq(s, (i + k) + 1, (i + k) + n), n))
           ELSE GoesOn(s, owing, codes, i + k, 0)
      BY <1>1 DEF CodeFits
<1> HIDE DEF t, later, n
<1>8. CodeFits(s, owing, codes, i + k) <=> CodeFits(t, owing, later, i)
      BY ONLY <1>3, <1>4, <1>5, <1>6, <1>7
<1> QED BY <1>8 DEF t, later

\* Behind the k items that VIF1 has read, the rest fits.
LEMMA RestFits ==
    ASSUME NEW s \in Seq(Items), NEW k \in 0 .. Len(s), NEW owing \in Nat, NEW codes,
           NEW lack \in Nat, codes \in SUBSET (1 .. Len(s)),
           \A i \in codes : CodeFits(s, owing, codes, i),
           GoesOn(s, owing, codes, k, lack)
    PROVE  Fits(Rest(s, k), owing, Later(codes, k), lack)
<1>1. Len(Rest(s, k)) = Len(s) - k /\ Len(s) \in Nat /\ k \in Nat
      BY RestFacts
<1>2. Later(codes, k) \in SUBSET (1 .. Len(s) - k)
  <2>1. ASSUME NEW i \in Later(codes, k) PROVE i \in 1 .. Len(s) - k
    <3>1. i \in Nat /\ i # 0 /\ i + k \in 1 .. Len(s)
          BY DEF Later
    <3> QED BY <1>1, <3>1
  <2> QED BY <2>1
<1>3. GoesOn(Rest(s, k), owing, Later(codes, k), 0, lack)
  <2>1. 0 + k = k
        BY <1>1
  <2> QED BY <2>1, GoesOnLater
<1>4. ASSUME NEW i \in Later(codes, k)
      PROVE  CodeFits(Rest(s, k), owing, Later(codes, k), i)
  <2>1. i \in 1 .. Len(s) - k
        BY <1>2
  <2>2. CodeFits(s, owing, codes, i + k)
        BY DEF Later
  <2> QED BY <2>1, <2>2, CodeFitsLater
<1> QED BY <1>1, <1>2, <1>3, <1>4 DEF Fits

\* Behind the rest of an image, what the program sends next fits.
LEMMA BehindImageFits ==
    ASSUME NEW s \in Seq(Items), NEW k \in 0 .. Len(s), NEW owing \in Nat, NEW later,
           Fits(Rest(s, k), owing, later, 0), k < Len(s),
           \A i \in 1 .. k : s[i].op = "Data"
    PROVE  \E codes : Fits(s, owing, codes, k)
<1> DEFINE codes == {i \in Nat : i > k /\ i - k \in later}
<1>1. Len(Rest(s, k)) = Len(s) - k /\ Len(s) \in Nat /\ k \in Nat
      BY RestFacts
<1>2. later \in SUBSET (1 .. Len(s) - k)
      BY <1>1 DEF Fits
<1>3. Later(codes, k) = later
  <2>1. ASSUME NEW i \in later PROVE i \in Later(codes, k)
    <3>1. i \in Nat \ {0} /\ i + k \in Nat /\ i + k > k /\ (i + k) - k = i
          BY <1>1, <1>2
    <3> QED BY <3>1 DEF Later
  <2>2. ASSUME NEW i \in Later(codes, k) PROVE i \in later
    <3>1. i \in Nat /\ (i + k) - k \in later
          BY DEF Later
    <3>2. (i + k) - k = i
          BY <1>1, <3>1
    <3> QED BY <3>1, <3>2
  <2> QED BY <2>1, <2>2
<1>4. codes \in SUBSET (1 .. Len(s))
  <2>1. ASSUME NEW i \in codes PROVE i \in 1 .. Len(s)
    <3>1. i \in Nat /\ i - k \in 1 .. Len(s) - k
          BY <1>2
    <3> QED BY <1>1, <3>1
  <2> QED BY <2>1
<1>5. ASSUME NEW i \in codes PROVE CodeFits(s, owing, codes, i)
  <2>1. i \in Nat /\ i - k \in later /\ i - k \in 1 .. Len(s) - k
        BY <1>2
  <2>2. CodeFits(Rest(s, k), owing, later, i - k)
        BY <2>1 DEF Fits
  <2> DEFINE j == i - k
  <2>3. j + k = i /\ j \in 1 .. Len(s) - k
        BY <1>1, <2>1
  <2> HIDE DEF j, codes
  <2>4. CodeFits(Rest(s, k), owing, Later(codes, k), j)
        BY <1>3, <2>2 DEF j
  <2>5. CodeFits(s, owing, codes, j + k)
        BY <2>3, <2>4, CodeFitsLater
  <2> QED BY <2>3, <2>5
<1>6. GoesOn(s, owing, codes, 0, k)
  <2>1. GoesOn(Rest(s, k), owing, later, 0, 0)
        BY DEF Fits
  <2>2. 0 + 0 + 1 \in later
    <3>1. ~(0 + 0 >= Len(Rest(s, k)))
          BY <1>1
    <3> QED BY <2>1, <3>1 DEF GoesOn
  <2>3. k + 1 \in codes
    <3>1. k + 1 \in Nat /\ k + 1 > k /\ (k + 1) - k = 1 /\ 0 + 0 + 1 = 1
          BY <1>1
    <3> QED BY <2>2, <3>1
  <2>4. 0 + k = k /\ Least(0 + k, Len(s)) = k /\ ~(0 + k >= Len(s)) /\ 0 + 1 = 1
        BY <1>1 DEF Least
  <2> HIDE DEF codes
  <2> QED BY <2>3, <2>4 DEF GoesOn
<1>7. Fits(s, owing, codes, k)
      BY <1>4, <1>5, <1>6 DEF Fits
<1> QED BY <1>7

VifInv == VifTyped /\ VifFits

\* What VIF1 and the program agree on.
LEMMA FitsInStep ==
    ASSUME VifInv
    PROVE  VifInStep
<1>1. PICK codes : Fits(vif, owed, codes, pending.left)
      BY DEF VifInv, VifFits
<1>2. /\ vif \in Seq(Items) /\ pending.left \in Nat /\ owed \in Nat /\ Len(vif) \in Nat
      BY BoundAssumption DEF VifInv, VifTyped
<1>3. /\ \A i \in 0 + 1 .. Least(0 + pending.left, Len(vif)) : vif[i].op = "Data"
      /\ IF 0 + pending.left >= Len(vif) THEN owed = 0 + pending.left - Len(vif)
         ELSE 0 + pending.left + 1 \in codes
      BY <1>1 DEF Fits, GoesOn
<1>4. 0 + pending.left = pending.left /\ 0 + 1 = 1
      BY <1>2
<1>5. ASSUME vif = <<>> PROVE pending.left = owed
  <2>1. Len(vif) = 0
        BY <1>5
  <2> QED BY ONLY <1>2, <1>3, <2>1
<1>6. ASSUME vif # <<>>, pending.left = 0 PROVE Head(vif).op \in Codes
  <2>1. ~(0 + pending.left >= Len(vif)) /\ 0 + pending.left + 1 = 1
        BY <1>2, <1>6
  <2>2. 1 \in codes
        BY <1>3, <2>1
  <2>3. vif[1].op \in Codes
        BY <1>1, <2>2 DEF Fits, CodeFits
  <2> QED BY <1>2, <1>6, <2>3
<1>7. \A i \in 1 .. Least(pending.left, Len(vif)) : vif[i].op = "Data"
      BY <1>3, <1>4
<1> QED BY <1>5, <1>6, <1>7 DEF VifInStep

\* Steps of the paths leave the transfer alone.
LEMMA VifUnchanged ==
    ASSUME VifInv, vif' = vif, owed' = owed, pending' = pending
    PROVE  VifInv'
BY DEF VifInv, VifTyped, VifFits

\* VIF1 has read k items, and an image lacks some more.
LEMMA VifReads ==
    ASSUME VifInv, NEW codes, Fits(vif, owed, codes, pending.left),
           NEW k \in 0 .. Len(vif), vif' = Rest(vif, k), owed' = owed,
           pending' \in [left : 0 .. MaxCount, hl : BOOLEAN],
           GoesOn(vif, owed, codes, k, pending'.left)
    PROVE  VifInv'
<1>1. vif \in Seq(Items) /\ owed \in Nat /\ pending'.left \in Nat
      BY BoundAssumption DEF VifInv, VifTyped
<1>2. vif' \in Seq(Items)
      BY <1>1, RestFacts
<1>3. Fits(vif', owed', Later(codes, k), pending'.left)
      BY <1>1, RestFits DEF Fits
<1> QED BY <1>2, <1>3 DEF VifInv, VifTyped, VifFits, Fits

\* The VIF code at the head is one that the program sent as a code.
LEMMA HeadFits ==
    ASSUME VifInv, NEW codes, Fits(vif, owed, codes, pending.left),
           vif # <<>>, pending.left = 0
    PROVE  CodeFits(vif, owed, codes, 1) /\ Head(vif) = vif[1] /\ vif[1] \in Items
<1>1. /\ vif \in Seq(Items) /\ Len(vif) \in Nat /\ Len(vif) # 0 /\ Head(vif) = vif[1]
      /\ 1 \in 1 .. Len(vif) /\ vif[1] \in Items
      BY DEF VifInv, VifTyped
<1>2. IF 0 + pending.left >= Len(vif) THEN owed = 0 + pending.left - Len(vif)
      ELSE 0 + pending.left + 1 \in codes
      BY DEF Fits, GoesOn
<1>3. ~(0 + pending.left >= Len(vif)) /\ 0 + pending.left + 1 = 1
      BY <1>1
<1>4. 1 \in codes
      BY <1>2, <1>3
<1> QED BY <1>1, <1>4 DEF Fits

\* A code without data behind it.
LEMMA CodeReads ==
    ASSUME VifInv, NEW op, Code(op), op \notin {"Direct", "DirectHl"},
           vif' = Tail(vif), pending' = pending, owed' = owed
    PROVE  VifInv'
<1>1. PICK codes : Fits(vif, owed, codes, pending.left)
      BY DEF VifInv, VifFits
<1>2. vif # <<>> /\ pending.left = 0 /\ Head(vif).op = op
      BY DEF Code
<1>3. CodeFits(vif, owed, codes, 1) /\ Head(vif) = vif[1]
      BY <1>1, <1>2, HeadFits
<1>4. GoesOn(vif, owed, codes, 1, 0)
      BY <1>2, <1>3 DEF CodeFits
<1>5. vif \in Seq(Items) /\ pending \in [left : 0 .. MaxCount, hl : BOOLEAN]
      BY DEF VifInv, VifTyped
<1>6. Tail(vif) = Rest(vif, 1) /\ 1 \in 0 .. Len(vif)
  <2>1. Len(vif) \in Nat /\ Len(vif) # 0
        BY <1>2, <1>5
  <2>2. 1 \in 0 .. Len(vif)
        BY <2>1
  <2>3. /\ Tail(vif) \in Seq(Items) /\ Len(Tail(vif)) = Len(vif) - 1
        /\ \A i \in 1 .. Len(vif) - 1 : Tail(vif)[i] = vif[i + 1]
        BY <1>2, <1>5
  <2>4. /\ Rest(vif, 1) \in Seq(Items) /\ Len(Rest(vif, 1)) = Len(vif) - 1
        /\ \A i \in 1 .. Len(vif) - 1 : Rest(vif, 1)[i] = vif[i + 1]
        BY <1>5, <2>2, RestFacts
  <2>5. Tail(vif) = Rest(vif, 1)
        BY <2>3, <2>4, SeqEqual
  <2> QED BY <2>2, <2>5
<1> QED BY <1>1, <1>2, <1>4, <1>5, <1>6, VifReads

\* The rest of an image is read.
LEMMA ContinueFits ==
    ASSUME VifInv, Continue
    PROVE  VifInv'
<1>1. PICK codes : Fits(vif, owed, codes, pending.left)
      BY DEF VifInv, VifFits
<1> DEFINE k == Least(pending.left, Len(vif))
<1>2. /\ vif' = Rest(vif, k) /\ owed' = owed
      /\ pending' = IF k = pending.left THEN NoImage ELSE [pending EXCEPT !.left = @ - k]
      BY DEF Continue, Rest
<1>3. /\ pending \in [left : 0 .. MaxCount, hl : BOOLEAN] /\ vif \in Seq(Items)
      /\ Len(vif) \in Nat /\ pending.left \in 0 .. MaxCount /\ MaxCount \in Nat
      BY BoundAssumption DEF VifInv, VifTyped
<1>4. /\ k \in 0 .. Len(vif) /\ k =< pending.left /\ k \in Nat
      /\ (k # pending.left => k = Len(vif))
      BY <1>3 DEF Least
<1> HIDE DEF k
<1>5. pending' \in [left : 0 .. MaxCount, hl : BOOLEAN] /\ pending'.left = pending.left - k
  <2>1. CASE k = pending.left
    <3>1. pending' = [left |-> 0, hl |-> FALSE]
          BY <1>2, <2>1 DEF NoImage
    <3> QED BY <1>3, <1>4, <2>1, <3>1
  <2>2. CASE k # pending.left
    <3>1. pending' = [pending EXCEPT !.left = pending.left - k]
          BY <1>2, <2>2
    <3>2. pending.left - k \in 0 .. MaxCount
          BY <1>3, <1>4
    <3> QED BY <1>3, <3>1, <3>2
  <2> QED BY <2>1, <2>2
<1>6. GoesOn(vif, owed, codes, k, pending.left - k)
  <2> DEFINE left == pending.left
             n == Len(vif)
             lack == pending.left - k
             zero == 0
             w == vif
             o == owed
  <2>1. left \in Nat /\ n \in Nat /\ k \in Nat /\ k =< left
        BY <1>3, <1>4
  <2>2. /\ zero + left = left /\ n = Len(w) /\ w \in Seq(Items)
        /\ zero \in Nat /\ left \in Nat
        BY <1>3, <2>1
  <2>3. k + lack = left /\ k \in Nat /\ lack \in Nat
        BY <2>1
  <2>4. GoesOn(w, o, codes, zero, left)
        BY <1>1 DEF Fits
  <2> HIDE DEF left, lack, n, zero, w, o
  <2>5. /\ \A i \in zero + 1 .. Least(left, n) : w[i].op = "Data"
        /\ left >= n => o = left - n
        /\ ~(left >= n) => left + 1 \in codes
        BY ONLY <2>2, <2>4 DEF GoesOn
  <2>6. \A i \in k + 1 .. Least(left, n) : i \in zero + 1 .. Least(left, n)
        BY <2>1 DEF Least, zero
  <2>7. \A i \in k + 1 .. Least(left, n) : w[i].op = "Data"
        BY ONLY <2>5, <2>6
  <2>8. GoesOn(w, o, codes, k, lack)
        BY ONLY <2>2, <2>3, <2>5, <2>7 DEF GoesOn
  <2> QED BY <2>8 DEF lack, w, o
<1> QED BY <1>1, <1>2, <1>4, <1>5, <1>6, VifReads

\* A DIRECT is read, whole or with an image that goes on.
LEMMA DirectFits ==
    ASSUME VifInv, NEW hl \in BOOLEAN, Direct(hl)
    PROVE  VifInv'
<1>1. PICK codes : Fits(vif, owed, codes, pending.left)
      BY DEF VifInv, VifFits
<1>2. vif # <<>> /\ pending.left = 0 /\ Head(vif).op = IF hl THEN "DirectHl" ELSE "Direct"
      BY DEF Direct, Code
<1>3. CodeFits(vif, owed, codes, 1) /\ Head(vif) = vif[1] /\ vif[1] \in Items
      BY <1>1, <1>2, HeadFits
<1> DEFINE want == Count(Head(vif))
           rest == Tail(vif)
           k == Least(want, Len(rest))
           s == SubSeq(rest, 1, k)
           part == SubSeq(vif, 1 + 1, 1 + want)
<1>4. want \in Nat \ {0}
      BY <1>3, CountFacts
<1>5. /\ 1 + want =< Len(vif)
      /\ GoesOn(vif, owed, codes, 1 + want, ImageBehind(part, want))
      BY <1>2, <1>3 DEF CodeFits
<1>6. /\ vif \in Seq(Items) /\ Len(vif) \in Nat
      /\ pending \in [left : 0 .. MaxCount, hl : BOOLEAN]
      BY DEF VifInv, VifTyped
<1>7. /\ rest \in Seq(Items) /\ Len(rest) = Len(vif) - 1
      /\ \A i \in 1 .. Len(vif) - 1 : rest[i] = vif[i + 1]
      BY <1>2, <1>6
<1>8. /\ IF k = 0 THEN UNCHANGED <<paths, pending>>
         ELSE pending' = IF Lacking(s, k) > 0 THEN [left |-> Lacking(s, k), hl |-> hl]
                                             ELSE pending
      /\ vif' = IF want > k THEN <<>> ELSE SubSeq(rest, k + 1, Len(rest))
      /\ owed' = owed
      BY DEF Direct
<1> HIDE DEF want, rest
<1>9. k = want
      BY <1>4, <1>5, <1>6, <1>7 DEF Least
<1>10. s = part
  <2> HIDE DEF k
  <2>1. /\ s \in Seq(Items) /\ Len(s) = want /\ \A i \in 1 .. want : s[i] = rest[i]
        BY <1>4, <1>5, <1>6, <1>7, <1>9
  <2>2. /\ part \in Seq(Items) /\ Len(part) = want
        /\ \A i \in 1 .. want : part[i] = vif[1 + i]
        BY <1>4, <1>5, <1>6
  <2> HIDE DEF s, part
  <2>3. ASSUME NEW i \in 1 .. want PROVE s[i] = part[i]
    <3>1. i \in 1 .. Len(vif) - 1 /\ i + 1 = 1 + i
          BY <1>4, <1>5, <1>6
    <3> QED BY <1>7, <2>1, <2>2, <3>1
  <2> QED BY <2>1, <2>2, <2>3, SeqEqual
<1>11. /\ Lacking(part, want) \in 0 .. MaxCount
       /\ ImageBehind(part, want) = Lacking(part, want)
  <2>1. part \in Seq(Items) /\ Len(part) >= 1
        BY <1>4, <1>5, <1>6
  <2> HIDE DEF part
  <2> QED BY <1>4, <2>1, LackingFacts
<1> HIDE DEF k, s, part
<1>12. /\ pending' \in [left : 0 .. MaxCount, hl : BOOLEAN]
       /\ pending'.left = Lacking(part, want)
  <2> DEFINE lack == Lacking(part, want)
  <2>1. pending' = IF lack > 0 THEN [left |-> lack, hl |-> hl] ELSE pending
        BY <1>4, <1>8, <1>9, <1>10
  <2>2. lack \in 0 .. MaxCount
        BY <1>11
  <2> HIDE DEF lack
  <2>3. CASE lack > 0
    <3>1. pending' = [left |-> lack, hl |-> hl]
          BY ONLY <2>1, <2>3
    <3>2. pending'.left = lack
          BY ONLY <3>1
    <3>3. lack \in 0 .. MaxCount /\ hl \in BOOLEAN
          BY <2>2
    <3>4. pending' \in [left : 0 .. MaxCount, hl : BOOLEAN]
          BY ONLY <3>1, <3>3
    <3> QED BY <3>2, <3>4 DEF lack
  <2>4. CASE ~(lack > 0)
    <3>1. lack = 0
          BY <2>2, <2>4, BoundAssumption
    <3>2. pending' = pending
          BY ONLY <2>1, <2>4
    <3>3. pending'.left = lack
          BY <1>2, <3>1, <3>2
    <3> QED BY <1>6, <3>2, <3>3 DEF lack
  <2> QED BY <2>3, <2>4
<1>13. vif' = Rest(vif, 1 + want) /\ 1 + want \in 0 .. Len(vif)
  <2>1. vif' = SubSeq(rest, want + 1, Len(rest))
        BY <1>4, <1>8, <1>9
  <2>2. 1 + want \in 0 .. Len(vif)
        BY <1>4, <1>5, <1>6
  <2> DEFINE a == SubSeq(rest, want + 1, Len(rest))
             b == Rest(vif, 1 + want)
  <2>3. /\ a \in Seq(Items) /\ Len(a) = (Len(vif) - 1) - want
        /\ \A i \in 1 .. (Len(vif) - 1) - want : a[i] = rest[want + i]
        BY <1>4, <1>5, <1>6, <1>7
  <2>4. /\ b \in Seq(Items) /\ Len(b) = Len(vif) - (1 + want)
        /\ \A i \in 1 .. Len(vif) - (1 + want) : b[i] = vif[i + (1 + want)]
        BY <1>6, <2>2, RestFacts
  <2> HIDE DEF a, b
  <2>5. (Len(vif) - 1) - want = Len(vif) - (1 + want)
        BY <1>4, <1>6
  <2>6. ASSUME NEW i \in 1 .. (Len(vif) - 1) - want PROVE a[i] = b[i]
    <3>1. want + i \in 1 .. Len(vif) - 1 /\ (want + i) + 1 = i + (1 + want)
          BY <1>4, <1>5, <1>6
    <3> QED BY <1>7, <2>3, <2>4, <2>5, <3>1
  <2>7. a = b
        BY <2>3, <2>4, <2>5, <2>6, SeqEqual
  <2> QED BY <2>1, <2>2, <2>7 DEF a, b
<1>14. GoesOn(vif, owed, codes, 1 + want, pending'.left)
       BY <1>5, <1>11, <1>12
<1> DEFINE read == 1 + want
<1> HIDE DEF read
<1>15. /\ vif' = Rest(vif, read) /\ read \in 0 .. Len(vif)
       /\ GoesOn(vif, owed, codes, read, pending'.left)
       BY <1>13, <1>14 DEF read
<1> QED BY <1>1, <1>8, <1>12, <1>15, VifReads

\* A transfer: what the program sends fits to what it owes.
LEMMA TransferFits ==
    ASSUME VifInv, Vif1Transfer
    PROVE  VifInv'
<1>1. /\ vif = <<>> /\ pending' = pending
      /\ \/ \E s \in Streams : owed = 0 /\ vif' = s.items /\ owed' = s.owed
         \/ \E k \in 1 .. owed : vif' = ImageRest(k) /\ owed' = owed - k
         \/ \E s \in Streams : /\ owed > 0 /\ vif' = ImageRest(owed) \o s.items
                               /\ owed' = s.owed
      BY DEF Vif1Transfer
<1>2. /\ pending.left = owed /\ pending \in [left : 0 .. MaxCount, hl : BOOLEAN]
      /\ owed \in 0 .. MaxCount /\ MaxCount \in Nat
  <2>1. pending.left = owed
        BY <1>1, FitsInStep DEF VifInStep
  <2> QED BY <2>1, BoundAssumption DEF VifInv, VifTyped
<1>3. ASSUME NEW s \in Streams
      PROVE  /\ s.items \in Seq(Items) /\ Len(s.items) \in Nat /\ Len(s.items) # 0
             /\ s.owed \in 0 .. MaxCount
             /\ \E codes : Fits(s.items, s.owed, codes, 0)
  <2>1. /\ s.items \in Seq(Items) /\ s.items # <<>> /\ s.owed \in 0 .. MaxCount
        /\ \E codes \in SUBSET (1 .. Len(s.items)) :
              /\ GoesOn(s.items, s.owed, codes, 0, 0)
              /\ \A i \in codes : CodeFits(s.items, s.owed, codes, i)
        BY SendAssumption
  <2>2. Len(s.items) \in Nat /\ Len(s.items) # 0
        BY <2>1
  <2> QED BY <2>1, <2>2 DEF Fits
<1>4. ASSUME NEW k \in 1 .. owed
      PROVE  /\ ImageRest(k) \in Seq(Items) /\ Len(ImageRest(k)) = k
             /\ \A i \in 1 .. k : ImageRest(k)[i].op = "Data"
  <2> DEFINE data == [op |-> "Data", n |-> 0]
  <2>1. data \in Items /\ data.op = "Data"
        BY BoundAssumption DEF Items, Quads
  <2> HIDE DEF data
  <2>2. k \in Nat /\ ImageRest(k) = [i \in 1 .. k |-> data]
        BY <1>2 DEF ImageRest, data
  <2> QED BY <2>1, <2>2
<1>5. ASSUME NEW s \in Streams, owed = 0, vif' = s.items, owed' = s.owed
      PROVE  VifInv'
      BY <1>1, <1>2, <1>3, <1>5 DEF VifInv, VifTyped, VifFits, Fits
<1>6. ASSUME NEW k \in 1 .. owed, vif' = ImageRest(k), owed' = owed - k
      PROVE  VifInv'
  <2>1. /\ vif' \in Seq(Items) /\ Len(vif') = k /\ k \in Nat /\ k =< owed
        /\ \A i \in 1 .. k : vif'[i].op = "Data"
        BY <1>2, <1>4, <1>6
  <2>2. owed' \in 0 .. MaxCount
        BY <1>2, <1>6, <2>1
  <2>3. GoesOn(vif', owed', {}, 0, owed)
    <3>1. 0 + owed >= Len(vif') /\ Least(0 + owed, Len(vif')) = k
          BY <1>2, <2>1 DEF Least
    <3>2. owed' = (0 + owed) - Len(vif')
          BY <1>2, <1>6, <2>1
    <3>3. \A i \in 0 + 1 .. k : vif'[i].op = "Data"
          BY <2>1
    <3> DEFINE m == 0 + owed
               n == Len(vif')
               w == vif'
    <3>4. /\ m = 0 + owed /\ n = Len(w) /\ m >= n /\ Least(m, n) = k /\ owed' = m - n
          /\ w \in Seq(Items) /\ 0 \in Nat /\ owed \in Nat
          BY <1>2, <2>1, <3>1, <3>2
    <3>5. \A i \in 0 + 1 .. Least(m, n) : w[i].op = "Data"
          BY <3>3, <3>4
    <3> HIDE DEF m, n, w
    <3>6. GoesOn(w, owed', {}, 0, owed)
          BY ONLY <3>4, <3>5 DEF GoesOn
    <3> QED BY <3>6 DEF w
  <2>4. Fits(vif', owed', {}, pending'.left)
        BY <1>1, <1>2, <2>3 DEF Fits
  <2> QED BY <1>1, <1>2, <2>1, <2>2, <2>4 DEF VifInv, VifTyped, VifFits, Fits
<1>7. ASSUME NEW s \in Streams, owed > 0, vif' = ImageRest(owed) \o s.items, owed' = s.owed
      PROVE  VifInv'
  <2>1. owed \in 1 .. owed /\ owed \in Nat
        BY <1>2, <1>7
  <2> DEFINE a == ImageRest(owed)
             b == s.items
             v == a \o b
  <2>2. /\ a \in Seq(Items) /\ Len(a) = owed /\ \A i \in 1 .. owed : a[i].op = "Data"
        BY <1>4, <2>1
  <2>3. b \in Seq(Items) /\ Len(b) \in Nat /\ Len(b) # 0
        BY <1>3
  <2> HIDE DEF a, b
  <2>4. /\ v \in Seq(Items) /\ Len(v) = owed + Len(b)
        /\ \A i \in 1 .. owed + Len(b) : v[i] = IF i <= owed THEN a[i] ELSE b[i - owed]
        BY <2>2, <2>3, ConcatProperties
  <2> HIDE DEF v
  <2>5. \A i \in 1 .. owed : v[i].op = "Data"
    <3>1. \A i \in 1 .. owed : i \in 1 .. owed + Len(b) /\ i <= owed
          BY <2>1, <2>3
    <3> QED BY <2>2, <2>4, <3>1
  <2>6. Rest(v, owed) = b
    <3>1. owed \in 0 .. Len(v)
          BY <2>1, <2>3, <2>4
    <3>2. /\ Rest(v, owed) \in Seq(Items) /\ Len(Rest(v, owed)) = Len(v) - owed
          /\ \A i \in 1 .. Len(v) - owed : Rest(v, owed)[i] = v[i + owed]
          BY <2>4, <3>1, RestFacts
    <3>3. Len(v) - owed = Len(b)
          BY <2>1, <2>3, <2>4
    <3>4. ASSUME NEW i \in 1 .. Len(b) PROVE Rest(v, owed)[i] = b[i]
      <4>1. i + owed \in 1 .. owed + Len(b) /\ ~(i + owed <= owed) /\ (i + owed) - owed = i
            BY <2>1, <2>3
      <4>2. v[i + owed] = b[i]
            BY <2>4, <4>1
      <4> QED BY <3>2, <3>3, <4>2
    <3> QED BY <2>3, <3>2, <3>3, <3>4, SeqEqual
  <2>7. PICK later : Fits(b, s.owed, later, 0)
        BY <1>3 DEF b
  <2>8. owed \in 0 .. Len(v) /\ owed < Len(v) /\ s.owed \in Nat
        BY <1>2, <1>3, <2>1, <2>3, <2>4
  <2>9. \E codes : Fits(v, s.owed, codes, owed)
        BY <2>4, <2>5, <2>6, <2>7, <2>8, BehindImageFits
  <2>10. vif' = v
         BY <1>7 DEF v, a, b
  <2>11. VifTyped'
         BY <1>1, <1>2, <1>3, <1>7, <2>4, <2>10 DEF VifTyped
  <2>12. VifFits'
         BY <1>1, <1>2, <1>7, <2>9, <2>10 DEF VifFits, Fits
  <2> QED BY <2>11, <2>12 DEF VifInv
<1> QED BY <1>1, <1>5, <1>6, <1>7

IInv == PathInv /\ VifInv /\ BuffersInv

(***************************************************************************)
(* A packet is submitted.                                                  *)
(***************************************************************************)
LEMMA SubmitKeeps ==
    ASSUME PathInv, NEW p, IsNext(p), NEW drain \in BOOLEAN, p.path # 3 => drain = TRUE,
           Submit(p, drain)
    PROVE  PathInv' /\ HandedOver
<1>1. Typed /\ Numbered /\ p \in Packets
      BY DEF PathInv, IsNext
<1>2. queue \o <<>> = queue /\ Append(queue, p) \in Seq(Packets)
      BY <1>1 DEF Typed
<1>3. CASE p.path = 3 /\ masked
      BY <1>3, HeldKeeps DEF Submit
<1>4. CASE p.path = 3 /\ ~masked
  <2>1. fifo = <<>>
        BY <1>1, <1>4 DEF Numbered
  <2>2. /\ fifo' = <<>> /\ sent' = Append(sent, p.id) /\ masked' = masked
        /\ IF drain THEN Drain(Append(queue \o fifo, p))
           ELSE queue' = Append(queue \o fifo, p) /\ UNCHANGED <<gs, done>>
        BY <1>4 DEF Submit
  <2>3. Append(queue \o fifo, p) = Append(queue, p)
        BY <1>2, <2>1
  <2>4. Sorted(Append(queue, p)) = Append(queue, p)
    <3>1. NextId \in Nat /\ Plain3(p) /\ p.id = NextId
          BY <1>1, <1>4, IdsTyped DEF IsNext, Plain3
    <3>2. Plain(Append(queue, p))
          BY <1>1, <3>1, PlainAppended DEF Typed, Numbered
    <3> QED BY <1>2, <3>2, SortedPlain
  <2>5. \/ queue' = Append(queue, p) /\ done' = done
        \/ queue' = <<>> /\ done' = done \o Append(queue, p)
        BY <2>2, <2>3, <2>4 DEF Drain
  <2> QED BY <1>4, <2>1, <2>2, <2>5, QueuedKeeps
<1>5. CASE p.path # 3
  <2>1. /\ fifo' = fifo /\ sent' = sent /\ masked' = masked
        /\ Drain(Append(queue \o <<>>, p))
        BY <1>5 DEF Submit
  <2>2. queue' = <<>> /\ done' = done \o Sorted(Append(queue, p))
        BY <1>2, <2>1 DEF Drain
  <2> QED BY <1>5, <2>1, <2>2, OtherKeeps
<1> QED BY <1>3, <1>4, <1>5

\* What a program sends makes a packet.
LEMMA PacketTyped ==
    ASSUME Typed, NEW path \in 1 .. 3, NEW hl \in BOOLEAN, path = 3 => hl = FALSE,
           NEW quads \in Seq(Items), quads # <<>>
    PROVE  /\ IsNext(Packet(NextId, path, hl, quads))
           /\ Packet(NextId, path, hl, quads).path = path
<1>1. NextId \in Nat
      BY IdsTyped
<1> QED BY <1>1 DEF IsNext, Packet, Packets

\* A step that leaves the paths alone hands over nothing.
LEMMA PathsUnchanged ==
    ASSUME PathInv, UNCHANGED paths
    PROVE  PathInv' /\ HandedOver
<1>1. sent' = sent /\ fifo' = fifo /\ queue' = queue /\ done' = done /\ masked' = masked
      BY DEF paths
<1>2. masked' \in BOOLEAN /\ (fifo # <<>> => masked')
      BY <1>1 DEF PathInv, Typed, Numbered
<1> QED BY <1>1, <1>2, LetOutKeeps

\* Every step keeps the paths numbered and hands over in order.
LEMMA PathStep ==
    ASSUME PathInv, VifTyped, [Next]_vars
    PROVE  PathInv' /\ HandedOver
<1>0. Typed /\ Numbered /\ vif \in Seq(Items) /\ Len(vif) \in Nat
      BY DEF PathInv, VifTyped
<1>1. ASSUME NEW quads \in GifPackets, GifTransfer(quads) PROVE PathInv' /\ HandedOver
  <2> DEFINE p == Packet(NextId, 3, FALSE, quads)
  <2>1. IsNext(p) /\ p.path = 3
    <3>1. quads \in Seq(Items) /\ quads # <<>> /\ 3 \in 1 .. 3 /\ FALSE \in BOOLEAN
          BY SendAssumption
    <3> QED BY <1>0, <3>1, PacketTyped
  <2>2. IF masked
        THEN /\ fifo' = Append(fifo, p) /\ Drain(queue)
             /\ sent' = Append(sent, p.id) /\ UNCHANGED masked
        ELSE Submit(p, TRUE)
        BY <1>1 DEF GifTransfer
  <2> HIDE DEF p
  <2>3. CASE masked
    <3>1. Sorted(queue) = queue
          BY <1>0, SortedPlain DEF Typed, Numbered
    <3>2. queue' = <<>> /\ done' = done \o queue
          BY <2>2, <2>3, <3>1 DEF Drain
    <3> QED BY <2>1, <2>2, <2>3, <3>2, HeldKeeps
  <2>4. CASE ~masked
        BY <2>1, <2>2, <2>4, SubmitKeeps
  <2> QED BY <2>3, <2>4
<1>2. ASSUME NEW quads \in GifPackets, QueuePath3(quads) PROVE PathInv' /\ HandedOver
  <2> DEFINE p == Packet(NextId, 3, FALSE, quads)
  <2>1. IsNext(p) /\ p.path = 3
    <3>1. quads \in Seq(Items) /\ quads # <<>> /\ 3 \in 1 .. 3 /\ FALSE \in BOOLEAN
          BY SendAssumption
    <3> QED BY <1>0, <3>1, PacketTyped
  <2>2. Submit(p, FALSE)
        BY <1>2 DEF QueuePath3
  <2> HIDE DEF p
  <2> QED BY <2>1, <2>2, SubmitKeeps
<1>3. ASSUME Vif1Transfer PROVE PathInv' /\ HandedOver
      BY <1>3, PathsUnchanged DEF Vif1Transfer
<1>4. ASSUME Continue PROVE PathInv' /\ HandedOver
  <2> DEFINE k == Least(pending.left, Len(vif))
             tag == [op |-> "Image", n |-> k]
             quads == <<tag>> \o SubSeq(vif, 1, k)
             p == Packet(NextId, 2, pending.hl, quads)
  <2>1. Submit(p, TRUE)
        BY <1>4 DEF Continue
  <2>2. k \in 0 .. MaxCount /\ k =< Len(vif) /\ pending.hl \in BOOLEAN
        BY <1>0, BoundAssumption DEF VifTyped, Least
  <2>3. tag \in Items
        BY <2>2 DEF Items, Quads
  <2> HIDE DEF tag, k
  <2>4. quads \in Seq(Items) /\ quads # <<>>
    <3>1. SubSeq(vif, 1, k) \in Seq(Items) /\ <<tag>> \in Seq(Items) /\ Len(<<tag>>) = 1
          BY <1>0, <2>2, <2>3, BoundAssumption
    <3>2. quads \in Seq(Items) /\ Len(quads) = 1 + Len(SubSeq(vif, 1, k))
          BY <3>1, ConcatProperties
    <3>3. Len(quads) # 0
          BY <3>1, <3>2
    <3> QED BY <3>2, <3>3
  <2> HIDE DEF quads
  <2>5. IsNext(p) /\ p.path = 2
    <3>1. 2 \in 1 .. 3 /\ 2 # 3
          OBVIOUS
    <3> QED BY <1>0, <2>2, <2>4, <3>1, PacketTyped
  <2> HIDE DEF p
  <2> QED BY <2>1, <2>5, SubmitKeeps
<1>5. ASSUME NEW hl \in BOOLEAN, Direct(hl) PROVE PathInv' /\ HandedOver
  <2> DEFINE want == Count(Head(vif))
             rest == Tail(vif)
             k == Least(want, Len(rest))
             s == SubSeq(rest, 1, k)
             p == Packet(NextId, 2, hl, s)
  <2>1. vif # <<>> /\ IF k = 0 THEN UNCHANGED <<paths, pending>> ELSE Submit(p, TRUE)
        BY <1>5 DEF Direct, Code
  <2>2. rest \in Seq(Items) /\ Len(rest) \in Nat /\ Head(vif) \in Items
        BY <1>0, <2>1
  <2>3. want \in Nat
        BY <2>2, CountFacts
  <2> HIDE DEF want, rest
  <2>4. k \in Nat /\ k =< Len(rest)
        BY <2>2, <2>3 DEF Least
  <2> HIDE DEF k
  <2>5. CASE k = 0
        BY <2>1, <2>5, PathsUnchanged
  <2>6. CASE k # 0
    <3>1. s \in Seq(Items) /\ s # <<>>
      <4>1. s \in Seq(Items) /\ Len(s) = k
            BY <2>2, <2>4
      <4> QED BY <2>6, <4>1
    <3> HIDE DEF s
    <3>2. IsNext(p) /\ p.path = 2
      <4>1. 2 \in 1 .. 3 /\ 2 # 3
            OBVIOUS
      <4> QED BY <1>0, <3>1, <4>1, PacketTyped
    <3> HIDE DEF p
    <3> QED BY <2>1, <2>6, <3>2, SubmitKeeps
  <2> QED BY <2>5, <2>6
<1>6. ASSUME MskPath3 PROVE PathInv' /\ HandedOver
  <2>1. /\ masked' = (Head(vif).n = 1) /\ sent' = sent
        /\ IF masked /\ ~masked' /\ fifo # <<>>
           THEN fifo' = <<>> /\ Drain(queue \o fifo)
           ELSE UNCHANGED <<fifo, queue, gs, done>>
        BY <1>6 DEF MskPath3
  <2>2. masked' \in BOOLEAN
        BY <2>1
  <2>3. CASE masked /\ ~masked' /\ fifo # <<>>
    <3>1. queue \o fifo \in Seq(Packets) /\ Plain(queue \o fifo)
          BY <1>0, PlainJoined, ConcatProperties DEF Typed, Numbered
    <3>2. Sorted(queue \o fifo) = queue \o fifo
          BY <3>1, SortedPlain
    <3>3. fifo' = <<>> /\ queue' = <<>> /\ done' = done \o (queue \o fifo)
          BY <2>1, <2>3, <3>2 DEF Drain
    <3> QED BY <2>1, <2>2, <3>3, LetOutKeeps
  <2>4. CASE ~(masked /\ ~masked' /\ fifo # <<>>)
    <3>1. fifo' = fifo /\ queue' = queue /\ done' = done
          BY <2>1, <2>4
    <3>2. fifo # <<>> => masked'
          BY <1>0, <2>4 DEF Numbered
    <3> QED BY <2>1, <2>2, <3>1, <3>2, LetOutKeeps
  <2> QED BY <2>3, <2>4
<1>7. ASSUME Mscal PROVE PathInv' /\ HandedOver
  <2>1. CASE UNCHANGED paths
        BY <2>1, PathsUnchanged
  <2>2. ASSUME NEW quads \in KickPackets, Submit(Packet(NextId, 1, FALSE, quads), TRUE)
        PROVE  PathInv' /\ HandedOver
    <3> DEFINE p == Packet(NextId, 1, FALSE, quads)
    <3>1. IsNext(p) /\ p.path = 1
      <4>1. /\ quads \in Seq(Items) /\ quads # <<>> /\ 1 \in 1 .. 3 /\ 1 # 3
            /\ FALSE \in BOOLEAN
            BY SendAssumption
      <4> QED BY <1>0, <4>1, PacketTyped
    <3>2. Submit(p, TRUE)
          BY <2>2
    <3> HIDE DEF p
    <3> QED BY <3>1, <3>2, SubmitKeeps
  <2> QED BY <1>7, <2>1, <2>2 DEF Mscal
<1>8. ASSUME SetBuffers PROVE PathInv' /\ HandedOver
      BY <1>8, PathsUnchanged DEF SetBuffers
<1>9. ASSUME Vif1Reset PROVE PathInv' /\ HandedOver
      BY <1>9, PathsUnchanged DEF Vif1Reset
<1>10. ASSUME UNCHANGED vars PROVE PathInv' /\ HandedOver
       BY <1>10, PathsUnchanged DEF vars, paths
<1> QED BY <1>1, <1>2, <1>3, <1>4, <1>5, <1>6, <1>7, <1>8, <1>9, <1>10 DEF Next, Send, VifStep

\* At the start nothing is owed.
LEMMA NothingFits ==
    Fits(<<>>, 0, {}, 0)
<1>1. /\ Len(<<>>) = 0 /\ 0 + 0 >= 0 /\ 0 = 0 + 0 - 0
      /\ 0 + 1 .. Least(0 + 0, 0) = {}
      BY DEF Least
<1>2. GoesOn(<<>>, 0, {}, 0, 0)
  <2>1. GoesOn(<<>>, 0, {}, 0, 0)
          <=> /\ \A i \in 0 + 1 .. Least(0 + 0, Len(<<>>)) : <<>>[i].op = "Data"
              /\ IF 0 + 0 >= Len(<<>>) THEN 0 = 0 + 0 - Len(<<>>) ELSE 0 + 0 + 1 \in {}
        BY DEF GoesOn
  <2> QED BY <1>1, <2>1
<1> QED BY <1>2 DEF Fits

\* Every step keeps what is left of the transfer as it was meant.
LEMMA VifStepFits ==
    ASSUME VifInv, [Next]_vars
    PROVE  VifInv'
<1>1. ASSUME NEW quads \in GifPackets, GifTransfer(quads) PROVE VifInv'
      BY <1>1, VifUnchanged DEF GifTransfer
<1>2. ASSUME NEW quads \in GifPackets, QueuePath3(quads) PROVE VifInv'
      BY <1>2, VifUnchanged DEF QueuePath3
<1>3. ASSUME Vif1Transfer PROVE VifInv'
      BY <1>3, TransferFits
<1>4. ASSUME Continue PROVE VifInv'
      BY <1>4, ContinueFits
<1>5. ASSUME NEW hl \in BOOLEAN, Direct(hl) PROVE VifInv'
      BY <1>5, DirectFits
<1>6. ASSUME MskPath3 PROVE VifInv'
  <2>1. Code("MskPath3") /\ vif' = Tail(vif) /\ pending' = pending /\ owed' = owed
        BY <1>6 DEF MskPath3
  <2> QED BY <2>1, CodeReads
<1>7. ASSUME Mscal PROVE VifInv'
  <2>1. Code("Mscal") /\ vif' = Tail(vif) /\ pending' = pending /\ owed' = owed
        BY <1>7 DEF Mscal
  <2> QED BY <2>1, CodeReads
<1>8. ASSUME SetBuffers PROVE VifInv'
  <2>1. /\ Code("Base") \/ Code("Offset")
        /\ vif' = Tail(vif) /\ pending' = pending /\ owed' = owed
        BY <1>8 DEF SetBuffers
  <2>2. CASE Code("Base")
        BY <2>1, <2>2, CodeReads
  <2>3. CASE Code("Offset")
        BY <2>1, <2>3, CodeReads
  <2> QED BY <2>1, <2>2, <2>3
<1>9. ASSUME Vif1Reset PROVE VifInv'
  <2>1. vif' = <<>> /\ pending' = [left |-> 0, hl |-> FALSE] /\ owed' = 0
        BY <1>9 DEF Vif1Reset, NoImage
  <2>2. VifTyped'
        BY <2>1, BoundAssumption DEF VifTyped
  <2> QED BY <2>1, <2>2, NothingFits DEF VifInv, VifFits, Fits
<1>10. ASSUME UNCHANGED vars PROVE VifInv'
       BY <1>10, VifUnchanged DEF vars
<1> QED BY <1>1, <1>2, <1>3, <1>4, <1>5, <1>6, <1>7, <1>8, <1>9, <1>10 DEF Next, Send, VifStep

\* The initial state is good.
LEMMA InitHolds ==
    ASSUME Init
    PROVE  IInv
<1> USE DEF Init
<1>1. Typed
      BY EmptyNumbered DEF Typed
<1>2. Numbered
      BY EmptyNumbered DEF Numbered
<1>3. Path3InOrder
  <2>1. (<<>> \o <<>>) \o <<>> = <<>>
        OBVIOUS
  <2> QED BY <2>1, Path3Empty DEF Path3InOrder
<1>4. VifTyped
      BY BoundAssumption DEF VifTyped, NoImage
<1>5. VifFits
  <2> QED BY NothingFits DEF VifFits, NoImage, Fits
<1>6. BuffersInv
      BY DEF BuffersInv, BuffersTyped, Registers, Address, Placed, BuffersAlternate
<1> QED BY <1>1, <1>2, <1>3, <1>4, <1>5, <1>6 DEF IInv, PathInv, VifInv

\* Every step keeps the state good.
LEMMA StepHolds ==
    ASSUME IInv, [Next]_vars
    PROVE  IInv' /\ HandedOver
BY PathStep, VifStepFits, BuffersStep DEF IInv, VifInv

\* The inductive invariant: what the paths hold is numbered, what VIF1 has left
\* is as the program meant it, TOPS is the buffer that DBF names.
THEOREM Invariance ==
    Spec => []IInv
<1>1. Init => IInv
      BY InitHolds
<1>2. IInv /\ [Next]_vars => IInv'
      BY StepHolds
<1> QED BY <1>1, <1>2, PTL DEF Spec

\* The packets of PATH3 reach the GS once each and in the order of sending,
\* through the mask, the queue and the sorting of the arbiter (submitGifPacket,
\* drain, MSKPATH3).
THEOREM InOrder ==
    Spec => []Path3InOrder
<1>1. IInv => Path3InOrder
      BY DEF IInv, PathInv
<1> QED BY <1>1, Invariance, PTL

\* VIF1 reads no code as data and no data as a code, however images are split
\* between DIRECTs and transfers (processVIF1Data).
THEOREM InStep ==
    Spec => []VifInStep
<1>1. IInv => VifInStep
      BY FitsInStep DEF IInv
<1> QED BY <1>1, Invariance, PTL

\* The buffer being filled is never the one that the last program works on
\* (MSCAL, MSCNT, BASE, OFFSET, FBRST).
THEOREM Alternate ==
    Spec => []BuffersAlternate
<1>1. IInv => BuffersAlternate
      BY DEF IInv, BuffersInv
<1> QED BY <1>1, Invariance, PTL

\* The comparator of the arbiter gives the order that DIRECTHL asks for at every
\* drain, though it is no weak order.
THEOREM Drained ==
    Spec => DrainedInOrder
<1>1. IInv /\ [Next]_vars => [HandedOver]_vars
      BY StepHolds
<1>2. HandedOver => LET new == SubSeq(done', Len(done) + 1, Len(done'))
                    IN  Handed(new)
      BY DEF HandedOver
<1> QED BY <1>1, Invariance, PTL DEF Spec, DrainedInOrder, HandedOver, Handed
=============================================================================
