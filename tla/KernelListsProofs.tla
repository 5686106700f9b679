------------------------- MODULE KernelListsProofs -------------------------
(***************************************************************************)
(* Lemmas about queues without repetitions: what removing an entry and     *)
(* selecting some of the entries do to the set of entries.                 *)
(***************************************************************************)
EXTENDS KernelLists, SequenceTheorems, NaturalsInduction, WellFoundedInduction, TLAPS

\* Induction over the natural numbers, as a fact about sets.
LEMMA SetInduction ==
    ASSUME NEW S \in SUBSET Nat, 0 \in S, \A n \in S : n + 1 \in S
    PROVE  S = Nat
<1> DEFINE B == Nat \ S
<1>1. SUFFICES ASSUME B # {} PROVE FALSE
      OBVIOUS
<1>2. PICK x \in B : \A y \in B : ~(<<y, x>> \in OpToRel(<, Nat))
  <2>1. B \subseteq Nat
        OBVIOUS
  <2> QED BY <2>1, <1>1, NatLessThanWellFounded, WFMin
<1>3. \A y \in B : ~(y < x)
      BY <1>2 DEF OpToRel
<1>4. x \in Nat /\ x # 0
      OBVIOUS
<1>5. x - 1 \in Nat /\ x - 1 < x /\ (x - 1) + 1 = x
      BY <1>4
<1>6. x - 1 \in S
      BY <1>3, <1>5
<1> QED BY <1>5, <1>6

\* A set of natural numbers that is not empty has a least element.
LEMMA LeastElement ==
    ASSUME NEW I, I \subseteq Nat, I # {}
    PROVE  /\ Min(I) \in I
           /\ \A n \in I : Min(I) <= n
<1>1. PICK x \in I : \A y \in I : ~(<<y, x>> \in OpToRel(<, Nat))
      BY NatLessThanWellFounded, WFMin
<1>2. \A y \in I : ~(y < x)
      BY <1>1 DEF OpToRel
<1>3. \A y \in I : x <= y
      BY <1>2
<1> QED BY <1>3 DEF Min

\* Removing the entry at a position of a queue without repetitions.
LEMMA RemoveAtFacts ==
    ASSUME NEW T, NEW q \in Seq(T), NEW i \in 1 .. Len(q)
    PROVE  /\ RemoveAt(q, i) \in Seq(T)
           /\ Len(RemoveAt(q, i)) = Len(q) - 1
           /\ \A j \in 1 .. Len(q) - 1 :
                 RemoveAt(q, i)[j] = IF j < i THEN q[j] ELSE q[j + 1]
<1> DEFINE a == SubSeq(q, 1, i - 1)
           b == SubSeq(q, i + 1, Len(q))
<1>1. /\ a \in Seq(T) /\ Len(a) = i - 1
      /\ \A j \in 1 .. i - 1 : a[j] = q[j]
  <2>1. \A j \in 1 .. i - 1 : q[j] \in T
        OBVIOUS
  <2>2. 1 \in Int /\ i - 1 \in Int /\ (i - 1) - 1 + 1 = i - 1
        OBVIOUS
  <2> QED BY <2>1, <2>2, SubSeqProperties
<1>2. /\ b \in Seq(T) /\ Len(b) = Len(q) - i
      /\ \A j \in 1 .. Len(q) - i : b[j] = q[i + j]
  <2>1. \A j \in i + 1 .. Len(q) : q[j] \in T
        OBVIOUS
  <2>2. i + 1 \in Int /\ Len(q) \in Int /\ Len(q) - (i + 1) + 1 = Len(q) - i
        OBVIOUS
  <2>3. \A j \in 1 .. Len(q) - i : (i + 1) + j - 1 = i + j
        OBVIOUS
  <2>4. /\ b \in Seq(T)
        /\ Len(b) = IF i + 1 <= Len(q) THEN Len(q) - (i + 1) + 1 ELSE 0
        /\ \A j \in 1 .. Len(q) - (i + 1) + 1 : b[j] = q[(i + 1) + j - 1]
        BY <2>1, <2>2, SubSeqProperties
  <2> HIDE DEF b
  <2>5. Len(b) = Len(q) - i
        BY <2>4
  <2>6. ASSUME NEW j \in 1 .. Len(q) - i PROVE b[j] = q[i + j]
    <3>1. j \in 1 .. Len(q) - (i + 1) + 1 /\ (i + 1) + j - 1 = i + j
          OBVIOUS
    <3> QED BY <2>4, <3>1
  <2> QED BY <2>4, <2>5, <2>6
<1>3. RemoveAt(q, i) = a \o b
      BY DEF RemoveAt
<1>4. /\ a \o b \in Seq(T) /\ Len(a \o b) = Len(a) + Len(b)
      /\ \A j \in 1 .. Len(a) + Len(b) :
            (a \o b)[j] = IF j <= Len(a) THEN a[j] ELSE b[j - Len(a)]
      BY <1>1, <1>2, ConcatProperties
<1> HIDE DEF a, b
<1> QED BY <1>1, <1>2, <1>3, <1>4

\* A queue lists the entries at its positions; it is injective when no two
\* positions have the same entry.
LEMMA RangeOfQueue ==
    ASSUME NEW T, NEW q \in Seq(T)
    PROVE  /\ Range(q) = {q[i] : i \in 1 .. Len(q)}
           /\ Range(q) \subseteq T
           /\ IsInjective(q) <=> \A i, j \in 1 .. Len(q) : q[i] = q[j] => i = j
<1>1. DOMAIN q = 1 .. Len(q)
      OBVIOUS
<1> QED BY <1>1 DEF Range, IsInjective

\* push_back of a new entry.
LEMMA AppendFacts ==
    ASSUME NEW T, NEW q \in Seq(T), NEW t \in T
    PROVE  /\ Append(q, t) \in Seq(T)
           /\ Range(Append(q, t)) = Range(q) \cup {t}
           /\ IsInjective(q) /\ t \notin Range(q) => IsInjective(Append(q, t))
<1> DEFINE a == Append(q, t)
<1>1. /\ a \in Seq(T) /\ Len(a) = Len(q) + 1 /\ Len(q) \in Nat
      /\ \A i \in 1 .. Len(q) : a[i] = q[i]
      /\ a[Len(q) + 1] = t
      OBVIOUS
<1> HIDE DEF a
<1>2. Range(a) = {a[i] : i \in 1 .. Len(a)} /\ Range(q) = {q[i] : i \in 1 .. Len(q)}
      BY <1>1, RangeOfQueue
<1>3. Range(a) = Range(q) \cup {t}
  <2>1. \A i \in 1 .. Len(a) : i \in 1 .. Len(q) \/ i = Len(q) + 1
        BY <1>1
  <2>2. \A i \in 1 .. Len(q) : i \in 1 .. Len(a)
        BY <1>1
  <2>3. Len(q) + 1 \in 1 .. Len(a)
        BY <1>1
  <2> QED BY <1>1, <1>2, <2>1, <2>2, <2>3
<1>4. ASSUME IsInjective(q), t \notin Range(q) PROVE IsInjective(a)
  <2>1. \A i, j \in 1 .. Len(q) : q[i] = q[j] => i = j
        BY <1>4, RangeOfQueue
  <2>2. \A i \in 1 .. Len(q) : q[i] # t
        BY <1>4, <1>2
  <2>3. \A i \in 1 .. Len(a) : i \in 1 .. Len(q) \/ i = Len(q) + 1
        BY <1>1
  <2>4. \A i, j \in 1 .. Len(a) : a[i] = a[j] => i = j
        BY <1>1, <2>1, <2>2, <2>3
  <2> QED BY <1>1, <2>4, RangeOfQueue
<1> QED BY <1>1, <1>3, <1>4 DEF a

\* pop_front.
LEMMA TailFacts ==
    ASSUME NEW T, NEW q \in Seq(T), q # <<>>
    PROVE  /\ Head(q) \in T /\ Head(q) \in Range(q)
           /\ Tail(q) \in Seq(T)
           /\ IsInjective(q) => /\ Range(Tail(q)) = Range(q) \ {Head(q)}
                                /\ IsInjective(Tail(q))
<1> DEFINE a == Tail(q)
<1>1. /\ a \in Seq(T) /\ Len(q) \in Nat \ {0} /\ Len(a) = Len(q) - 1
      /\ \A i \in 1 .. Len(q) - 1 : a[i] = q[i + 1]
      /\ Head(q) = q[1] /\ q[1] \in T
      OBVIOUS
<1> HIDE DEF a
<1>2. Range(a) = {a[i] : i \in 1 .. Len(a)} /\ Range(q) = {q[i] : i \in 1 .. Len(q)}
      BY <1>1, RangeOfQueue
<1>3. 1 \in 1 .. Len(q) /\ \A i \in 1 .. Len(a) : i \in 1 .. Len(q) - 1 /\ i + 1 \in 1 .. Len(q)
      BY <1>1
<1>4. ASSUME IsInjective(q) PROVE Range(a) = Range(q) \ {q[1]} /\ IsInjective(a)
  <2>1. \A i, j \in 1 .. Len(q) : q[i] = q[j] => i = j
        BY <1>4, RangeOfQueue
  <2>2. \A i \in 1 .. Len(a) : q[i + 1] # q[1]
        BY <1>1, <1>3, <2>1
  <2>3. Range(a) \subseteq Range(q) \ {q[1]}
        BY <1>1, <1>2, <1>3, <2>2
  <2>4. \A i \in 1 .. Len(q) : i = 1 \/ (i - 1 \in 1 .. Len(a) /\ q[i] = a[i - 1])
    <3>1. \A i \in 1 .. Len(q) : i = 1 \/ (i - 1 \in 1 .. Len(q) - 1 /\ (i - 1) + 1 = i)
          BY <1>1
    <3> QED BY <1>1, <3>1
  <2>5. Range(q) \ {q[1]} \subseteq Range(a)
        BY <1>2, <2>4
  <2>6. ASSUME NEW i \in 1 .. Len(a), NEW j \in 1 .. Len(a), a[i] = a[j] PROVE i = j
    <3>1. q[i + 1] = q[j + 1] /\ i + 1 \in 1 .. Len(q) /\ j + 1 \in 1 .. Len(q)
          BY <1>1, <1>3, <2>6
    <3>2. i + 1 = j + 1
          BY <2>1, <3>1
    <3> QED BY <3>2
  <2> QED BY <1>1, <2>3, <2>5, <2>6, RangeOfQueue
<1> QED BY <1>1, <1>2, <1>3, <1>4 DEF a

\* Appending one queue to another.
LEMMA ConcatFacts ==
    ASSUME NEW T, NEW q \in Seq(T), NEW r \in Seq(T)
    PROVE  /\ q \o r \in Seq(T)
           /\ Range(q \o r) = Range(q) \cup Range(r)
           /\ IsInjective(q) /\ IsInjective(r) /\ Range(q) \cap Range(r) = {}
                => IsInjective(q \o r)
<1> DEFINE a == q \o r
<1>1. /\ a \in Seq(T) /\ Len(q) \in Nat /\ Len(r) \in Nat /\ Len(a) = Len(q) + Len(r)
      /\ \A i \in 1 .. Len(q) + Len(r) : a[i] = IF i <= Len(q) THEN q[i] ELSE r[i - Len(q)]
      BY ConcatProperties
<1> HIDE DEF a
<1>2. /\ Range(a) = {a[i] : i \in 1 .. Len(a)}
      /\ Range(q) = {q[i] : i \in 1 .. Len(q)} /\ Range(r) = {r[i] : i \in 1 .. Len(r)}
      BY <1>1, RangeOfQueue
<1>3. \A i \in 1 .. Len(a) : \/ i \in 1 .. Len(q) /\ a[i] = q[i]
                             \/ i - Len(q) \in 1 .. Len(r) /\ a[i] = r[i - Len(q)]
      BY <1>1
<1>4. \A i \in 1 .. Len(q) : i \in 1 .. Len(a) /\ a[i] = q[i]
      BY <1>1
<1>5. ASSUME NEW i \in 1 .. Len(r) PROVE i + Len(q) \in 1 .. Len(a) /\ a[i + Len(q)] = r[i]
  <2>1. i + Len(q) \in 1 .. Len(q) + Len(r) /\ ~(i + Len(q) <= Len(q)) /\ (i + Len(q)) - Len(q) = i
        BY <1>1
  <2> QED BY <1>1, <2>1
<1>6. Range(a) = Range(q) \cup Range(r)
  <2>1. Range(a) \subseteq Range(q) \cup Range(r)
        BY <1>2, <1>3
  <2>2. Range(q) \subseteq Range(a)
        BY <1>2, <1>4
  <2>3. Range(r) \subseteq Range(a)
        BY <1>2, <1>5
  <2> QED BY <2>1, <2>2, <2>3
<1>7. ASSUME IsInjective(q), IsInjective(r), Range(q) \cap Range(r) = {}
      PROVE  IsInjective(a)
  <2>1. /\ \A i, j \in 1 .. Len(q) : q[i] = q[j] => i = j
        /\ \A i, j \in 1 .. Len(r) : r[i] = r[j] => i = j
        BY <1>7, RangeOfQueue
  <2>2. \A i \in 1 .. Len(q), j \in 1 .. Len(r) : q[i] # r[j]
        BY <1>2, <1>7
  <2>3. ASSUME NEW i \in 1 .. Len(a), NEW j \in 1 .. Len(a), a[i] = a[j] PROVE i = j
    <3>1. CASE i \in 1 .. Len(q) /\ a[i] = q[i] /\ j \in 1 .. Len(q) /\ a[j] = q[j]
          BY <2>1, <2>3, <3>1
    <3>2. CASE i - Len(q) \in 1 .. Len(r) /\ a[i] = r[i - Len(q)]
               /\ j - Len(q) \in 1 .. Len(r) /\ a[j] = r[j - Len(q)]
      <4>1. i - Len(q) = j - Len(q)
            BY <2>1, <2>3, <3>2
      <4> QED BY <1>1, <4>1
    <3> QED BY <1>3, <2>2, <2>3, <3>1, <3>2
  <2> QED BY <1>1, <2>3, RangeOfQueue
<1> QED BY <1>1, <1>6, <1>7 DEF a

\* push_front of a new entry.
LEMMA ConsFacts ==
    ASSUME NEW T, NEW q \in Seq(T), NEW t \in T
    PROVE  /\ <<t>> \o q \in Seq(T)
           /\ Range(<<t>> \o q) = Range(q) \cup {t}
           /\ IsInjective(q) /\ t \notin Range(q) => IsInjective(<<t>> \o q)
<1> DEFINE one == <<t>>
<1>1. one \in Seq(T) /\ Len(one) = 1 /\ one[1] = t
      OBVIOUS
<1> HIDE DEF one
<1>2. Range(one) = {t} /\ IsInjective(one)
  <2>1. /\ Range(one) = {one[i] : i \in 1 .. Len(one)}
        /\ IsInjective(one) <=> \A i, j \in 1 .. Len(one) : one[i] = one[j] => i = j
    <3>1. one \in Seq(T)
          BY <1>1
    <3> QED BY ONLY <3>1, RangeOfQueue
  <2>2. \A i \in 1 .. Len(one) : i = 1
        BY <1>1
  <2>3. 1 \in 1 .. Len(one)
        BY <1>1
  <2>4. Range(one) = {t}
        BY <1>1, <2>1, <2>2, <2>3
  <2>5. \A i, j \in 1 .. Len(one) : one[i] = one[j] => i = j
        BY <2>2
  <2> QED BY <2>1, <2>4, <2>5
<1>3. /\ one \o q \in Seq(T)
      /\ Range(one \o q) = Range(one) \cup Range(q)
      /\ IsInjective(one) /\ IsInjective(q) /\ Range(one) \cap Range(q) = {}
           => IsInjective(one \o q)
      BY <1>1, ConcatFacts
<1>4. /\ one \o q \in Seq(T)
      /\ Range(one \o q) = Range(q) \cup {t}
      /\ IsInjective(q) /\ t \notin Range(q) => IsInjective(one \o q)
      BY <1>2, <1>3
<1> QED BY <1>4 DEF one

\* Removing the first, hence only, occurrence of t.
LEMMA RemoveFirstFacts ==
    ASSUME NEW T, NEW q \in Seq(T), NEW t
    PROVE  /\ RemoveFirst(q, t) \in Seq(T)
           /\ t \notin Range(q) => RemoveFirst(q, t) = q
           /\ t \in Range(q) => \E i \in 1 .. Len(q) : q[i] = t /\ RemoveFirst(q, t) = RemoveAt(q, i)
           /\ IsInjective(q) => /\ Range(RemoveFirst(q, t)) = Range(q) \ {t}
                                /\ IsInjective(RemoveFirst(q, t))
<1> DEFINE r == RemoveFirst(q, t)
<1>0. Range(q) = {q[i] : i \in 1 .. Len(q)} /\ Len(q) \in Nat
      BY RangeOfQueue
<1>1. CASE t \notin Range(q)
  <2>1. ~ \E i \in 1 .. Len(q) : q[i] = t
        BY <1>0, <1>1
  <2>2. r = q
        BY <2>1 DEF RemoveFirst
  <2> QED BY <1>1, <2>2
<1>2. CASE t \in Range(q)
  <2> DEFINE I == {i \in 1 .. Len(q) : q[i] = t}
             k == Min(I)
  <2>1. \E i \in 1 .. Len(q) : q[i] = t
        BY <1>0, <1>2
  <2>2. I \subseteq Nat /\ I # {}
        BY <2>1
  <2>3. k \in I
        BY <2>2, LeastElement
  <2>4. r = RemoveAt(q, k)
        BY <2>1, <2>2 DEF RemoveFirst, SelectInSeq
  <2>5. k \in 1 .. Len(q) /\ q[k] = t
        BY <2>3
  <2> HIDE DEF I, k, r
  <2>6. /\ r \in Seq(T) /\ Len(r) = Len(q) - 1
        /\ \A j \in 1 .. Len(q) - 1 : r[j] = IF j < k THEN q[j] ELSE q[j + 1]
        BY <2>4, <2>5, RemoveAtFacts
  <2>7. Range(r) = {r[i] : i \in 1 .. Len(r)}
        BY <2>6, RangeOfQueue
  <2>8. ASSUME IsInjective(q) PROVE Range(r) = Range(q) \ {t} /\ IsInjective(r)
    <3>1. \A i, j \in 1 .. Len(q) : q[i] = q[j] => i = j
          BY <2>8, RangeOfQueue
    <3>2. ASSUME NEW j \in 1 .. Len(r)
          PROVE  \E i \in 1 .. Len(q) : r[j] = q[i] /\ i # k
      <4>1. j \in 1 .. Len(q) /\ j + 1 \in 1 .. Len(q) /\ j \in 1 .. Len(q) - 1
            BY <2>6, <1>0
      <4>2. CASE j < k
            BY <2>5, <2>6, <4>1, <4>2
      <4>3. CASE ~(j < k)
            BY <2>5, <2>6, <4>1, <4>3
      <4> QED BY <4>2, <4>3
    <3>3. Range(r) \subseteq Range(q) \ {t}
          BY <1>0, <2>5, <2>7, <3>1, <3>2
    <3>4. ASSUME NEW i \in 1 .. Len(q), i # k
          PROVE  \E j \in 1 .. Len(r) : r[j] = q[i]
      <4>1. CASE i < k
        <5>1. i \in 1 .. Len(q) - 1
              BY <2>5, <1>0, <4>1
        <5> QED BY <2>6, <4>1, <5>1
      <4>2. CASE i > k
        <5>1. i - 1 \in 1 .. Len(q) - 1 /\ ~(i - 1 < k) /\ (i - 1) + 1 = i
              BY <2>5, <1>0, <4>2
        <5> QED BY <2>6, <5>1
      <4> QED BY <2>5, <3>4, <4>1, <4>2
    <3>5. Range(q) \ {t} \subseteq Range(r)
          BY <1>0, <2>5, <2>7, <3>4
    <3>6. ASSUME NEW i \in 1 .. Len(r), NEW j \in 1 .. Len(r), i < j PROVE r[i] # r[j]
      <4>1. /\ i \in 1 .. Len(q) /\ i + 1 \in 1 .. Len(q) /\ j \in 1 .. Len(q)
            /\ j + 1 \in 1 .. Len(q) /\ i \in 1 .. Len(q) - 1 /\ j \in 1 .. Len(q) - 1
            BY <2>6, <1>0
      <4>2. CASE j < k
            BY <2>5, <2>6, <3>1, <3>6, <4>1, <4>2
      <4>3. CASE ~(j < k) /\ i < k
            BY <2>5, <2>6, <3>1, <3>6, <4>1, <4>3
      <4>4. CASE ~(i < k)
            BY <2>5, <2>6, <3>1, <3>6, <4>1, <4>4
      <4> QED BY <2>5, <4>2, <4>3, <4>4
    <3>7. \A i, j \in 1 .. Len(r) : r[i] = r[j] => i = j
      <4>1. \A i, j \in 1 .. Len(r) : i < j \/ j < i \/ i = j
            BY <2>6, <1>0
      <4> QED BY <3>6, <4>1
    <3> QED BY <2>6, <3>3, <3>5, <3>7, RangeOfQueue
  <2> QED BY <1>2, <2>4, <2>5, <2>6, <2>8 DEF r
<1> QED BY <1>1, <1>2

\* The function that Among is defined by exists.
LEMMA UpToExists ==
    ASSUME NEW T, NEW w \in Seq(T), NEW S
    PROVE  \E f : f = [i \in 0 .. Len(w) |->
                         IF i = 0 THEN <<>>
                         ELSE IF w[i] \in S THEN Append(f[i - 1], w[i]) ELSE f[i - 1]]
<1> DEFINE L == Len(w)
           Step(g, i) == IF w[i] \in S THEN Append(g, w[i]) ELSE g
           Upto(n, f) == /\ f = [i \in 0 .. n |-> f[i]]
                         /\ f[0] = <<>>
                         /\ \A i \in 1 .. n : f[i] = Step(f[i - 1], i)
           N == {n \in Nat : n <= L => \E f : Upto(n, f)}
<1>0. L \in Nat
      OBVIOUS
<1> HIDE DEF L, Step
<1>1. 0 \in N
  <2> DEFINE e == [i \in 0 .. 0 |-> <<>>]
  <2>1. e = [i \in 0 .. 0 |-> e[i]] /\ e[0] = <<>>
        OBVIOUS
  <2>2. \A i \in 1 .. 0 : e[i] = Step(e[i - 1], i)
        OBVIOUS
  <2>3. Upto(0, e)
        BY <2>1, <2>2
  <2> QED BY <2>3
<1>2. ASSUME NEW n \in N PROVE n + 1 \in N
  <2>1. CASE ~(n + 1 <= L)
        BY <2>1
  <2>2. CASE n + 1 <= L
    <3>1. n \in Nat /\ n <= L
          BY <2>2, <1>0
    <3>2. PICK f : Upto(n, f)
          BY <3>1
    <3> DEFINE g == [i \in 0 .. n + 1 |-> IF i = n + 1 THEN Step(f[n], n + 1) ELSE f[i]]
    <3>3. g[n + 1] = Step(f[n], n + 1)
          BY <3>1
    <3>4. \A i \in 0 .. n : g[i] = f[i]
          BY <3>1
    <3>5. g = [i \in 0 .. n + 1 |-> g[i]]
          OBVIOUS
    <3> HIDE DEF g
    <3>6. g[0] = <<>>
          BY <3>1, <3>2, <3>4
    <3>7. ASSUME NEW i \in 1 .. n + 1 PROVE g[i] = Step(g[i - 1], i)
      <4>1. CASE i = n + 1
        <5>1. i - 1 = n /\ n \in 0 .. n
              BY <3>1, <4>1
        <5> QED BY <3>3, <3>4, <4>1, <5>1
      <4>2. CASE i # n + 1
        <5>1. i \in 1 .. n /\ i \in 0 .. n /\ i - 1 \in 0 .. n
              BY <3>1, <4>2
        <5>2. f[i] = Step(f[i - 1], i)
              BY <3>2, <5>1
        <5> QED BY <3>4, <5>1, <5>2
      <4> QED BY <4>1, <4>2
    <3>8. Upto(n + 1, g)
          BY <3>5, <3>6, <3>7
    <3>9. n + 1 \in Nat
          BY <3>1
    <3>10. \E h : Upto(n + 1, h)
          BY <3>8
    <3> HIDE DEF Upto
    <3> QED BY <3>9, <3>10
  <2> QED BY <2>1, <2>2
<1>3. N = Nat
  <2>1. N \in SUBSET Nat
        OBVIOUS
  <2> HIDE DEF N
  <2> QED BY <1>1, <1>2, <2>1, SetInduction
<1>4. PICK f : Upto(L, f)
      BY <1>0, <1>3
<1>5. f = [i \in 0 .. L |-> IF i = 0 THEN <<>> ELSE Step(f[i - 1], i)]
  <2>1. \A i \in 0 .. L : f[i] = IF i = 0 THEN <<>> ELSE Step(f[i - 1], i)
    <3>1. \A i \in 0 .. L : i = 0 \/ i \in 1 .. L
          BY <1>0
    <3> QED BY <1>4, <3>1
  <2> QED BY <1>4, <2>1
<1> QED BY <1>5 DEF Step, L

\* Selecting the entries of a queue that are in S.
LEMMA AmongFacts ==
    ASSUME NEW T, NEW w \in Seq(T), NEW S
    PROVE  /\ Among(w, S) \in Seq(T)
           /\ Range(Among(w, S)) = Range(w) \cap S
           /\ IsInjective(w) => IsInjective(Among(w, S))
<1> DEFINE L == Len(w)
           Eq(f) == f = [i \in 0 .. L |->
                           IF i = 0 THEN <<>>
                           ELSE IF w[i] \in S THEN Append(f[i - 1], w[i]) ELSE f[i - 1]]
           u == CHOOSE f : Eq(f)
           First(n) == {w[i] : i \in 1 .. n}
           Good(n) == /\ u[n] \in Seq(T)
                      /\ Range(u[n]) = First(n) \cap S
                      /\ IsInjective(w) => IsInjective(u[n])
           N == {n \in Nat : n <= L => Good(n)}
<1>0. L \in Nat /\ \A i \in 1 .. L : w[i] \in T
      OBVIOUS
<1>1. Eq(u)
  <2>1. \E f : Eq(f)
        BY UpToExists
  <2> QED BY <2>1
<1>2. Among(w, S) = u[L]
      BY DEF Among
<1>3. /\ u[0] = <<>>
      /\ \A i \in 1 .. L : u[i] = IF w[i] \in S THEN Append(u[i - 1], w[i]) ELSE u[i - 1]
  <2> HIDE DEF u, L
  <2>1. \A i \in 0 .. L :
           u[i] = IF i = 0 THEN <<>>
                  ELSE IF w[i] \in S THEN Append(u[i - 1], w[i]) ELSE u[i - 1]
        BY <1>1
  <2>2. 0 \in 0 .. L /\ \A i \in 1 .. L : i \in 0 .. L /\ i # 0
        BY <1>0
  <2> QED BY <2>1, <2>2
<1> HIDE DEF u, L
<1>4. 0 \in N
  <2>1. u[0] \in Seq(T) /\ Len(u[0]) = 0
        BY <1>3
  <2>2. \A i \in 1 .. 0 : FALSE
        OBVIOUS
  <2>3. Range(u[0]) = {} /\ IsInjective(u[0])
        BY <2>1, <2>2, RangeOfQueue
  <2>4. First(0) = {}
        BY <2>2
  <2>5. Good(0)
        BY <2>1, <2>3, <2>4
  <2> QED BY <2>5
<1>5. ASSUME NEW n \in N PROVE n + 1 \in N
  <2>1. CASE ~(n + 1 <= L)
        BY <2>1
  <2>2. CASE n + 1 <= L
    <3>1. n \in Nat /\ n + 1 \in 1 .. L /\ (n + 1) - 1 = n /\ n <= L
          BY <1>0, <2>2
    <3>2. Good(n)
          BY <3>1
    <3> DEFINE v == u[n]
               t == w[n + 1]
    <3>3. u[n + 1] = IF t \in S THEN Append(v, t) ELSE v
          BY <1>3, <3>1
    <3>4. First(n + 1) = First(n) \cup {t}
      <4>1. \A i \in 1 .. n + 1 : i \in 1 .. n \/ i = n + 1
            BY <3>1
      <4>2. n + 1 \in 1 .. n + 1 /\ \A i \in 1 .. n : i \in 1 .. n + 1
            BY <3>1
      <4> QED BY <4>1, <4>2
    <3>5. t \in T
          BY <1>0, <3>1
    <3>6. IsInjective(w) => t \notin First(n)
      <4>1. IsInjective(w) => \A i, j \in 1 .. L : w[i] = w[j] => i = j
            BY RangeOfQueue DEF L
      <4>2. \A i \in 1 .. n : i \in 1 .. L /\ i # n + 1
            BY <3>1, <1>0
      <4> QED BY <3>1, <4>1, <4>2
    <3>7. /\ v \in Seq(T)
          /\ Range(v) = First(n) \cap S
          /\ IsInjective(w) => IsInjective(v)
          BY <3>2
    <3> HIDE DEF v, t, First
    <3>8. CASE t \in S
      <4>1. /\ Append(v, t) \in Seq(T)
            /\ Range(Append(v, t)) = Range(v) \cup {t}
            /\ IsInjective(v) /\ t \notin Range(v) => IsInjective(Append(v, t))
            BY <3>5, <3>7, AppendFacts
      <4>2. u[n + 1] = Append(v, t)
            BY <3>3, <3>8
      <4>3. Range(u[n + 1]) = First(n + 1) \cap S
            BY <3>4, <3>7, <3>8, <4>1, <4>2
      <4>4. IsInjective(w) => IsInjective(u[n + 1])
            BY <3>6, <3>7, <4>1, <4>2
      <4>5. Good(n + 1)
            BY <4>1, <4>2, <4>3, <4>4
      <4> HIDE DEF Good
      <4> QED BY <3>1, <4>5
    <3>9. CASE t \notin S
      <4>1. u[n + 1] = v /\ First(n + 1) \cap S = First(n) \cap S
            BY <3>3, <3>4, <3>9
      <4> QED BY <3>1, <3>7, <4>1
    <3> QED BY <3>8, <3>9
  <2> QED BY <2>1, <2>2
<1>6. N = Nat
  <2>1. N \in SUBSET Nat
        OBVIOUS
  <2> HIDE DEF N
  <2> QED BY <1>4, <1>5, <2>1, SetInduction
<1>7. Good(L)
  <2>1. L \in N
        BY <1>0, <1>6
  <2> HIDE DEF Good
  <2> QED BY <1>0, <2>1
<1>8. First(L) = Range(w)
      BY RangeOfQueue DEF L
<1> QED BY <1>2, <1>7, <1>8

\* All but the last of q.
LEMMA FrontFacts ==
    ASSUME NEW T, NEW q \in Seq(T), q # <<>>
    PROVE  /\ Len(q) \in Nat \ {0} /\ Last(q) = q[Len(q)] /\ Last(q) \in T
           /\ Front(q) \in Seq(T) /\ Len(Front(q)) = Len(q) - 1
           /\ \A i \in 1 .. Len(q) - 1 : Front(q)[i] = q[i]
<1> DEFINE p == SubSeq(q, 1, Len(q) - 1)
<1>1. Len(q) \in Nat \ {0} /\ q[Len(q)] \in T
      OBVIOUS
<1>2. p \in Seq(T) /\ Len(p) = Len(q) - 1 /\ \A i \in 1 .. Len(q) - 1 : p[i] = q[i]
  <2>1. \A i \in 1 .. Len(q) - 1 : q[i] \in T
        OBVIOUS
  <2>2. 1 \in Int /\ Len(q) - 1 \in Int /\ (Len(q) - 1) - 1 + 1 = Len(q) - 1
        BY <1>1
  <2> QED BY <1>1, <2>1, <2>2, SubSeqProperties
<1> QED BY <1>1, <1>2 DEF Front, Last
=============================================================================
