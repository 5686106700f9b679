--------------------------- MODULE GuestHeapProofs ---------------------------
(***************************************************************************)
(* What GuestHeap guarantees for a heap of any size, with any number of    *)
(* users and threads, and any sizes and alignments.  The argument: the     *)
(* blocks tile the heap granule by granule (Tiles), every operation        *)
(* replaces some blocks by others that hold the same granules (Replaced),  *)
(* and coalescing is one of these (CoalescedTiles).                        *)
(***************************************************************************)
EXTENDS GuestHeap, KernelListsProofs

HeapBlock == [addr : Nat, size : Nat, free : BOOLEAN]

\* Granule x lies in block b.
Holds(b, x) == b.addr <= x /\ x < End(b)

\* The blocks B hold every granule from lo to hi - 1 once, and no other.
Tiles(B, lo, hi) ==
    /\ B \subseteq HeapBlock
    /\ \A b \in B : b.size > 0
    /\ \A x \in Nat : (\E b \in B : Holds(b, x)) <=> lo <= x /\ x < hi
    /\ \A x \in Nat : \A b, c \in B : Holds(b, x) /\ Holds(c, x) => b = c

Allocated(B) == {b \in B : ~b.free}

\* An allocated block.
Taken(addr, size) == Block(addr, size, FALSE)

-----------------------------------------------------------------------------
\* A set of natural numbers below a bound has a greatest element.
LEMMA GreatestElement ==
    ASSUME NEW I, I \subseteq Nat, I # {}, NEW k \in Nat, \A n \in I : n <= k
    PROVE  \E m \in I : \A n \in I : n <= m
<1> DEFINE J == {k - n : n \in I}
<1>1. J \subseteq Nat /\ J # {}
  <2>1. ASSUME NEW n \in I PROVE k - n \in Nat
        OBVIOUS
  <2> QED BY <2>1
<1> DEFINE j == Min(J)
<1>2. j \in J /\ \A n \in J : j <= n
      BY <1>1, LeastElement
<1>3. PICK m \in I : j = k - m
      BY <1>2
<1>4. ASSUME NEW n \in I PROVE n <= m
  <2>1. k - n \in J
        OBVIOUS
  <2>2. k - m <= k - n
        BY <1>2, <1>3, <2>1
  <2> QED BY <2>2
<1> QED BY <1>4

\* A block of a tiling lies within its bounds.
LEMMA BlockBounds ==
    ASSUME NEW B, NEW lo \in Nat, NEW hi \in Nat, Tiles(B, lo, hi), NEW b \in B
    PROVE  /\ b \in HeapBlock /\ b.addr \in Nat /\ b.size \in Nat /\ b.size > 0
           /\ End(b) \in Nat /\ lo <= b.addr /\ End(b) <= hi
           /\ Holds(b, b.addr) /\ Holds(b, End(b) - 1)
<1>1. b \in HeapBlock /\ b.addr \in Nat /\ b.size \in Nat /\ b.size > 0
      BY DEF Tiles, HeapBlock
<1>2. End(b) \in Nat /\ End(b) - 1 \in Nat
      BY <1>1 DEF End
<1>3. Holds(b, b.addr) /\ Holds(b, End(b) - 1)
      BY <1>1 DEF Holds, End
<1>4. lo <= b.addr /\ b.addr < hi
      BY <1>1, <1>3 DEF Tiles
<1>5. End(b) - 1 < hi
      BY <1>2, <1>3 DEF Tiles
<1> QED BY <1>1, <1>2, <1>3, <1>4, <1>5

\* Blocks of a tiling that begin or end together are the same, and two
\* different ones lie apart.
LEMMA BlocksApart ==
    ASSUME NEW B, NEW lo \in Nat, NEW hi \in Nat, Tiles(B, lo, hi), NEW b \in B, NEW c \in B
    PROVE  /\ b.addr = c.addr => b = c
           /\ b # c => End(b) <= c.addr \/ End(c) <= b.addr
<1>1. /\ b.addr \in Nat /\ c.addr \in Nat /\ End(b) \in Nat /\ End(c) \in Nat
      /\ Holds(b, b.addr) /\ Holds(c, c.addr)
      BY BlockBounds
<1>2. ASSUME b # c PROVE ~Holds(b, c.addr) /\ ~Holds(c, b.addr)
      BY <1>1, <1>2 DEF Tiles
<1> QED BY <1>1, <1>2 DEF Holds

\* Blocks may be replaced by others that hold the same granules once.
LEMMA Replaced ==
    ASSUME NEW B, NEW lo \in Nat, NEW hi \in Nat, Tiles(B, lo, hi),
           NEW R, R \subseteq B, NEW N, N \subseteq HeapBlock, \A n \in N : n.size > 0,
           \A x \in Nat : (\E n \in N : Holds(n, x)) <=> (\E r \in R : Holds(r, x)),
           \A x \in Nat : \A m, n \in N : Holds(m, x) /\ Holds(n, x) => m = n
    PROVE  Tiles((B \ R) \cup N, lo, hi)
<1> DEFINE C == (B \ R) \cup N
<1>1. C \subseteq HeapBlock /\ \A b \in C : b.size > 0
      BY DEF Tiles
<1>2. ASSUME NEW x \in Nat PROVE (\E b \in C : Holds(b, x)) <=> lo <= x /\ x < hi
  <2>1. (\E b \in C : Holds(b, x)) <=> (\E b \in B : Holds(b, x))
        OBVIOUS
  <2> QED BY <2>1 DEF Tiles
<1>3. ASSUME NEW x \in Nat, NEW b \in C, NEW c \in C, Holds(b, x), Holds(c, x) PROVE b = c
  <2>1. ASSUME NEW n \in N, NEW d \in B \ R, Holds(n, x), Holds(d, x) PROVE FALSE
    <3>1. PICK r \in R : Holds(r, x)
          BY <2>1
    <3>2. r = d
          BY <2>1, <3>1 DEF Tiles
    <3> QED BY <3>2
  <2>2. CASE b \in N /\ c \in N
        BY <1>3, <2>2
  <2>3. CASE b \in B \ R /\ c \in B \ R
        BY <1>3, <2>3 DEF Tiles
  <2> QED BY <1>3, <2>1, <2>2, <2>3
<1> QED BY <1>1, <1>2, <1>3 DEF Tiles

-----------------------------------------------------------------------------
\* The granules of free blocks.
FreeGranule(B, x) == \E b \in B : b.free /\ Holds(b, x)

\* A granule of a run of free blocks is in a free block.
LEMMA RunsAreFree ==
    ASSUME NEW B, NEW lo \in Nat, NEW hi \in Nat, Tiles(B, lo, hi), NEW r \in Runs(B),
           NEW x \in Nat, r[1].addr <= x, x < End(r[2])
    PROVE  FreeGranule(B, x)
<1>1. /\ r[1] \in B /\ r[2] \in B /\ r[1].free /\ r[2].free
      /\ FreeBetween(B, r[1], r[2])
      BY DEF Runs, RunStart, RunEnd
<1>2. /\ r[1].addr \in Nat /\ End(r[1]) \in Nat /\ lo <= r[1].addr
      /\ r[2].addr \in Nat /\ End(r[2]) \in Nat /\ End(r[2]) <= hi
      BY <1>1, BlockBounds
<1>3. PICK c \in B : Holds(c, x)
      BY <1>2 DEF Tiles
<1>4. c.addr \in Nat /\ End(c) \in Nat /\ c.addr <= x /\ x < End(c)
      BY <1>3, BlockBounds DEF Holds
<1>5. c # r[1] => End(c) <= r[1].addr \/ End(r[1]) <= c.addr
      BY <1>1, BlocksApart
<1>6. c # r[2] => End(c) <= r[2].addr \/ End(r[2]) <= c.addr
      BY <1>1, BlocksApart
<1>7. r[1].addr < End(r[1]) /\ r[2].addr < End(r[2])
      BY <1>1, BlockBounds DEF Holds
<1>8. r[1].addr <= c.addr /\ c.addr <= r[2].addr
      BY <1>2, <1>4, <1>5, <1>6, <1>7
<1>9. c.free
      BY <1>1, <1>8 DEF FreeBetween
<1> QED BY <1>3, <1>9 DEF FreeGranule

\* A granule of a free block is in a run.
LEMMA FreeInRun ==
    ASSUME NEW B, NEW lo \in Nat, NEW hi \in Nat, Tiles(B, lo, hi),
           NEW z \in Nat, FreeGranule(B, z)
    PROVE  \E r \in Runs(B) : r[1].addr <= z /\ z < End(r[2])
<1>1. lo <= z /\ z < hi
      BY DEF Tiles, FreeGranule
<1>2. \A v \in Nat : FreeGranule(B, v) => lo <= v /\ v < hi
      BY DEF Tiles, FreeGranule
<1> DEFINE S == {w \in lo .. z : \A v \in w .. z : FreeGranule(B, v)}
           T == {w \in z .. hi - 1 : \A v \in z .. w : FreeGranule(B, v)}
<1>3. S \subseteq Nat /\ T \subseteq Nat /\ z \in S /\ z \in T
      BY <1>1
<1>4. PICK m \in S : \A w \in S : m <= w
      BY <1>3, LeastElement
<1>5. PICK M \in T : \A w \in T : w <= M
  <2>1. hi - 1 \in Nat /\ \A w \in T : w <= hi - 1
        BY <1>1
  <2>2. T \subseteq Nat /\ T # {}
        BY <1>3
  <2> HIDE DEF T, S
  <2> QED BY <2>1, <2>2, GreatestElement
<1>6. /\ m \in Nat /\ lo <= m /\ m <= z /\ \A v \in m .. z : FreeGranule(B, v)
      /\ M \in Nat /\ z <= M /\ M < hi /\ \A v \in z .. M : FreeGranule(B, v)
      BY <1>1, <1>3, <1>4, <1>5
<1>7. \A v \in m .. M : FreeGranule(B, v)
  <2>1. ASSUME NEW v \in m .. M PROVE v \in m .. z \/ v \in z .. M
        BY <1>6
  <2> QED BY <2>1, <1>6
<1>8. ~(m - 1 \in Nat /\ FreeGranule(B, m - 1))
  <2>1. SUFFICES ASSUME m - 1 \in Nat, FreeGranule(B, m - 1) PROVE FALSE
        OBVIOUS
  <2>2. lo <= m - 1
        BY <2>1, <1>2
  <2>3. \A v \in m - 1 .. z : v = m - 1 \/ v \in m .. z
        BY <1>6
  <2>4. m - 1 \in S
        BY <2>1, <2>2, <2>3, <1>6
  <2> QED BY <2>4, <1>4, <1>6
<1>9. ~FreeGranule(B, M + 1)
  <2>1. SUFFICES ASSUME FreeGranule(B, M + 1) PROVE FALSE
        OBVIOUS
  <2>2. M + 1 < hi
        BY <2>1, <1>2, <1>6
  <2>3. \A v \in z .. M + 1 : v = M + 1 \/ v \in z .. M
        BY <1>6
  <2>4. M + 1 \in T
        BY <2>1, <2>2, <2>3, <1>6
  <2> QED BY <2>4, <1>5, <1>6
<1> HIDE DEF S, T
<1>10. PICK x \in B : x.free /\ Holds(x, m)
       BY <1>6 DEF FreeGranule
<1>11. PICK y \in B : y.free /\ Holds(y, M)
  <2>1. FreeGranule(B, M)
        BY <1>6
  <2> QED BY <2>1 DEF FreeGranule
<1>12. /\ x.addr \in Nat /\ End(x) \in Nat /\ x.addr <= m /\ m < End(x)
       /\ y.addr \in Nat /\ End(y) \in Nat /\ y.addr <= M /\ M < End(y)
       BY <1>10, <1>11, BlockBounds DEF Holds
<1>13. x.addr = m
  <2>1. SUFFICES ASSUME x.addr < m PROVE FALSE
        BY <1>6, <1>12
  <2>2. m - 1 \in Nat /\ Holds(x, m - 1)
        BY <2>1, <1>6, <1>12 DEF Holds
  <2> QED BY <2>2, <1>8, <1>10 DEF FreeGranule
<1>14. End(y) = M + 1
  <2>1. SUFFICES ASSUME M + 1 < End(y) PROVE FALSE
        BY <1>6, <1>12
  <2>2. Holds(y, M + 1)
        BY <2>1, <1>6, <1>12 DEF Holds
  <2> QED BY <2>2, <1>9, <1>11 DEF FreeGranule
<1>15. RunStart(B, x)
  <2>1. SUFFICES ASSUME NEW p \in B, p.free, End(p) = m PROVE FALSE
        BY <1>10, <1>13 DEF RunStart
  <2>2. End(p) - 1 \in Nat /\ Holds(p, End(p) - 1)
        BY BlockBounds DEF Holds
  <2> QED BY <2>1, <2>2, <1>8 DEF FreeGranule
<1>16. RunEnd(B, y)
  <2>1. SUFFICES ASSUME NEW n \in B, n.free, n.addr = M + 1 PROVE FALSE
        BY <1>11, <1>14 DEF RunEnd
  <2>2. Holds(n, M + 1)
        BY <2>1, BlockBounds
  <2> QED BY <2>1, <2>2, <1>9 DEF FreeGranule
<1>17. FreeBetween(B, x, y)
  <2>1. x.addr <= y.addr
    <3>1. SUFFICES ASSUME y.addr < m PROVE FALSE
          BY <1>6, <1>12, <1>13
    <3>2. Holds(y, m - 1) /\ m - 1 \in Nat
          BY <3>1, <1>6, <1>12 DEF Holds
    <3> QED BY <3>2, <1>8, <1>11 DEF FreeGranule
  <2>2. ASSUME NEW c \in B, x.addr <= c.addr, c.addr <= y.addr PROVE c.free
    <3>1. c.addr \in Nat /\ Holds(c, c.addr)
          BY BlockBounds
    <3>2. c.addr \in m .. M
          BY <2>2, <3>1, <1>6, <1>12, <1>13
    <3>3. PICK d \in B : d.free /\ Holds(d, c.addr)
          BY <3>2, <1>7 DEF FreeGranule
    <3>4. c = d
          BY <3>1, <3>3 DEF Tiles
    <3> QED BY <3>3, <3>4
  <2> QED BY <2>1, <2>2 DEF FreeBetween
<1>18. <<x, y>> \in Runs(B)
       BY <1>15, <1>16, <1>17 DEF Runs
<1> QED BY <1>6, <1>12, <1>13, <1>14, <1>18

\* Runs that have a granule in common begin and end together.
LEMMA RunsApart ==
    ASSUME NEW B, NEW lo \in Nat, NEW hi \in Nat, Tiles(B, lo, hi),
           NEW r \in Runs(B), NEW s \in Runs(B), NEW z \in Nat,
           r[1].addr <= z, z < End(r[2]), s[1].addr <= z, z < End(s[2])
    PROVE  r[1].addr = s[1].addr /\ End(r[2]) = End(s[2])
<1>1. ASSUME NEW p \in Runs(B), NEW q \in Runs(B), p[1].addr <= z, z < End(p[2]),
             q[1].addr <= z, z < End(q[2])
      PROVE  p[1].addr >= q[1].addr /\ End(p[2]) <= End(q[2])
  <2>1. /\ p[1] \in B /\ p[2] \in B /\ q[1] \in B /\ q[2] \in B
        /\ RunStart(B, q[1]) /\ RunEnd(B, q[2])
        BY DEF Runs
  <2>2. /\ p[1].addr \in Nat /\ End(p[2]) \in Nat /\ q[1].addr \in Nat /\ End(q[2]) \in Nat
        /\ Holds(q[1], q[1].addr) /\ Holds(q[2], End(q[2]) - 1)
        BY <2>1, BlockBounds
  <2>3. ASSUME p[1].addr < q[1].addr PROVE FALSE
    <3> DEFINE g == q[1].addr - 1
    <3>1. g \in Nat /\ p[1].addr <= g /\ g < End(p[2])
          BY <2>2, <2>3, <1>1
    <3>2. PICK f \in B : f.free /\ Holds(f, g)
          BY <3>1, RunsAreFree DEF FreeGranule
    <3>3. End(f) \in Nat /\ f.addr \in Nat
          BY BlockBounds
    <3>4. End(f) = q[1].addr
      <4>1. SUFFICES ASSUME q[1].addr < End(f) PROVE FALSE
            BY <3>1, <3>2, <3>3, <2>2 DEF Holds
      <4>2. Holds(f, q[1].addr)
            BY <4>1, <3>2, <3>3, <2>2 DEF Holds
      <4>3. f = q[1]
            BY <4>2, <2>1, <2>2 DEF Tiles
      <4> QED BY <4>3, <3>2, <2>2 DEF Holds
    <3> QED BY <3>2, <3>4, <2>1 DEF RunStart
  <2>4. ASSUME End(q[2]) < End(p[2]) PROVE FALSE
    <3> DEFINE g == End(q[2])
    <3>1. g \in Nat /\ p[1].addr <= g /\ g < End(p[2])
          BY <2>2, <2>4, <1>1
    <3>2. PICK f \in B : f.free /\ Holds(f, g)
          BY <3>1, RunsAreFree DEF FreeGranule
    <3>3. End(f) \in Nat /\ f.addr \in Nat
          BY BlockBounds
    <3>4. f.addr = End(q[2])
      <4>1. SUFFICES ASSUME f.addr < End(q[2]) PROVE FALSE
            BY <3>1, <3>2, <3>3, <2>2 DEF Holds
      <4>2. End(q[2]) - 1 \in Nat /\ Holds(f, End(q[2]) - 1)
            BY <4>1, <3>2, <3>3, <2>2 DEF Holds
      <4>3. f = q[2]
            BY <4>2, <2>1, <2>2 DEF Tiles
      <4> QED BY <4>3, <3>2, <2>2 DEF Holds
    <3> QED BY <3>2, <3>4, <2>1 DEF RunEnd
  <2> QED BY <2>2, <2>3, <2>4
<1>2. /\ r[1].addr >= s[1].addr /\ End(r[2]) <= End(s[2])
      /\ s[1].addr >= r[1].addr /\ End(s[2]) <= End(r[2])
      BY <1>1
<1>3. /\ r[1].addr \in Nat /\ End(r[2]) \in Nat /\ s[1].addr \in Nat /\ End(s[2]) \in Nat
      BY BlockBounds DEF Runs
<1> QED BY <1>2, <1>3

-----------------------------------------------------------------------------
\* No two free blocks touch.
Separated(B) == \A b, c \in B : b.free /\ c.free => End(b) # c.addr

\* Coalescing keeps the tiling and the allocated blocks, and leaves no two
\* free blocks side by side.
LEMMA CoalescedTiles ==
    ASSUME NEW B, NEW lo \in Nat, NEW hi \in Nat, Tiles(B, lo, hi)
    PROVE  /\ Tiles(Coalesced(B), lo, hi) /\ Separated(Coalesced(B))
           /\ Allocated(Coalesced(B)) = Allocated(B)
<1> DEFINE Joined(r) == Block(r[1].addr, End(r[2]) - r[1].addr, TRUE)
           R == {b \in B : b.free}
           N == {Joined(r) : r \in Runs(B)}
<1>1. ASSUME NEW r \in Runs(B)
      PROVE  /\ Joined(r) \in HeapBlock /\ Joined(r).size > 0 /\ Joined(r).free
             /\ Joined(r).addr = r[1].addr /\ End(Joined(r)) = End(r[2])
             /\ r[1].addr \in Nat /\ End(r[2]) \in Nat
  <2>1. r[1] \in B /\ r[2] \in B /\ r[1].addr <= r[2].addr
        BY DEF Runs, FreeBetween
  <2>2. /\ r[1].addr \in Nat /\ r[2].addr \in Nat /\ End(r[2]) \in Nat
        /\ r[2].addr < End(r[2])
        BY <2>1, BlockBounds DEF Holds
  <2>3. End(r[2]) - r[1].addr \in Nat /\ End(r[2]) - r[1].addr > 0
        BY <2>1, <2>2
  <2> QED BY <2>2, <2>3 DEF Block, HeapBlock, End
<1>2. N \subseteq HeapBlock /\ \A n \in N : n.size > 0 /\ n.free
      BY <1>1
<1>3. ASSUME NEW r \in Runs(B), NEW x \in Nat
      PROVE  Holds(Joined(r), x) <=> r[1].addr <= x /\ x < End(r[2])
      BY <1>1 DEF Holds
<1> HIDE DEF Joined
<1>4. ASSUME NEW x \in Nat PROVE (\E n \in N : Holds(n, x)) <=> (\E b \in R : Holds(b, x))
  <2>1. ASSUME NEW n \in N, Holds(n, x) PROVE \E b \in R : Holds(b, x)
    <3>1. PICK r \in Runs(B) : n = Joined(r)
          OBVIOUS
    <3>2. FreeGranule(B, x)
          BY <3>1, <2>1, <1>3, RunsAreFree
    <3> QED BY <3>2 DEF FreeGranule
  <2>2. ASSUME NEW b \in R, Holds(b, x) PROVE \E n \in N : Holds(n, x)
    <3>1. FreeGranule(B, x)
          BY <2>2 DEF FreeGranule
    <3>2. PICK r \in Runs(B) : r[1].addr <= x /\ x < End(r[2])
          BY <3>1, FreeInRun
    <3> QED BY <3>2, <1>3
  <2> QED BY <2>1, <2>2
<1>5. ASSUME NEW x \in Nat, NEW m \in N, NEW n \in N, Holds(m, x), Holds(n, x) PROVE m = n
  <2>1. PICK r \in Runs(B) : m = Joined(r)
        OBVIOUS
  <2>2. PICK s \in Runs(B) : n = Joined(s)
        OBVIOUS
  <2>3. r[1].addr = s[1].addr /\ End(r[2]) = End(s[2])
        BY <2>1, <2>2, <1>3, <1>5, RunsApart
  <2> QED BY <2>1, <2>2, <2>3 DEF Joined
<1>6. Coalesced(B) = (B \ R) \cup N
      BY DEF Coalesced, Joined
<1>7. R \subseteq B
      OBVIOUS
<1>8. Separated(Coalesced(B))
  <2>1. SUFFICES ASSUME NEW b \in Coalesced(B), NEW c \in Coalesced(B), b.free, c.free,
                        End(b) = c.addr
                 PROVE  FALSE
        BY DEF Separated
  <2>2. b \in N /\ c \in N
        BY <1>6, <2>1
  <2>3. PICK r \in Runs(B) : b = Joined(r)
        BY <2>2
  <2>4. PICK s \in Runs(B) : c = Joined(s)
        BY <2>2
  <2>5. End(r[2]) = s[1].addr
        BY <1>1, <2>1, <2>3, <2>4
  <2> QED BY <2>5 DEF Runs, RunStart, RunEnd
<1>9. Allocated(Coalesced(B)) = Allocated(B)
      BY <1>2, <1>6 DEF Allocated
<1>10. Tiles(Coalesced(B), lo, hi)
  <2>1. \A n \in N : n.size > 0
        BY <1>2
  <2>2. \A x \in Nat : (\E n \in N : Holds(n, x)) <=> (\E b \in R : Holds(b, x))
        BY <1>4
  <2>3. \A x \in Nat : \A m, n \in N : Holds(m, x) /\ Holds(n, x) => m = n
        BY <1>5
  <2>4. N \subseteq HeapBlock
        BY <1>2
  <2> HIDE DEF R, N
  <2>5. Tiles((B \ R) \cup N, lo, hi)
        BY <1>7, <2>1, <2>2, <2>3, <2>4, Replaced
  <2> QED BY <1>6, <2>5
<1> QED BY <1>8, <1>9, <1>10

\* Freeing a block takes it, and nothing else, from the allocated ones.
LEMMA FreeAtTiles ==
    ASSUME NEW B, NEW lo \in Nat, NEW hi \in Nat, Tiles(B, lo, hi), NEW b \in B, ~b.free
    PROVE  /\ Tiles(FreeAt(B, b.addr), lo, hi) /\ Separated(FreeAt(B, b.addr))
           /\ Allocated(FreeAt(B, b.addr)) = Allocated(B) \ {b}
<1> DEFINE f == [b EXCEPT !.free = TRUE]
           C == (B \ {b}) \cup {f}
<1>1. b \in HeapBlock /\ b.size > 0 /\ b.addr \in Nat /\ b.size \in Nat
      BY BlockBounds
<1>2. f \in HeapBlock /\ f.addr = b.addr /\ f.size = b.size /\ f.free
      BY <1>1 DEF HeapBlock
<1>3. \A x \in Nat : Holds(f, x) <=> Holds(b, x)
      BY <1>2 DEF Holds, End
<1>4. {IF c.addr = b.addr THEN [c EXCEPT !.free = TRUE] ELSE c : c \in B} = C
  <2>1. \A c \in B : c.addr = b.addr <=> c = b
        BY BlocksApart
  <2> QED BY <2>1
<1> HIDE DEF f
<1>5. Tiles(C, lo, hi)
  <2> DEFINE R == {b}
             N == {f}
  <2>1. /\ R \subseteq B /\ N \subseteq HeapBlock /\ \A n \in N : n.size > 0
        /\ \A x \in Nat : (\E n \in N : Holds(n, x)) <=> (\E r \in R : Holds(r, x))
        /\ \A x \in Nat : \A m, n \in N : Holds(m, x) /\ Holds(n, x) => m = n
        BY <1>1, <1>2, <1>3
  <2> HIDE DEF R, N
  <2>2. Tiles((B \ R) \cup N, lo, hi)
        BY <2>1, Replaced
  <2> QED BY <2>2 DEF R, N
<1>6. Allocated(C) = Allocated(B) \ {b}
      BY <1>2 DEF Allocated
<1>7. FreeAt(B, b.addr) = Coalesced(C)
      BY <1>4 DEF FreeAt
<1> HIDE DEF C
<1> QED BY <1>5, <1>6, <1>7, CoalescedTiles

-----------------------------------------------------------------------------
\* The granules from p to q - 1, n of which, from s on, are allocated.
Pieces(p, s, n, q) ==
    {x \in {Block(p, s - p, TRUE), Block(s, n, FALSE), Block(s + n, q - (s + n), TRUE)} :
        x.size > 0}

\* n allocated granules from a on, and then m free ones.
TwoPieces(a, n, m) == {x \in {Block(a, n, FALSE), Block(a + n, m, TRUE)} : x.size > 0}

LEMMA PiecesFromStart ==
    ASSUME NEW a \in Nat, NEW n \in Nat, NEW q \in Nat
    PROVE  Pieces(a, a, n, q) = TwoPieces(a, n, q - (a + n))
<1> DEFINE u == Block(a, a - a, TRUE)
           v == Block(a, n, FALSE)
           w == Block(a + n, q - (a + n), TRUE)
<1>1. u.size = 0
      BY DEF Block
<1>2. Pieces(a, a, n, q) = {x \in {u, v, w} : x.size > 0}
      BY DEF Pieces
<1> HIDE DEF u, v, w
<1>3. {x \in {u, v, w} : x.size > 0} = {x \in {v, w} : x.size > 0}
      BY <1>1
<1> QED BY <1>2, <1>3 DEF v, w, TwoPieces

\* The blocks R of B, which hold the granules from p to q - 1, are cut anew.
Recut(B, R, p, s, n, q, C) ==
    /\ R \subseteq B /\ p \in Nat /\ s \in Nat /\ n \in Nat /\ q \in Nat
    /\ n > 0 /\ p <= s /\ s + n <= q
    /\ \A x \in Nat : (\E r \in R : Holds(r, x)) <=> p <= x /\ x < q
    /\ C = (B \ R) \cup Pieces(p, s, n, q)

\* Of the allocated blocks of B, C lacks R and has n granules at s besides.
Exchanged(B, R, s, n, C) == Allocated(C) = (Allocated(B) \ R) \cup {Taken(s, n)}

LEMMA RecutTiles ==
    ASSUME NEW B, NEW lo \in Nat, NEW hi \in Nat, Tiles(B, lo, hi),
           NEW R, NEW p \in Nat, NEW s \in Nat, NEW n \in Nat, NEW q \in Nat, NEW C,
           Recut(B, R, p, s, n, q, C)
    PROVE  /\ Tiles(C, lo, hi)
           /\ Exchanged(B, R, s, n, C)
<1> DEFINE N == Pieces(p, s, n, q)
           u == Block(p, s - p, TRUE)
           v == Taken(s, n)
           w == Block(s + n, q - (s + n), TRUE)
<1>0. /\ R \subseteq B /\ p \in Nat /\ s \in Nat /\ n \in Nat /\ q \in Nat
      /\ n > 0 /\ p <= s /\ s + n <= q
      /\ \A x \in Nat : (\E r \in R : Holds(r, x)) <=> p <= x /\ x < q
      /\ C = (B \ R) \cup N
      BY DEF Recut
<1>9. s - p \in Nat /\ s + n \in Nat /\ q - (s + n) \in Nat
      BY <1>0
<1>1. /\ u \in HeapBlock /\ u.free /\ u.addr = p /\ End(u) = s /\ u.size = s - p
      /\ v \in HeapBlock /\ ~v.free /\ v.addr = s /\ End(v) = s + n /\ v.size = n
      /\ w \in HeapBlock /\ w.free /\ w.addr = s + n /\ End(w) = q /\ w.size = q - (s + n)
      BY <1>0, <1>9 DEF Taken, Block, HeapBlock, End
<1>2. N = {x \in {u, v, w} : x.size > 0}
      BY DEF Pieces, Taken
<1> HIDE DEF u, v, w, N
<1>3. N \subseteq HeapBlock /\ \A x \in N : x.size > 0
      BY <1>1, <1>2
<1>4. ASSUME NEW x \in Nat PROVE (\E b \in N : Holds(b, x)) <=> (\E r \in R : Holds(r, x))
  <2>1. Holds(u, x) \/ Holds(v, x) \/ Holds(w, x) <=> p <= x /\ x < q
        BY <1>0, <1>1 DEF Holds
  <2>2. /\ Holds(u, x) => u.size > 0
        /\ Holds(w, x) => w.size > 0
        /\ v.size > 0
        BY <1>0, <1>1 DEF Holds
  <2>3. (\E b \in N : Holds(b, x)) <=> Holds(u, x) \/ Holds(v, x) \/ Holds(w, x)
        BY <1>2, <2>2
  <2> QED BY <1>0, <2>1, <2>3
<1>5. ASSUME NEW x \in Nat, NEW b \in N, NEW c \in N, Holds(b, x), Holds(c, x) PROVE b = c
  <2>1. /\ Holds(u, x) <=> p <= x /\ x < s
        /\ Holds(v, x) <=> s <= x /\ x < s + n
        /\ Holds(w, x) <=> s + n <= x /\ x < q
        BY <1>0, <1>1 DEF Holds
  <2>2. /\ ~(Holds(u, x) /\ Holds(v, x)) /\ ~(Holds(u, x) /\ Holds(w, x))
        /\ ~(Holds(v, x) /\ Holds(w, x))
        BY <1>0, <2>1
  <2>3. b \in {u, v, w} /\ c \in {u, v, w}
        BY <1>2
  <2> QED BY <1>5, <2>2, <2>3
<1>6. Tiles(C, lo, hi)
  <2>1. Tiles((B \ R) \cup N, lo, hi)
        BY <1>0, <1>3, <1>4, <1>5, Replaced
  <2> QED BY <1>0, <2>1
<1>7. Allocated(C) = (Allocated(B) \ R) \cup {v}
  <2>1. v \in N /\ \A x \in N : ~x.free <=> x = v
        BY <1>0, <1>1, <1>2
  <2> QED BY <1>0, <2>1 DEF Allocated
<1> QED BY <1>6, <1>7 DEF v, Exchanged

\* If a free block is cut at each end where a free piece is left, no two free
\* blocks touch afterwards.
LEMMA RecutSeparated ==
    ASSUME NEW B, NEW lo \in Nat, NEW hi \in Nat, Tiles(B, lo, hi), Separated(B),
           NEW R, NEW p \in Nat, NEW s \in Nat, NEW n \in Nat, NEW q \in Nat, NEW C,
           Recut(B, R, p, s, n, q, C),
           s = p \/ \E r \in R : r.free /\ r.addr = p,
           s + n = q \/ \E r \in R : r.free /\ End(r) = q
    PROVE  Separated(C)
<1> DEFINE N == Pieces(p, s, n, q)
           u == Block(p, s - p, TRUE)
           w == Block(s + n, q - (s + n), TRUE)
<1>0. /\ R \subseteq B /\ p \in Nat /\ s \in Nat /\ n \in Nat /\ q \in Nat
      /\ n > 0 /\ p <= s /\ s + n <= q
      /\ \A x \in Nat : (\E r \in R : Holds(r, x)) <=> p <= x /\ x < q
      /\ C = (B \ R) \cup N
      BY DEF Recut
<1>1. /\ u.addr = p /\ End(u) = s /\ u.size = s - p
      /\ w.addr = s + n /\ End(w) = q /\ w.size = q - (s + n)
      BY <1>0 DEF Block, End
<1>2. \A x \in N : x.free => x \in {u, w} /\ x.size > 0
      BY DEF Pieces, Block
<1> HIDE DEF u, w, N
<1>3. ASSUME NEW c \in B \ R, NEW x \in Nat, Holds(c, x) PROVE ~(p <= x /\ x < q)
      BY <1>0, <1>3 DEF Tiles
<1>4. ASSUME NEW c \in B \ R, c.free
      PROVE  /\ u \in N /\ u.size > 0 => End(c) # u.addr /\ End(u) # c.addr
             /\ w \in N /\ w.size > 0 => End(c) # w.addr /\ End(w) # c.addr
  <2>1. /\ c.addr \in Nat /\ End(c) \in Nat /\ Holds(c, c.addr)
        /\ End(c) - 1 \in Nat /\ Holds(c, End(c) - 1)
        BY <1>0, BlockBounds DEF Holds
  <2>2. c.addr # s /\ End(c) # s + n
        BY <2>1, <1>0, <1>3
  <2>3. u.size > 0 => End(c) # p
        BY <1>0, <1>1, <1>4 DEF Separated
  <2>4. w.size > 0 => c.addr # q
        BY <1>0, <1>1, <1>4 DEF Separated
  <2> QED BY <1>0, <1>1, <2>2, <2>3, <2>4
<1>5. SUFFICES ASSUME NEW b \in (B \ R) \cup N, NEW c \in (B \ R) \cup N, b.free, c.free,
                      End(b) = c.addr
               PROVE  FALSE
      BY <1>0 DEF Separated
<1>6. CASE b \in B \ R /\ c \in B \ R
      BY <1>5, <1>0, <1>6 DEF Separated
<1>7. CASE b \in B \ R /\ c \in N
      BY <1>2, <1>4, <1>5, <1>7
<1>8. CASE b \in N /\ c \in B \ R
      BY <1>2, <1>4, <1>5, <1>8
<1>9. CASE b \in N /\ c \in N
  <2>1. b \in {u, w} /\ c \in {u, w} /\ b.size > 0 /\ c.size > 0
        BY <1>2, <1>5, <1>9
  <2> QED BY <1>0, <1>1, <1>5, <2>1
<1> QED BY <1>5, <1>6, <1>7, <1>8, <1>9

-----------------------------------------------------------------------------
\* The three ways the heap is cut: an allocation from a free block, ...
CarvedFrom(B, b, s, n) == (B \ {b}) \cup Carved(b, s, n)

LEMMA CarvedTiles ==
    ASSUME NEW B, NEW lo \in Nat, NEW hi \in Nat, Tiles(B, lo, hi), NEW b \in B, b.free,
           NEW s \in Nat, NEW n \in Nat, n > 0, b.addr <= s, s + n <= End(b)
    PROVE  /\ Tiles(CarvedFrom(B, b, s, n), lo, hi)
           /\ Separated(B) => Separated(CarvedFrom(B, b, s, n))
           /\ Allocated(CarvedFrom(B, b, s, n)) = Allocated(B) \cup {Taken(s, n)}
           /\ lo <= s /\ s + n <= hi
           /\ \A c \in Allocated(B) : c.addr # s
<1> DEFINE R == {b}
           C == CarvedFrom(B, b, s, n)
<1>1. b.addr \in Nat /\ End(b) \in Nat /\ lo <= b.addr /\ End(b) <= hi
      BY BlockBounds
<1>2. \A x \in Nat : (\E r \in R : Holds(r, x)) <=> b.addr <= x /\ x < End(b)
      BY DEF Holds
<1>3. Carved(b, s, n) = Pieces(b.addr, s, n, End(b))
      BY DEF Carved, Pieces
<1>4. \A c \in Allocated(B) : c.addr # s
  <2>1. SUFFICES ASSUME NEW c \in Allocated(B), c.addr = s PROVE FALSE
        OBVIOUS
  <2>2. c \in B /\ ~c.free
        BY DEF Allocated
  <2>3. Holds(c, s) /\ Holds(b, s)
        BY <1>1, <2>1, <2>2, BlockBounds DEF Holds
  <2> QED BY <2>2, <2>3 DEF Tiles
<1>5. Allocated(B) \ R = Allocated(B)
      BY DEF Allocated
<1>6. R \subseteq B /\ (\E r \in R : r.free /\ r.addr = b.addr)
      /\ \E r \in R : r.free /\ End(r) = End(b)
      OBVIOUS
<1>0. Recut(B, R, b.addr, s, n, End(b), C)
      BY <1>1, <1>2, <1>3, <1>6 DEF Recut, CarvedFrom
<1> HIDE DEF R, C
<1>7. Tiles(C, lo, hi)
      BY <1>0, <1>1, RecutTiles
<1>9. Exchanged(B, R, s, n, C)
      BY <1>0, <1>1, RecutTiles
<1>8. Separated(B) => Separated(C)
      BY <1>0, <1>1, <1>6, RecutSeparated
<1>10. lo <= s /\ s + n <= hi
      BY <1>1
<1> QED BY <1>4, <1>5, <1>7, <1>9, <1>8, <1>10 DEF C, Exchanged

\* ... a block that shrinks, ...
Shrunk(B, a, z, n) == (B \ {Taken(a, z)}) \cup TwoPieces(a, n, z - n)

LEMMA ShrinkTiles ==
    ASSUME NEW B, NEW lo \in Nat, NEW hi \in Nat, Tiles(B, lo, hi),
           NEW a \in Nat, NEW z \in Nat, Taken(a, z) \in B, NEW n \in Nat, n > 0, n <= z
    PROVE  /\ Tiles(Coalesced(Shrunk(B, a, z, n)), lo, hi)
           /\ Separated(Coalesced(Shrunk(B, a, z, n)))
           /\ Allocated(Coalesced(Shrunk(B, a, z, n))) =
                  (Allocated(B) \ {Taken(a, z)}) \cup {Taken(a, n)}
<1> DEFINE h == Taken(a, z)
           R == {h}
           N == TwoPieces(a, n, z - n)
           C == Shrunk(B, a, z, n)
<1>1. h.addr = a /\ h.size = z /\ End(h) = a + z
      BY DEF Taken, Block, End
<1>2. h \in B /\ a \in Nat /\ z \in Nat /\ a + z \in Nat
      BY <1>1, BlockBounds
<1>3. \A x \in Nat : (\E r \in R : Holds(r, x)) <=> a <= x /\ x < a + z
      BY <1>1 DEF Holds
<1>4. N = Pieces(a, a, n, a + z)
  <2>1. a + z - (a + n) = z - n /\ a + z \in Nat
        BY <1>2
  <2>2. Pieces(a, a, n, a + z) = TwoPieces(a, n, a + z - (a + n))
        BY <2>1, PiecesFromStart
  <2> QED BY <2>1, <2>2
<1>5. R \subseteq B
      BY <1>2
<1>0. C = (B \ R) \cup N
      BY DEF Shrunk
<1> HIDE DEF h, R, N, C
<1>8. Recut(B, R, a, a, n, a + z, C)
  <2>1. a <= a /\ a + n <= a + z
        BY <1>2
  <2> QED BY <1>0, <1>2, <1>3, <1>4, <1>5, <2>1 DEF Recut
<1>6. Tiles(C, lo, hi)
      BY <1>2, <1>8, RecutTiles
<1>9. Exchanged(B, R, a, n, C)
      BY <1>2, <1>8, RecutTiles
<1>7. /\ Tiles(Coalesced(C), lo, hi) /\ Separated(Coalesced(C))
      /\ Allocated(Coalesced(C)) = (Allocated(B) \ R) \cup {Taken(a, n)}
      BY <1>6, <1>9, CoalescedTiles DEF Exchanged
<1> QED BY <1>7 DEF h, R, C

\* ... and one that grows into the free block behind it.
Grown(B, a, z, f, n) == (B \ {Taken(a, z), f}) \cup TwoPieces(a, n, End(f) - (a + n))

LEMMA GrowTiles ==
    ASSUME NEW B, NEW lo \in Nat, NEW hi \in Nat, Tiles(B, lo, hi),
           NEW a \in Nat, NEW z \in Nat, Taken(a, z) \in B,
           NEW f \in B, f.free, f.addr = a + z, NEW n \in Nat, z < n, n <= z + f.size
    PROVE  /\ Tiles(Grown(B, a, z, f, n), lo, hi)
           /\ Separated(B) => Separated(Grown(B, a, z, f, n))
           /\ Allocated(Grown(B, a, z, f, n)) = (Allocated(B) \ {Taken(a, z)}) \cup {Taken(a, n)}
           /\ a + n <= hi
<1> DEFINE h == Taken(a, z)
           R == {h, f}
           q == End(f)
           N == TwoPieces(a, n, q - (a + n))
           C == Grown(B, a, z, f, n)
<1>1. h.addr = a /\ h.size = z /\ End(h) = a + z /\ ~h.free
      BY DEF Taken, Block, End
<1>2. /\ h \in B /\ a \in Nat /\ z \in Nat /\ n > 0
      /\ f.addr \in Nat /\ q \in Nat /\ f.size \in Nat /\ q = f.addr + f.size /\ q <= hi
  <2>1. h.addr \in Nat /\ h.size \in Nat
        BY BlockBounds
  <2>2. f.addr \in Nat /\ q \in Nat /\ f.size \in Nat /\ q <= hi
        BY BlockBounds
  <2>3. q = f.addr + f.size
        BY DEF End
  <2>4. h \in B
        OBVIOUS
  <2>5. a \in Nat /\ z \in Nat
        BY <1>1, <2>1
  <2>6. n > 0
        BY <2>5
  <2> QED BY <2>2, <2>3, <2>4, <2>5, <2>6
<1>3. a <= a /\ a + n <= q
      BY <1>2
<1>4. ASSUME NEW x \in Nat PROVE (\E r \in R : Holds(r, x)) <=> a <= x /\ x < q
  <2>1. Holds(h, x) <=> a <= x /\ x < a + z
        BY <1>1 DEF Holds
  <2>2. Holds(f, x) <=> a + z <= x /\ x < q
        BY DEF Holds
  <2>3. (\E r \in R : Holds(r, x)) <=> Holds(h, x) \/ Holds(f, x)
        OBVIOUS
  <2>4. a + z <= q
        BY <1>2
  <2> HIDE DEF h, R, q
  <2> QED BY <1>2, <2>1, <2>2, <2>3, <2>4
<1>5. N = Pieces(a, a, n, q)
      BY <1>2, PiecesFromStart
<1>6. /\ R \subseteq B /\ (\E r \in R : r.free /\ End(r) = q)
      /\ Allocated(B) \ R = Allocated(B) \ {h}
      BY <1>2 DEF Allocated
<1>7. C = (B \ R) \cup Pieces(a, a, n, q)
      BY <1>5 DEF Grown
<1> HIDE DEF h, R, N, q, C
<1>11. Recut(B, R, a, a, n, q, C)
      BY <1>2, <1>3, <1>4, <1>6, <1>7 DEF Recut
<1>8. Tiles(C, lo, hi)
      BY <1>2, <1>11, RecutTiles
<1>12. Exchanged(B, R, a, n, C)
      BY <1>2, <1>11, RecutTiles
<1>9. Separated(B) => Separated(C)
      BY <1>2, <1>11, <1>6, RecutSeparated
<1>10. a + n <= hi
       BY <1>2, <1>3
<1> QED BY <1>6, <1>8, <1>9, <1>10, <1>12 DEF h, C, Exchanged

-----------------------------------------------------------------------------
(***************************************************************************)
(* Who holds what: the users by H, the threads by T.                       *)
(***************************************************************************)
UserMap == [Users -> [addr : Nat, size : Nat]]
ThreadMap == [Threads -> [status : {"Absent", "Dormant", "Live"}, stack : Nat, owns : BOOLEAN]]

UserBlock(H, u) == Taken(H[u].addr, H[u].size)
StackBlock(T, t) == Taken(T[t].stack, StackSize)

Holders(H) == {u \in Users : H[u] # Nothing}
Owners(T) == {t \in Threads : T[t].owns}

\* The blocks A are those of the users and of the threads, each of one of them.
Owned(A, H, T) ==
    /\ A = {UserBlock(H, u) : u \in Holders(H)} \cup {StackBlock(T, t) : t \in Owners(T)}
    /\ \A u \in Holders(H) : H[u].addr # 0 /\ H[u].size > 0
    /\ \A t \in Owners(T) : T[t].stack # 0
    /\ \A u, v \in Holders(H) : H[u].addr = H[v].addr => u = v
    /\ \A t, v \in Owners(T) : T[t].stack = T[v].stack => t = v
    /\ \A u \in Holders(H), t \in Owners(T) : H[u].addr # T[t].stack

\* A user that holds nothing is given a block.
LEMMA UserGets ==
    ASSUME NEW H \in UserMap, NEW T \in ThreadMap, NEW A, Owned(A, H, T),
           NEW u \in Users, u \notin Holders(H),
           NEW s \in Nat, NEW n \in Nat, s > 0, n > 0, \A c \in A : c.addr # s
    PROVE  Owned(A \cup {Taken(s, n)}, [H EXCEPT ![u] = [addr |-> s, size |-> n]], T)
<1> DEFINE G == [H EXCEPT ![u] = [addr |-> s, size |-> n]]
<1>1. G[u].addr = s /\ G[u].size = n /\ G[u] # Nothing /\ \A v \in Users \ {u} : G[v] = H[v]
      BY DEF UserMap, Nothing
<1>2. \A v \in Holders(H) : H[v].addr # s
  <2>1. ASSUME NEW v \in Holders(H) PROVE UserBlock(H, v) \in A /\ UserBlock(H, v).addr = H[v].addr
        BY DEF Owned, UserBlock, Taken, Block
  <2> QED BY <2>1
<1>3. \A t \in Owners(T) : T[t].stack # s
  <2>1. ASSUME NEW t \in Owners(T)
        PROVE  StackBlock(T, t) \in A /\ StackBlock(T, t).addr = T[t].stack
        BY DEF Owned, StackBlock, Taken, Block
  <2> QED BY <2>1
<1> HIDE DEF G
<1>4. Holders(G) = Holders(H) \cup {u}
      BY <1>1 DEF Holders
<1>5. UserBlock(G, u) = Taken(s, n) /\ \A v \in Holders(H) : UserBlock(G, v) = UserBlock(H, v)
      BY <1>1 DEF UserBlock, Holders
<1>6. {UserBlock(G, v) : v \in Holders(G)} =
          {UserBlock(H, v) : v \in Holders(H)} \cup {Taken(s, n)}
      BY <1>4, <1>5
<1>7. \A v \in Holders(H) : v # u /\ G[v] = H[v]
      BY <1>1 DEF Holders
<1>8. A \cup {Taken(s, n)} =
          {UserBlock(G, v) : v \in Holders(G)} \cup {StackBlock(T, t) : t \in Owners(T)}
      BY <1>6 DEF Owned
<1>9. /\ \A v \in Holders(G) : G[v].addr # 0 /\ G[v].size > 0
      /\ \A v, w \in Holders(G) : G[v].addr = G[w].addr => v = w
      /\ \A v \in Holders(G), t \in Owners(T) : G[v].addr # T[t].stack
      BY <1>1, <1>2, <1>3, <1>4, <1>7 DEF Owned
<1> QED BY <1>8, <1>9 DEF Owned, G

\* A user gives its block back.
LEMMA UserLoses ==
    ASSUME NEW H \in UserMap, NEW T \in ThreadMap, NEW A, Owned(A, H, T),
           NEW u \in Holders(H)
    PROVE  Owned(A \ {UserBlock(H, u)}, [H EXCEPT ![u] = Nothing], T)
<1> DEFINE G == [H EXCEPT ![u] = Nothing]
<1>1. u \in Users /\ G[u] = Nothing /\ \A v \in Users \ {u} : G[v] = H[v]
      BY DEF UserMap, Holders
<1> HIDE DEF G
<1>2. Holders(G) = Holders(H) \ {u}
      BY <1>1 DEF Holders
<1>3. \A v \in Holders(G) : v # u /\ v \in Holders(H) /\ G[v] = H[v] /\ UserBlock(G, v) = UserBlock(H, v)
      BY <1>1, <1>2 DEF Holders, UserBlock
<1>4. \A v \in Holders(H) : UserBlock(H, v).addr = H[v].addr
      BY DEF UserBlock, Taken, Block
<1>5. \A t \in Owners(T) : StackBlock(T, t).addr = T[t].stack
      BY DEF StackBlock, Taken, Block
<1>6. \A v \in Holders(G) : UserBlock(H, v) # UserBlock(H, u)
      BY <1>3, <1>4 DEF Owned
<1>7. \A t \in Owners(T) : StackBlock(T, t) # UserBlock(H, u)
      BY <1>4, <1>5 DEF Owned
<1>8. A \ {UserBlock(H, u)} =
          {UserBlock(G, v) : v \in Holders(G)} \cup {StackBlock(T, t) : t \in Owners(T)}
  <2>1. {UserBlock(G, v) : v \in Holders(G)} =
            {UserBlock(H, v) : v \in Holders(H)} \ {UserBlock(H, u)}
        BY <1>2, <1>3, <1>6
  <2> QED BY <1>7, <2>1 DEF Owned
<1>9. /\ \A v \in Holders(G) : G[v].addr # 0 /\ G[v].size > 0
      /\ \A v, w \in Holders(G) : G[v].addr = G[w].addr => v = w
      /\ \A v \in Holders(G), t \in Owners(T) : G[v].addr # T[t].stack
      BY <1>3 DEF Owned
<1> QED BY <1>8, <1>9 DEF Owned, G

\* A thread that owns no stack is given one.
LEMMA ThreadGets ==
    ASSUME NEW H \in UserMap, NEW T \in ThreadMap, NEW A, Owned(A, H, T),
           NEW t \in Threads, ~T[t].owns, NEW U \in ThreadMap,
           \A v \in Threads \ {t} : U[v] = T[v],
           U[t].owns, U[t].stack > 0, \A c \in A : c.addr # U[t].stack
    PROVE  Owned(A \cup {StackBlock(U, t)}, H, U)
<1>1. Owners(U) = Owners(T) \cup {t} /\ \A v \in Owners(T) : v # t /\ U[v] = T[v]
      BY DEF Owners
<1>2. \A v \in Holders(H) : H[v].addr # U[t].stack
  <2>1. ASSUME NEW v \in Holders(H) PROVE UserBlock(H, v) \in A /\ UserBlock(H, v).addr = H[v].addr
        BY DEF Owned, UserBlock, Taken, Block
  <2> QED BY <2>1
<1>3. \A v \in Owners(T) : T[v].stack # U[t].stack
  <2>1. ASSUME NEW v \in Owners(T)
        PROVE  StackBlock(T, v) \in A /\ StackBlock(T, v).addr = T[v].stack
        BY DEF Owned, StackBlock, Taken, Block
  <2> QED BY <2>1
<1>4. \A v \in Owners(T) : StackBlock(U, v) = StackBlock(T, v)
      BY <1>1 DEF StackBlock
<1>5. A \cup {StackBlock(U, t)} =
          {UserBlock(H, v) : v \in Holders(H)} \cup {StackBlock(U, v) : v \in Owners(U)}
  <2>1. {StackBlock(U, v) : v \in Owners(U)} =
            {StackBlock(T, v) : v \in Owners(T)} \cup {StackBlock(U, t)}
        BY <1>1, <1>4
  <2> QED BY <2>1 DEF Owned
<1>6. /\ \A v \in Owners(U) : U[v].stack # 0
      /\ \A v, w \in Owners(U) : U[v].stack = U[w].stack => v = w
      /\ \A v \in Holders(H), w \in Owners(U) : H[v].addr # U[w].stack
      BY <1>1, <1>2, <1>3 DEF Owned
<1> QED BY <1>5, <1>6 DEF Owned

\* A thread gives its stack back.
LEMMA ThreadLoses ==
    ASSUME NEW H \in UserMap, NEW T \in ThreadMap, NEW A, Owned(A, H, T),
           NEW t \in Threads, T[t].owns, NEW U \in ThreadMap,
           \A v \in Threads \ {t} : U[v] = T[v], ~U[t].owns
    PROVE  Owned(A \ {StackBlock(T, t)}, H, U)
<1>1. Owners(U) = Owners(T) \ {t} /\ \A v \in Owners(U) : v # t /\ U[v] = T[v]
      BY DEF Owners
<1>2. \A v \in Holders(H) : UserBlock(H, v).addr = H[v].addr
      BY DEF UserBlock, Taken, Block
<1>3. \A v \in Owners(T) : StackBlock(T, v).addr = T[v].stack
      BY DEF StackBlock, Taken, Block
<1>4. t \in Owners(T)
      BY DEF Owners
<1>5. /\ \A v \in Holders(H) : UserBlock(H, v) # StackBlock(T, t)
      /\ \A v \in Owners(U) : StackBlock(T, v) # StackBlock(T, t)
      BY <1>1, <1>2, <1>3, <1>4 DEF Owned
<1>6. \A v \in Owners(U) : StackBlock(U, v) = StackBlock(T, v)
      BY <1>1 DEF StackBlock
<1>7. A \ {StackBlock(T, t)} =
          {UserBlock(H, v) : v \in Holders(H)} \cup {StackBlock(U, v) : v \in Owners(U)}
  <2>1. {StackBlock(U, v) : v \in Owners(U)} =
            {StackBlock(T, v) : v \in Owners(T)} \ {StackBlock(T, t)}
        BY <1>1, <1>5, <1>6
  <2> QED BY <1>5, <2>1 DEF Owned
<1>8. /\ \A v \in Owners(U) : U[v].stack # 0
      /\ \A v, w \in Owners(U) : U[v].stack = U[w].stack => v = w
      /\ \A v \in Holders(H), w \in Owners(U) : H[v].addr # U[w].stack
      BY <1>1 DEF Owned
<1> QED BY <1>7, <1>8 DEF Owned

\* What else changes in the record of a thread is of no matter here.
LEMMA ThreadKeeps ==
    ASSUME NEW H \in UserMap, NEW T \in ThreadMap, NEW A, Owned(A, H, T), NEW U \in ThreadMap,
           \A t \in Threads : U[t].owns = T[t].owns /\ (U[t].owns => U[t].stack = T[t].stack)
    PROVE  Owned(A, H, U)
<1>1. Owners(U) = Owners(T) /\ \A t \in Owners(T) : U[t].stack = T[t].stack
      BY DEF Owners
<1>2. \A t \in Owners(T) : StackBlock(U, t) = StackBlock(T, t)
      BY <1>1 DEF StackBlock
<1>3. {StackBlock(U, t) : t \in Owners(U)} = {StackBlock(T, t) : t \in Owners(T)}
      BY <1>1, <1>2
<1> QED BY <1>1, <1>3 DEF Owned

-----------------------------------------------------------------------------
(***************************************************************************)
(* What the granules contain.                                              *)
(***************************************************************************)
Memory == [0 .. HardLimit -> (Users \X (0 .. HardLimit)) \cup {Zero}]

\* The granules of user u contain what it wrote to them.
Intact(m, H, u) == \A k \in 0 .. H[u].size - 1 : m[H[u].addr + k] = Mark(u, k)

\* The granules of a user's block are the heap's, and no other user's.
LEMMA HoldersApart ==
    ASSUME NEW H \in UserMap, NEW T \in ThreadMap, NEW B, NEW lo \in Nat, NEW hi \in Nat,
           Tiles(B, lo, hi), Owned(Allocated(B), H, T),
           NEW u \in Users, NEW j \in 0 .. H[u].size - 1
    PROVE  /\ H[u].addr + j \in Nat /\ H[u].addr + j < hi
           /\ UserBlock(H, u) \in Allocated(B) /\ Holds(UserBlock(H, u), H[u].addr + j)
           /\ \A v \in Users : \A k \in 0 .. H[v].size - 1 :
                  H[v].addr + k = H[u].addr + j => v = u
<1>1. ASSUME NEW v \in Users, NEW k \in 0 .. H[v].size - 1
      PROVE  /\ UserBlock(H, v) \in Allocated(B) /\ UserBlock(H, v) \in B
             /\ v \in Holders(H) /\ UserBlock(H, v).addr = H[v].addr
             /\ H[v].addr + k \in Nat /\ Holds(UserBlock(H, v), H[v].addr + k)
  <2>1. H[v].addr \in Nat /\ H[v].size \in Nat /\ H[v].size # 0
        BY DEF UserMap
  <2>2. v \in Holders(H)
        BY <2>1 DEF Holders, Nothing
  <2>3. UserBlock(H, v) \in Allocated(B)
        BY <2>2 DEF Owned
  <2>4. UserBlock(H, v).addr = H[v].addr /\ End(UserBlock(H, v)) = H[v].addr + H[v].size
        BY DEF UserBlock, Taken, Block, End
  <2>5. H[v].addr + k \in Nat /\ Holds(UserBlock(H, v), H[v].addr + k)
        BY <2>1, <2>4 DEF Holds
  <2>6. UserBlock(H, v) \in B
        BY <2>3 DEF Allocated
  <2> QED BY <2>2, <2>3, <2>4, <2>5, <2>6
<1>2. H[u].addr + j < hi
      BY <1>1 DEF Tiles
<1>3. ASSUME NEW v \in Users, NEW k \in 0 .. H[v].size - 1, H[v].addr + k = H[u].addr + j
      PROVE  v = u
  <2> DEFINE x == H[u].addr + j
  <2>1. x \in Nat /\ Holds(UserBlock(H, u), x) /\ Holds(UserBlock(H, v), x)
        /\ UserBlock(H, u) \in B /\ UserBlock(H, v) \in B
        BY <1>1, <1>3
  <2> HIDE DEF x
  <2>2. UserBlock(H, v) = UserBlock(H, u)
        BY <2>1 DEF Tiles
  <2>3. H[v].addr = H[u].addr /\ v \in Holders(H) /\ u \in Holders(H)
        BY <1>1, <2>2
  <2> QED BY <2>3 DEF Owned
<1> QED BY <1>1, <1>2, <1>3

\* Forgetting what free memory contains does no harm.
LEMMA KeptIntact ==
    ASSUME NEW H \in UserMap, NEW T \in ThreadMap, NEW B, NEW lo \in Nat, NEW hi \in Nat,
           Tiles(B, lo, hi), hi <= HardLimit, Owned(Allocated(B), H, T),
           NEW m \in Memory, NEW u \in Users, Intact(m, H, u)
    PROVE  Intact(Kept(m, B), H, u)
<1>1. SUFFICES ASSUME NEW k \in 0 .. H[u].size - 1
               PROVE  Kept(m, B)[H[u].addr + k] = Mark(u, k)
      BY DEF Intact
<1> DEFINE x == H[u].addr + k
           b == UserBlock(H, u)
<1>2. x \in Nat /\ x < hi /\ b \in Allocated(B) /\ Holds(b, x)
      BY HoldersApart
<1>3. m[x] = Mark(u, k)
      BY DEF Intact
<1> HIDE DEF x, b
<1>4. HardLimit \in Nat /\ DOMAIN m = 0 .. HardLimit
      BY HeapAssumption DEF Memory
<1>5. x \in DOMAIN m
      BY <1>2, <1>4
<1>6. b \in B /\ ~b.free /\ b.addr <= x /\ x < End(b)
      BY <1>2 DEF Allocated, Holds
<1>7. Kept(m, B)[x] = m[x]
      BY <1>5, <1>6 DEF Kept
<1> QED BY <1>3, <1>7 DEF x

\* A user that fills its block from the j-th granule on, the first j being in
\* place, leaves all the others' alone.
LEMMA WrittenIntact ==
    ASSUME NEW H \in UserMap, NEW T \in ThreadMap, NEW B, NEW lo \in Nat, NEW hi \in Nat,
           Tiles(B, lo, hi), hi <= HardLimit, Owned(Allocated(B), H, T),
           NEW m \in Memory, NEW u \in Users, NEW s \in Nat, NEW n \in Nat, NEW j \in Nat,
           H[u].addr = s, H[u].size = n,
           \A k \in 0 .. j - 1 : k < n => m[s + k] = Mark(u, k),
           \A v \in Users \ {u} : Intact(m, H, v)
    PROVE  \A v \in Users : Intact(Written(m, u, s, j, n), H, v)
<1>1. SUFFICES ASSUME NEW v \in Users, NEW k \in 0 .. H[v].size - 1
               PROVE  Written(m, u, s, j, n)[H[v].addr + k] = Mark(v, k)
      BY DEF Intact
<1> DEFINE x == H[v].addr + k
<1>2. x \in Nat /\ x < hi
      BY HoldersApart
<1>3. HardLimit \in Nat /\ DOMAIN m = 0 .. HardLimit
      BY HeapAssumption DEF Memory
<1>4. x \in DOMAIN m
      BY <1>2, <1>3
<1>5. Written(m, u, s, j, n)[x] = IF x \in s + j .. s + n - 1 THEN Mark(u, x - s) ELSE m[x]
      BY <1>4 DEF Written
<1>6. CASE v = u
  <2>1. x = s + k /\ k \in 0 .. n - 1 /\ x - s = k
        BY <1>6
  <2>2. CASE k < j
    <3>1. ~(x \in s + j .. s + n - 1) /\ k \in 0 .. j - 1 /\ k < n
          BY <2>1, <2>2
    <3>2. m[x] = Mark(u, k)
          BY <2>1, <3>1
    <3> QED BY <1>5, <1>6, <3>1, <3>2
  <2>3. CASE j <= k
    <3>1. x \in s + j .. s + n - 1
          BY <2>1, <2>3
    <3>2. Mark(u, x - s) = Mark(u, k)
          BY <2>1
    <3> QED BY <1>5, <1>6, <3>1, <3>2
  <2> QED BY <2>1, <2>2, <2>3
<1>7. CASE v # u
  <2>1. ~(x \in s + j .. s + n - 1)
    <3>1. SUFFICES ASSUME x \in s + j .. s + n - 1 PROVE FALSE
          OBVIOUS
    <3>2. x - s \in 0 .. H[u].size - 1 /\ H[u].addr + (x - s) = x
          BY <1>2, <3>1
    <3> QED BY <1>7, <3>2, HoldersApart
  <2>2. m[x] = Mark(v, k)
        BY <1>7 DEF Intact
  <2> QED BY <1>5, <2>1, <2>2
<1> QED BY <1>6, <1>7

-----------------------------------------------------------------------------
(***************************************************************************)
(* The heap as a whole: its area a and its blocks B.                       *)
(***************************************************************************)
AreaType == [base : 0 .. HardLimit, limit : 0 .. HardLimit, end : 0 .. HardLimit,
             suggested : 1 .. HardLimit]

Sound(a, B) ==
    /\ a \in AreaType
    /\ Tiles(B, a.base, a.limit) /\ Separated(B)
    /\ B # {} => a.base > 0
    /\ \A b \in Allocated(B) : End(b) <= a.end

\* The area of a heap whose highest allocated granule may now be x - 1.
Raised(a, x) == [a EXCEPT !.end = Higher(@, x)]

LEMMA AreaFacts ==
    ASSUME NEW a \in AreaType
    PROVE  /\ HardLimit \in Nat /\ a.base \in Nat /\ a.limit \in Nat /\ a.limit <= HardLimit
           /\ a.end \in Nat /\ a.end <= HardLimit /\ a.suggested \in 1 .. HardLimit
           /\ a.base <= HardLimit
<1>1. HardLimit \in Nat
      BY HeapAssumption
<1> QED BY <1>1 DEF AreaType

LEMMA RaisedFacts ==
    ASSUME NEW a \in AreaType, NEW x \in 0 .. HardLimit
    PROVE  /\ Raised(a, x) \in AreaType
           /\ Raised(a, x).base = a.base /\ Raised(a, x).limit = a.limit
           /\ Raised(a, x).end >= a.end /\ Raised(a, x).end >= x
<1>1. HardLimit \in Nat
      BY HeapAssumption
<1>2. a.end \in 0 .. HardLimit /\ Higher(a.end, x) \in 0 .. HardLimit
      /\ Higher(a.end, x) >= a.end /\ Higher(a.end, x) >= x
      BY <1>1 DEF AreaType, Higher
<1> QED BY <1>1, <1>2 DEF AreaType, Raised

\* A heap that has been set up is one free block, or empty.
LEMMA ResetSound ==
    ASSUME area.suggested \in 1 .. HardLimit,
           NEW base \in 0 .. HardLimit, NEW limit \in 0 .. HardLimit + 1
    PROVE  /\ Sound(ResetArea(base, limit), AllFree(ResetArea(base, limit)))
           /\ Allocated(AllFree(ResetArea(base, limit))) = {}
<1> DEFINE a == ResetArea(base, limit)
           f == Block(a.base, a.limit - a.base, TRUE)
<1>1. HardLimit \in Nat
      BY HeapAssumption
<1>2. a \in AreaType /\ (a.base < a.limit => a.base > 0) /\ (a.base < a.limit \/ a.limit = 0)
      BY <1>1 DEF ResetArea, AreaType
<1> HIDE DEF a
<1>3. a.base \in Nat /\ a.limit \in Nat
      BY <1>2, AreaFacts
<1>4. CASE a.base < a.limit
  <2>1. AllFree(a) = {f}
        BY <1>4 DEF AllFree
  <2>2. /\ f \in HeapBlock /\ f.size > 0 /\ f.free /\ f.addr = a.base /\ End(f) = a.limit
        BY <1>3, <1>4 DEF Block, HeapBlock, End
  <2> HIDE DEF f
  <2>3. Tiles({f}, a.base, a.limit)
        BY <2>2 DEF Tiles, Holds
  <2>4. Separated({f})
        BY <1>4, <2>2, <1>3 DEF Separated
  <2>5. Allocated({f}) = {}
        BY <2>2 DEF Allocated
  <2> QED BY <1>2, <1>4, <2>1, <2>3, <2>4, <2>5 DEF Sound, a
<1>5. CASE ~(a.base < a.limit)
  <2>1. AllFree(a) = {} /\ a.limit = 0
        BY <1>2, <1>5 DEF AllFree
  <2>2. Tiles({}, a.base, a.limit)
        BY <1>3, <2>1 DEF Tiles
  <2>3. Separated({}) /\ Allocated({}) = {}
        BY DEF Separated, Allocated
  <2> QED BY <1>2, <2>1, <2>2, <2>3 DEF Sound, a
<1> QED BY <1>4, <1>5

\* An allocation.
LEMMA TakingSound ==
    ASSUME NEW a, NEW B, Sound(a, B), NEW b \in B, b.free,
           NEW s \in Nat, NEW n \in Nat, n > 0, b.addr <= s, s + n <= End(b)
    PROVE  /\ Sound(Raised(a, s + n), CarvedFrom(B, b, s, n))
           /\ Allocated(CarvedFrom(B, b, s, n)) = Allocated(B) \cup {Taken(s, n)}
           /\ s > 0 /\ s + n <= HardLimit
           /\ \A c \in Allocated(B) : c.addr # s
<1>1. /\ a \in AreaType /\ Tiles(B, a.base, a.limit) /\ Separated(B) /\ a.base > 0
      /\ \A c \in Allocated(B) : End(c) <= a.end
      BY DEF Sound
<1>2. /\ a.base \in Nat /\ a.limit \in Nat /\ a.limit <= HardLimit /\ HardLimit \in Nat
      /\ a.end \in Nat
      BY <1>1, AreaFacts
<1> DEFINE C == CarvedFrom(B, b, s, n)
<1>3. /\ Tiles(C, a.base, a.limit) /\ Separated(C)
      /\ Allocated(C) = Allocated(B) \cup {Taken(s, n)}
      /\ a.base <= s /\ s + n <= a.limit
      /\ \A c \in Allocated(B) : c.addr # s
  <2>1. Tiles(C, a.base, a.limit) /\ Separated(C)
        BY <1>1, <1>2, CarvedTiles
  <2>2. Allocated(C) = Allocated(B) \cup {Taken(s, n)}
        BY <1>1, <1>2, CarvedTiles
  <2>3. a.base <= s /\ s + n <= a.limit
        BY <1>1, <1>2, CarvedTiles
  <2>4. \A c \in Allocated(B) : c.addr # s
        BY <1>1, <1>2, CarvedTiles
  <2> QED BY <2>1, <2>2, <2>3, <2>4
<1> HIDE DEF C
<1>4. s + n \in 0 .. HardLimit
      BY <1>2, <1>3
<1>5. /\ Raised(a, s + n) \in AreaType
      /\ Raised(a, s + n).base = a.base /\ Raised(a, s + n).limit = a.limit
      /\ Raised(a, s + n).end >= a.end /\ Raised(a, s + n).end >= s + n
      /\ Raised(a, s + n).end \in Nat
      BY <1>1, <1>4, RaisedFacts, AreaFacts
<1>6. \A c \in Allocated(C) : End(c) <= Raised(a, s + n).end
  <2>1. End(Taken(s, n)) = s + n
        BY DEF End, Taken, Block
  <2>2. \A c \in Allocated(B) : End(c) \in Nat
        BY <1>1, <1>2, BlockBounds DEF Allocated
  <2> QED BY <1>1, <1>2, <1>3, <1>5, <2>1, <2>2
<1>7. Sound(Raised(a, s + n), C)
      BY <1>1, <1>3, <1>5, <1>6 DEF Sound
<1> QED BY <1>1, <1>2, <1>3, <1>4, <1>7 DEF C

\* A block given back.
LEMMA FreeingSound ==
    ASSUME NEW a, NEW B, Sound(a, B), NEW b \in Allocated(B)
    PROVE  /\ Sound(a, FreeAt(B, b.addr))
           /\ Allocated(FreeAt(B, b.addr)) = Allocated(B) \ {b}
<1>1. /\ a \in AreaType /\ Tiles(B, a.base, a.limit) /\ (B # {} => a.base > 0)
      /\ \A c \in Allocated(B) : End(c) <= a.end
      BY DEF Sound
<1>2. a.base \in Nat /\ a.limit \in Nat
      BY <1>1, AreaFacts
<1>3. b \in B /\ ~b.free
      BY DEF Allocated
<1> DEFINE C == FreeAt(B, b.addr)
<1>4. /\ Tiles(C, a.base, a.limit) /\ Separated(C) /\ Allocated(C) = Allocated(B) \ {b}
      BY <1>1, <1>2, <1>3, FreeAtTiles
<1> HIDE DEF C
<1>5. Sound(a, C)
      BY <1>1, <1>3, <1>4 DEF Sound
<1> QED BY <1>4, <1>5 DEF C

\* A block that shrinks.
LEMMA ShrinkingSound ==
    ASSUME NEW a, NEW B, Sound(a, B), NEW s \in Nat, NEW z \in Nat, Taken(s, z) \in Allocated(B),
           NEW n \in Nat, n > 0, n <= z
    PROVE  /\ Sound(a, Coalesced(Shrunk(B, s, z, n)))
           /\ Allocated(Coalesced(Shrunk(B, s, z, n))) =
                  (Allocated(B) \ {Taken(s, z)}) \cup {Taken(s, n)}
<1>1. /\ a \in AreaType /\ Tiles(B, a.base, a.limit) /\ (B # {} => a.base > 0)
      /\ \A c \in Allocated(B) : End(c) <= a.end
      BY DEF Sound
<1>2. a.base \in Nat /\ a.limit \in Nat /\ a.end \in Nat
      BY <1>1, AreaFacts
<1>3. Taken(s, z) \in B
      BY DEF Allocated
<1> DEFINE C == Coalesced(Shrunk(B, s, z, n))
<1>4. /\ Tiles(C, a.base, a.limit) /\ Separated(C)
      /\ Allocated(C) = (Allocated(B) \ {Taken(s, z)}) \cup {Taken(s, n)}
      BY <1>1, <1>2, <1>3, ShrinkTiles
<1> HIDE DEF C
<1>5. End(Taken(s, n)) = s + n /\ End(Taken(s, z)) = s + z
      BY DEF End, Taken, Block
<1>6. s + z <= a.end
      BY <1>1, <1>5
<1>7. End(Taken(s, n)) <= a.end
      BY <1>2, <1>5, <1>6
<1>8. \A c \in Allocated(C) : End(c) <= a.end
      BY <1>1, <1>4, <1>7
<1>9. Sound(a, C)
      BY <1>1, <1>3, <1>4, <1>8 DEF Sound
<1> QED BY <1>4, <1>9 DEF C

\* A block that grows into the one behind it.
LEMMA GrowingSound ==
    ASSUME NEW a, NEW B, Sound(a, B), NEW s \in Nat, NEW z \in Nat, Taken(s, z) \in Allocated(B),
           NEW f \in B, f.free, f.addr = s + z, NEW n \in Nat, z < n, n <= z + f.size
    PROVE  /\ Sound(Raised(a, s + n), Grown(B, s, z, f, n))
           /\ Allocated(Grown(B, s, z, f, n)) =
                  (Allocated(B) \ {Taken(s, z)}) \cup {Taken(s, n)}
           /\ s + n <= HardLimit
<1>1. /\ a \in AreaType /\ Tiles(B, a.base, a.limit) /\ Separated(B) /\ a.base > 0
      /\ \A c \in Allocated(B) : End(c) <= a.end
      BY DEF Sound
<1>2. /\ a.base \in Nat /\ a.limit \in Nat /\ a.limit <= HardLimit /\ HardLimit \in Nat
      /\ a.end \in Nat
      BY <1>1, AreaFacts
<1>3. Taken(s, z) \in B
      BY DEF Allocated
<1> DEFINE C == Grown(B, s, z, f, n)
<1>4. /\ Tiles(C, a.base, a.limit) /\ Separated(C)
      /\ Allocated(C) = (Allocated(B) \ {Taken(s, z)}) \cup {Taken(s, n)}
      /\ s + n <= a.limit
      BY <1>1, <1>2, <1>3, GrowTiles
<1> HIDE DEF C
<1>5. s + n \in 0 .. HardLimit
      BY <1>2, <1>4
<1>6. /\ Raised(a, s + n) \in AreaType
      /\ Raised(a, s + n).base = a.base /\ Raised(a, s + n).limit = a.limit
      /\ Raised(a, s + n).end >= a.end /\ Raised(a, s + n).end >= s + n
      /\ Raised(a, s + n).end \in Nat
      BY <1>1, <1>5, RaisedFacts, AreaFacts
<1>7. \A c \in Allocated(C) : End(c) <= Raised(a, s + n).end
  <2>1. End(Taken(s, n)) = s + n
        BY DEF End, Taken, Block
  <2>2. \A c \in Allocated(B) : End(c) \in Nat
        BY <1>1, <1>2, BlockBounds DEF Allocated
  <2> QED BY <1>1, <1>2, <1>4, <1>6, <2>1, <2>2
<1>8. Sound(Raised(a, s + n), C)
      BY <1>1, <1>4, <1>6, <1>7 DEF Sound
<1> QED BY <1>2, <1>4, <1>5, <1>8 DEF C

-----------------------------------------------------------------------------
(***************************************************************************)
(* The inductive invariant, of the heap that the next call finds.          *)
(***************************************************************************)
HeldType == [Users -> [addr : 0 .. HardLimit, size : 0 .. HardLimit]]
ThreadType == [Threads -> [status : {"Absent", "Dormant", "Live"},
                           stack : 0 .. HardLimit, owns : BOOLEAN]]

Types ==
    /\ configured \in BOOLEAN /\ area \in AreaType /\ held \in HeldType /\ mem \in Memory
    /\ thread \in ThreadType /\ terminated \subseteq Threads
    /\ ~configured => blocks = {}

\* A stack that no thread owns is one of a terminated thread.
Stacks(T, X) ==
    \A t \in Threads :
        /\ T[t].status = "Absent" => ~T[t].owns /\ T[t].stack = 0
        /\ T[t].status = "Live" => T[t].stack # 0
        /\ t \notin X /\ T[t].stack # 0 => T[t].owns

IInv ==
    /\ Types
    /\ Sound(Area, Blocks)
    /\ Owned(Allocated(Blocks), held, thread)
    /\ \A u \in Users : Intact(mem, held, u)
    /\ Stacks(thread, terminated)

LEMMA TypeFacts ==
    ASSUME Types
    PROVE  /\ HardLimit \in Nat /\ held \in UserMap /\ thread \in ThreadMap
           /\ area.suggested \in 1 .. HardLimit
<1>1. HardLimit \in Nat
      BY HeapAssumption
<1> QED BY <1>1 DEF Types, HeldType, ThreadType, UserMap, ThreadMap, AreaType

LEMMA MapTypes ==
    /\ \A H \in HeldType : H \in UserMap
    /\ \A T \in ThreadType : T \in ThreadMap
<1>1. HardLimit \in Nat
      BY HeapAssumption
<1> QED BY <1>1 DEF HeldType, ThreadType, UserMap, ThreadMap

LEMMA MemoryStays ==
    ASSUME NEW m \in Memory
    PROVE  /\ \A B : Kept(m, B) \in Memory
           /\ \A u \in Users : \A s, j, n \in Nat : Written(m, u, s, j, n) \in Memory
           /\ \A from, to, n \in Nat : from + n <= HardLimit => Moved(m, from, to, n) \in Memory
<1>1. HardLimit \in Nat
      BY HeapAssumption
<1>2. ASSUME NEW B PROVE Kept(m, B) \in Memory
      BY DEF Memory, Kept
<1>3. ASSUME NEW u \in Users, NEW s \in Nat, NEW j \in Nat, NEW n \in Nat
      PROVE  Written(m, u, s, j, n) \in Memory
  <2>1. \A x \in 0 .. HardLimit : x \in s + j .. s + n - 1 => x - s \in 0 .. HardLimit
        BY <1>1
  <2>2. \A x \in 0 .. HardLimit : x \in s + j .. s + n - 1
                                    => Mark(u, x - s) \in Users \X (0 .. HardLimit)
        BY <2>1 DEF Mark
  <2> QED BY <2>2 DEF Memory, Written
<1>4. ASSUME NEW from \in Nat, NEW to \in Nat, NEW n \in Nat, from + n <= HardLimit
      PROVE  Moved(m, from, to, n) \in Memory
  <2>1. \A x \in 0 .. HardLimit : x \in to .. to + n - 1 => x - to + from \in 0 .. HardLimit
        BY <1>1, <1>4
  <2> QED BY <2>1 DEF Memory, Moved
<1> QED BY <1>2, <1>3, <1>4

\* What has to be shown of a step that leaves a sound heap.
LEMMA HeapStep ==
    ASSUME Types, configured' = TRUE, Sound(area', blocks'),
           held' \in HeldType, thread' \in ThreadType, terminated' \subseteq Threads,
           Owned(Allocated(blocks'), held', thread'),
           NEW m \in Memory, mem' = Kept(m, blocks') \/ mem' = m,
           \A u \in Users : Intact(m, held', u),
           Stacks(thread', terminated')
    PROVE  IInv'
<1>1. Area' = area' /\ Blocks' = blocks'
      BY DEF Area, Blocks
<1>2. area' \in AreaType /\ Tiles(blocks', area'.base, area'.limit)
      BY DEF Sound
<1>3. area'.base \in Nat /\ area'.limit \in Nat /\ area'.limit <= HardLimit
      BY <1>2, AreaFacts
<1>4. held' \in UserMap /\ thread' \in ThreadMap
      BY MapTypes
<1>5. mem' \in Memory
      BY MemoryStays
<1>6. \A u \in Users : Intact(mem', held', u)
      BY <1>2, <1>3, <1>4, KeptIntact
<1>7. Types'
      BY <1>2, <1>5 DEF Types
<1> QED BY <1>1, <1>6, <1>7 DEF IInv

LEMMA RefusedStep ==
    ASSUME IInv, Refused
    PROVE  IInv'
<1>1. Types /\ mem \in Memory /\ held \in HeldType /\ thread \in ThreadType
      /\ terminated \subseteq Threads
      BY DEF IInv, Types
<1> QED BY <1>1, HeapStep DEF IInv, Refused

-----------------------------------------------------------------------------
LEMMA InitIInv == Init => IInv
<1>1. SUFFICES ASSUME Init PROVE IInv
      OBVIOUS
<1>2. HardLimit \in Nat /\ ProgramEnd \in 1 .. HardLimit
      BY HeapAssumption
<1>3. Types
  <2>1. area \in AreaType
        BY <1>1, <1>2 DEF Init, AreaType
  <2>2. held \in HeldType
        BY <1>1, <1>2 DEF Init, HeldType, Nothing
  <2>3. mem \in Memory
        BY <1>1 DEF Init, Memory
  <2>4. thread \in ThreadType
        BY <1>1, <1>2 DEF Init, ThreadType, NoThread
  <2> QED BY <1>1, <2>1, <2>2, <2>3, <2>4 DEF Init, Types
<1>4. Area = ResetArea(0, 0) /\ Blocks = AllFree(ResetArea(0, 0))
      BY <1>1 DEF Init, Area, Blocks
<1>5. Sound(Area, Blocks) /\ Allocated(Blocks) = {}
  <2>1. area.suggested \in 1 .. HardLimit /\ 0 \in 0 .. HardLimit /\ 0 \in 0 .. HardLimit + 1
        BY <1>2, <1>3, TypeFacts
  <2> QED BY <1>4, <2>1, ResetSound
<1>6. Holders(held) = {} /\ Owners(thread) = {}
      BY <1>1 DEF Init, Holders, Owners, NoThread
<1>7. Owned({}, held, thread)
      BY <1>6 DEF Owned
<1>8. \A u \in Users : Intact(mem, held, u)
      BY <1>1 DEF Init, Intact, Nothing
<1>9. Stacks(thread, terminated)
      BY <1>1 DEF Init, Stacks, NoThread
<1> QED BY <1>3, <1>5, <1>7, <1>8, <1>9 DEF IInv

LEMMA SetupHeapStep ==
    ASSUME IInv, NEW base \in Bases, NEW limit \in 0 .. HardLimit + 1, SetupHeap(base, limit)
    PROVE  IInv'
<1>1. Types /\ mem \in Memory /\ held \in HeldType /\ thread \in ThreadType
      /\ terminated \subseteq Threads
      BY DEF IInv, Types
<1>2. area.suggested \in 1 .. HardLimit /\ base \in 0 .. HardLimit
      BY <1>1, TypeFacts, HeapAssumption
<1>3. Sound(area', blocks') /\ Allocated(blocks') = {}
      BY <1>2, ResetSound DEF SetupHeap
<1>4. Holders(held) = {} /\ Owners(thread) = {}
      BY DEF SetupHeap, Holders, Owners
<1>5. Owned({}, held, thread)
      BY <1>4 DEF Owned
<1> QED BY <1>1, <1>3, <1>5, HeapStep DEF IInv, SetupHeap

\* What FirstFit says of the block and the place it finds.
LEMMA FitFacts ==
    ASSUME IInv, NEW n \in Nat, NEW a \in Nat \ {0}, NEW b \in Blocks, NEW s \in b.addr .. End(b),
           FirstFit(Blocks, b, s, n, a)
    PROVE  b.free /\ s \in Nat /\ b.addr <= s /\ s + n <= End(b)
<1>1. Tiles(Blocks, Area.base, Area.limit) /\ Area.base \in Nat /\ Area.limit \in Nat
      BY AreaFacts DEF IInv, Sound
<1>2. b.addr \in Nat /\ End(b) \in Nat
      BY <1>1, BlockBounds
<1> QED BY <1>2 DEF FirstFit, Fits

LEMMA MallocStep ==
    ASSUME IInv, NEW u \in Users, NEW n \in Sizes, NEW a \in Aligns, Malloc(u, n, a)
    PROVE  IInv'
<1>1. CASE Refused
      BY <1>1, RefusedStep
<1>2. ASSUME NEW b \in Blocks, NEW s \in b.addr .. End(b),
             FirstFit(Blocks, b, s, n, a), TakeFrom(Blocks, b, s, n),
             held' = [held EXCEPT ![u] = [addr |-> s, size |-> n]],
             mem' = Kept(Written(mem, u, s, 0, n), blocks'),
             UNCHANGED <<thread, terminated>>
      PROVE  IInv'
  <2>1. n \in Nat /\ n > 0 /\ a \in Nat \ {0} /\ held[u] = Nothing
        BY HeapAssumption DEF Malloc
  <2>2. b.free /\ s \in Nat /\ b.addr <= s /\ s + n <= End(b)
        BY <1>2, <2>1, FitFacts
  <2>3. blocks' = CarvedFrom(Blocks, b, s, n) /\ area' = Raised(Area, s + n) /\ configured' = TRUE
        BY <1>2 DEF TakeFrom, CarvedFrom, Raised
  <2>4. /\ Types /\ Sound(Area, Blocks) /\ Owned(Allocated(Blocks), held, thread)
        /\ (\A v \in Users : Intact(mem, held, v)) /\ Stacks(thread, terminated)
        /\ held \in HeldType /\ mem \in Memory /\ thread \in ThreadType /\ terminated \subseteq Threads
        BY DEF IInv, Types
  <2>5. HardLimit \in Nat /\ held \in UserMap /\ thread \in ThreadMap
        BY <2>4, TypeFacts
  <2>6. Sound(area', blocks')
        BY <2>1, <2>2, <2>3, <2>4, TakingSound
  <2>7. Allocated(blocks') = Allocated(Blocks) \cup {Taken(s, n)}
        BY <2>1, <2>2, <2>3, <2>4, TakingSound
  <2>8. s > 0 /\ s + n <= HardLimit
        BY <2>1, <2>2, <2>3, <2>4, TakingSound
  <2>9. \A c \in Allocated(Blocks) : c.addr # s
        BY <2>1, <2>2, <2>3, <2>4, TakingSound
  <2>10. u \notin Holders(held)
         BY <2>1 DEF Holders
  <2>11. Owned(Allocated(Blocks) \cup {Taken(s, n)}, held', thread)
         BY <1>2, <2>1, <2>2, <2>4, <2>5, <2>8, <2>9, <2>10, UserGets
  <2>12. Owned(Allocated(blocks'), held', thread')
         BY <1>2, <2>7, <2>11
  <2>13. s \in 0 .. HardLimit /\ n \in 0 .. HardLimit
         BY <2>1, <2>2, <2>5, <2>8
  <2>14. held' \in HeldType
         BY <1>2, <2>4, <2>13 DEF HeldType
  <2>15. held'[u].addr = s /\ held'[u].size = n /\ \A v \in Users \ {u} : held'[v] = held[v]
         BY <1>2, <2>4 DEF HeldType
  <2>16. \A v \in Users \ {u} : Intact(mem, held', v)
         BY <2>4, <2>15 DEF Intact
  <2>17. \A v \in Users : Intact(Written(mem, u, s, 0, n), held', v)
    <3>1. Tiles(blocks', area'.base, area'.limit) /\ area' \in AreaType
          BY <2>6 DEF Sound
    <3>2. area'.base \in Nat /\ area'.limit \in Nat /\ area'.limit <= HardLimit
          BY <3>1, AreaFacts
    <3>3. held' \in UserMap /\ thread' \in ThreadMap
          BY <1>2, <2>5, <2>14, MapTypes
    <3>4. \A k \in 0 .. 0 - 1 : k < n => mem[s + k] = Mark(u, k)
          OBVIOUS
    <3> QED BY <2>1, <2>2, <2>4, <2>12, <2>15, <2>16, <3>1, <3>2, <3>3, <3>4, WrittenIntact
  <2>18. Written(mem, u, s, 0, n) \in Memory
         BY <2>1, <2>2, <2>4, MemoryStays
  <2>19. thread' = thread /\ terminated' = terminated
         BY <1>2
  <2> QED BY <1>2, <2>3, <2>4, <2>6, <2>12, <2>14, <2>17, <2>18, <2>19, HeapStep
<1> QED BY <1>1, <1>2 DEF Malloc

LEMMA FreeStep ==
    ASSUME IInv, NEW u \in Users, Free(u)
    PROVE  IInv'
<1> DEFINE b == UserBlock(held, u)
<1>1. /\ Types /\ Sound(Area, Blocks) /\ Owned(Allocated(Blocks), held, thread)
      /\ (\A v \in Users : Intact(mem, held, v)) /\ Stacks(thread, terminated)
      /\ held \in HeldType /\ mem \in Memory /\ thread \in ThreadType /\ terminated \subseteq Threads
      BY DEF IInv, Types
<1>2. HardLimit \in Nat /\ held \in UserMap /\ thread \in ThreadMap
      BY <1>1, TypeFacts
<1>3. u \in Holders(held)
      BY DEF Free, Holders
<1>4. b \in Allocated(Blocks) /\ b.addr = held[u].addr
      BY <1>1, <1>3 DEF Owned, UserBlock, Taken, Block
<1> HIDE DEF b
<1>5. blocks' = FreeAt(Blocks, b.addr) /\ area' = Area /\ configured' = TRUE
      BY <1>4 DEF Free
<1>6. Sound(area', blocks')
      BY <1>1, <1>4, <1>5, FreeingSound
<1>7. Allocated(blocks') = Allocated(Blocks) \ {b}
      BY <1>1, <1>4, <1>5, FreeingSound
<1>8. held' = [held EXCEPT ![u] = Nothing] /\ mem' = Kept(mem, blocks')
      /\ thread' = thread /\ terminated' = terminated
      BY DEF Free
<1>9. Owned(Allocated(Blocks) \ {b}, held', thread)
      BY <1>1, <1>2, <1>3, <1>8, UserLoses DEF b
<1>10. Owned(Allocated(blocks'), held', thread')
       BY <1>7, <1>8, <1>9
<1>11. held' \in HeldType
       BY <1>1, <1>2, <1>8 DEF HeldType, Nothing
<1>12. \A v \in Users : Intact(mem, held', v)
       BY <1>1, <1>8 DEF HeldType, Intact, Nothing
<1> QED BY <1>1, <1>5, <1>6, <1>8, <1>10, <1>11, <1>12, HeapStep

-----------------------------------------------------------------------------
\* A user exchanges its block for another.
LEMMA UserExchanges ==
    ASSUME NEW H \in UserMap, NEW T \in ThreadMap, NEW A, Owned(A, H, T), NEW u \in Holders(H),
           NEW s \in Nat, NEW n \in Nat, s > 0, n > 0,
           \A c \in A \ {UserBlock(H, u)} : c.addr # s
    PROVE  Owned((A \ {UserBlock(H, u)}) \cup {Taken(s, n)},
                 [H EXCEPT ![u] = [addr |-> s, size |-> n]], T)
<1> DEFINE G == [H EXCEPT ![u] = Nothing]
           D == A \ {UserBlock(H, u)}
           F == [G EXCEPT ![u] = [addr |-> s, size |-> n]]
<1>1. Owned(D, G, T)
      BY UserLoses
<1>2. u \in Users
      BY DEF Holders
<1>3. G \in UserMap /\ u \notin Holders(G)
      BY <1>2 DEF UserMap, Nothing, Holders
<1>4. \A c \in D : c.addr # s
      OBVIOUS
<1>5. F = [H EXCEPT ![u] = [addr |-> s, size |-> n]]
      BY <1>2 DEF UserMap
<1> HIDE DEF G, D
<1>6. Owned(D \cup {Taken(s, n)}, F, T)
      BY <1>1, <1>2, <1>3, <1>4, UserGets
<1> QED BY <1>5, <1>6 DEF D

\* No other block begins where that of a user does.
LEMMA OthersElsewhere ==
    ASSUME NEW H \in UserMap, NEW T \in ThreadMap, NEW A, Owned(A, H, T), NEW u \in Holders(H)
    PROVE  \A c \in A \ {UserBlock(H, u)} : c.addr # H[u].addr
<1>1. \A v \in Holders(H) : UserBlock(H, v).addr = H[v].addr
      BY DEF UserBlock, Taken, Block
<1>2. \A t \in Owners(T) : StackBlock(T, t).addr = T[t].stack
      BY DEF StackBlock, Taken, Block
<1>3. SUFFICES ASSUME NEW c \in A, c # UserBlock(H, u), c.addr = H[u].addr PROVE FALSE
      OBVIOUS
<1>4. CASE \E v \in Holders(H) : c = UserBlock(H, v)
      BY <1>1, <1>3, <1>4 DEF Owned
<1>5. CASE \E t \in Owners(T) : c = StackBlock(T, t)
      BY <1>2, <1>3, <1>5 DEF Owned
<1> QED BY <1>4, <1>5 DEF Owned

\* What the invariant says of a user that holds a block.
LEMMA HolderFacts ==
    ASSUME IInv, NEW u \in Users, held[u] # Nothing
    PROVE  /\ u \in Holders(held) /\ held[u].addr \in Nat /\ held[u].addr > 0
           /\ held[u].size \in Nat /\ held[u].size > 0
           /\ UserBlock(held, u) = Taken(held[u].addr, held[u].size)
           /\ Taken(held[u].addr, held[u].size) \in Allocated(Blocks)
           /\ \A c \in Allocated(Blocks) \ {UserBlock(held, u)} : c.addr # held[u].addr
           /\ held[u].addr + held[u].size <= Area.limit /\ Area.limit \in Nat
           /\ Area.limit <= HardLimit
<1>1. Types /\ Sound(Area, Blocks) /\ Owned(Allocated(Blocks), held, thread)
      BY DEF IInv
<1>2. held \in UserMap /\ thread \in ThreadMap
      BY <1>1, TypeFacts
<1>3. u \in Holders(held)
      BY DEF Holders
<1>4. held[u].addr \in Nat /\ held[u].size \in Nat
      BY <1>2 DEF UserMap
<1>5. held[u].addr # 0 /\ held[u].size > 0
      BY <1>1, <1>3 DEF Owned
<1>6. UserBlock(held, u) \in Allocated(Blocks)
      BY <1>1, <1>3 DEF Owned
<1>7. \A c \in Allocated(Blocks) \ {UserBlock(held, u)} : c.addr # held[u].addr
      BY <1>1, <1>2, <1>3, OthersElsewhere
<1>8. UserBlock(held, u) = Taken(held[u].addr, held[u].size)
      BY DEF UserBlock
<1>9. /\ held[u].addr + held[u].size <= Area.limit /\ Area.limit \in Nat
      /\ Area.limit <= HardLimit
  <2>1. Tiles(Blocks, Area.base, Area.limit) /\ Area \in AreaType
        BY <1>1 DEF Sound
  <2>2. Area.base \in Nat /\ Area.limit \in Nat /\ Area.limit <= HardLimit
        BY <2>1, AreaFacts
  <2>3. UserBlock(held, u) \in Blocks
        BY <1>6 DEF Allocated
  <2>4. End(UserBlock(held, u)) <= Area.limit
        BY <2>1, <2>2, <2>3, BlockBounds
  <2>5. End(UserBlock(held, u)) = held[u].addr + held[u].size
        BY DEF UserBlock, Taken, Block, End
  <2> QED BY <2>2, <2>4, <2>5
<1> QED BY <1>3, <1>4, <1>5, <1>6, <1>7, <1>8, <1>9

LEMMA Resized ==
    ASSUME NEW H \in UserMap, NEW u \in Users, NEW n
    PROVE  [H EXCEPT ![u].size = n] = [H EXCEPT ![u] = [addr |-> H[u].addr, size |-> n]]
<1>1. H[u] \in [addr : Nat, size : Nat]
      BY DEF UserMap
<1>2. [H[u] EXCEPT !.size = n] = [addr |-> H[u].addr, size |-> n]
      BY <1>1
<1> QED BY <1>2

LEMMA ShrinkStep ==
    ASSUME IInv, NEW u \in Users, NEW n \in Sizes, Shrink(u, n)
    PROVE  IInv'
<1> DEFINE s == held[u].addr
           z == held[u].size
<1>1. /\ Types /\ Sound(Area, Blocks) /\ Owned(Allocated(Blocks), held, thread)
      /\ (\A v \in Users : Intact(mem, held, v)) /\ Stacks(thread, terminated)
      /\ held \in HeldType /\ mem \in Memory /\ thread \in ThreadType /\ terminated \subseteq Threads
      BY DEF IInv, Types
<1>2. HardLimit \in Nat /\ held \in UserMap /\ thread \in ThreadMap
      BY <1>1, TypeFacts
<1>3. /\ u \in Holders(held) /\ s \in Nat /\ s > 0 /\ z \in Nat /\ z > 0
      /\ UserBlock(held, u) = Taken(s, z) /\ Taken(s, z) \in Allocated(Blocks)
      /\ \A c \in Allocated(Blocks) \ {UserBlock(held, u)} : c.addr # s
      BY HolderFacts DEF Shrink
<1>4. n \in Nat /\ n > 0 /\ n <= z
      BY HeapAssumption DEF Shrink
<1>5. blocks' = Coalesced(Shrunk(Blocks, s, z, n)) /\ area' = Area /\ configured' = TRUE
      BY DEF Shrink, Shrunk, TwoPieces, Taken
<1>6. held' = [held EXCEPT ![u].size = n] /\ mem' = Kept(mem, blocks')
      /\ thread' = thread /\ terminated' = terminated
      BY DEF Shrink
<1>7. held' = [held EXCEPT ![u] = [addr |-> s, size |-> n]]
      BY <1>2, <1>6, Resized
<1>8. held' \in HeldType /\ held'[u].addr = s /\ held'[u].size = n
      /\ \A v \in Users \ {u} : held'[v] = held[v]
  <2>1. s \in 0 .. HardLimit /\ n \in 0 .. HardLimit
        BY <1>1, <1>2, <1>3, <1>4 DEF HeldType
  <2> QED BY <1>1, <1>7, <2>1 DEF HeldType
<1>9. \A v \in Users : Intact(mem, held', v)
  <2>1. ASSUME NEW v \in Users, v # u PROVE Intact(mem, held', v)
        BY <1>1, <1>8, <2>1 DEF Intact
  <2>2. Intact(mem, held', u)
    <3>1. \A k \in 0 .. n - 1 : k \in 0 .. z - 1
          BY <1>3, <1>4
    <3> QED BY <1>1, <1>8, <3>1 DEF Intact
  <2> QED BY <2>1, <2>2
<1> HIDE DEF s, z
<1>10. Sound(area', blocks')
       BY <1>1, <1>3, <1>4, <1>5, ShrinkingSound
<1>11. Allocated(blocks') = (Allocated(Blocks) \ {Taken(s, z)}) \cup {Taken(s, n)}
       BY <1>1, <1>3, <1>4, <1>5, ShrinkingSound
<1>12. Owned((Allocated(Blocks) \ {UserBlock(held, u)}) \cup {Taken(s, n)}, held', thread)
       BY <1>1, <1>2, <1>3, <1>4, <1>7, UserExchanges
<1>13. Owned(Allocated(blocks'), held', thread')
       BY <1>3, <1>6, <1>11, <1>12
<1> QED BY <1>1, <1>5, <1>6, <1>8, <1>9, <1>10, <1>13, HeapStep

LEMMA GrowInPlaceStep ==
    ASSUME IInv, NEW u \in Users, NEW n \in Sizes, GrowInPlace(u, n)
    PROVE  IInv'
<1> DEFINE s == held[u].addr
           z == held[u].size
<1>1. /\ Types /\ Sound(Area, Blocks) /\ Owned(Allocated(Blocks), held, thread)
      /\ (\A v \in Users : Intact(mem, held, v)) /\ Stacks(thread, terminated)
      /\ held \in HeldType /\ mem \in Memory /\ thread \in ThreadType /\ terminated \subseteq Threads
      BY DEF IInv, Types
<1>2. HardLimit \in Nat /\ held \in UserMap /\ thread \in ThreadMap
      BY <1>1, TypeFacts
<1>3. /\ u \in Holders(held) /\ s \in Nat /\ s > 0 /\ z \in Nat /\ z > 0
      /\ UserBlock(held, u) = Taken(s, z) /\ Taken(s, z) \in Allocated(Blocks)
      /\ \A c \in Allocated(Blocks) \ {UserBlock(held, u)} : c.addr # s
      BY HolderFacts DEF GrowInPlace
<1>4. n \in Nat /\ n > 0 /\ z < n
      BY HeapAssumption DEF GrowInPlace
<1>5. PICK f \in Behind(u, n) : blocks' = Grown(Blocks, s, z, f, n)
      BY DEF GrowInPlace, Grown, TwoPieces, Taken
<1>6. f \in Blocks /\ f.free /\ f.addr = s + z /\ n <= z + f.size
  <2>1. z + f.size >= n /\ f \in Blocks /\ f.free /\ f.addr = s + z
        BY DEF Behind
  <2>2. f.size \in Nat
    <3>1. Tiles(Blocks, Area.base, Area.limit)
          BY <1>1 DEF Sound
    <3> QED BY <2>1, <3>1 DEF Tiles, HeapBlock
  <2> QED BY <1>3, <1>4, <2>1, <2>2
<1>7. area' = Raised(Area, s + n) /\ configured' = TRUE
      BY DEF GrowInPlace, Raised
<1>8. held' = [held EXCEPT ![u].size = n] /\ mem' = Kept(Written(mem, u, s, z, n), blocks')
      /\ thread' = thread /\ terminated' = terminated
      BY DEF GrowInPlace
<1>9. held' = [held EXCEPT ![u] = [addr |-> s, size |-> n]]
      BY <1>2, <1>8, Resized
<1>10. \A k \in 0 .. z - 1 : k < n => mem[s + k] = Mark(u, k)
       BY <1>1 DEF Intact
<1> HIDE DEF s, z
<1>11. Sound(area', blocks')
       BY <1>1, <1>3, <1>4, <1>5, <1>6, <1>7, GrowingSound
<1>12. Allocated(blocks') = (Allocated(Blocks) \ {Taken(s, z)}) \cup {Taken(s, n)}
       BY <1>1, <1>3, <1>4, <1>5, <1>6, <1>7, GrowingSound
<1>13. s + n <= HardLimit
       BY <1>1, <1>3, <1>4, <1>5, <1>6, <1>7, GrowingSound
<1>14. Owned((Allocated(Blocks) \ {UserBlock(held, u)}) \cup {Taken(s, n)}, held', thread)
       BY <1>1, <1>2, <1>3, <1>4, <1>9, UserExchanges
<1>15. Owned(Allocated(blocks'), held', thread')
       BY <1>3, <1>8, <1>12, <1>14
<1>16. held' \in HeldType /\ held'[u].addr = s /\ held'[u].size = n
       /\ \A v \in Users \ {u} : held'[v] = held[v]
  <2>1. s \in 0 .. HardLimit /\ n \in 0 .. HardLimit
        BY <1>2, <1>3, <1>4, <1>13
  <2> QED BY <1>1, <1>9, <2>1 DEF HeldType
<1>17. \A v \in Users \ {u} : Intact(mem, held', v)
       BY <1>1, <1>16 DEF Intact
<1>18. \A v \in Users : Intact(Written(mem, u, s, z, n), held', v)
  <2>1. Tiles(blocks', area'.base, area'.limit) /\ area' \in AreaType
        BY <1>11 DEF Sound
  <2>2. area'.base \in Nat /\ area'.limit \in Nat /\ area'.limit <= HardLimit
        BY <2>1, AreaFacts
  <2>3. held' \in UserMap /\ thread' \in ThreadMap
        BY <1>2, <1>8, <1>16, MapTypes
  <2> QED BY <1>1, <1>3, <1>4, <1>10, <1>15, <1>16, <1>17, <2>1, <2>2, <2>3, WrittenIntact
<1>19. Written(mem, u, s, z, n) \in Memory
       BY <1>1, <1>3, <1>4, MemoryStays
<1> QED BY <1>1, <1>7, <1>8, <1>11, <1>15, <1>16, <1>18, <1>19, HeapStep

LEMMA MoveStep ==
    ASSUME IInv, NEW u \in Users, NEW n \in Sizes, Move(u, n)
    PROVE  IInv'
<1>1. CASE Refused
      BY <1>1, RefusedStep
<1>2. ASSUME NEW b \in Blocks, NEW s \in b.addr .. End(b),
             FirstFit(Blocks, b, s, n, 1), configured' = TRUE,
             blocks' = FreeAt((Blocks \ {b}) \cup Carved(b, s, n), held[u].addr),
             area' = [Area EXCEPT !.end = Higher(@, s + n)],
             held' = [held EXCEPT ![u] = [addr |-> s, size |-> n]],
             mem' = Kept(Written(Moved(mem, held[u].addr, s, held[u].size),
                                 u, s, held[u].size, n), blocks'),
             UNCHANGED <<thread, terminated>>
      PROVE  IInv'
  <2> DEFINE p == held[u].addr
             z == held[u].size
             C == CarvedFrom(Blocks, b, s, n)
             old == UserBlock(held, u)
             m == Moved(mem, p, s, z)
  <2>1. /\ Types /\ Sound(Area, Blocks) /\ Owned(Allocated(Blocks), held, thread)
        /\ (\A v \in Users : Intact(mem, held, v)) /\ Stacks(thread, terminated)
        /\ held \in HeldType /\ mem \in Memory /\ thread \in ThreadType
        /\ terminated \subseteq Threads
        BY DEF IInv, Types
  <2>2. HardLimit \in Nat /\ held \in UserMap /\ thread \in ThreadMap
        BY <2>1, TypeFacts
  <2>3. /\ u \in Holders(held) /\ p \in Nat /\ p > 0 /\ z \in Nat /\ z > 0
        /\ old = Taken(p, z) /\ Taken(p, z) \in Allocated(Blocks)
        /\ p + z <= HardLimit
    <3>1. held[u] # Nothing
          BY DEF Move
    <3>2. /\ u \in Holders(held) /\ p \in Nat /\ p > 0 /\ z \in Nat /\ z > 0
          /\ old = Taken(p, z) /\ Taken(p, z) \in Allocated(Blocks)
          BY <3>1, HolderFacts
    <3>3. p + z <= Area.limit /\ Area.limit \in Nat /\ Area.limit <= HardLimit
          BY <3>1, HolderFacts
    <3> QED BY <2>2, <3>2, <3>3
  <2>4. n \in Nat /\ n > 0 /\ z < n /\ 1 \in Nat \ {0}
        BY HeapAssumption DEF Move
  <2>5. b.free /\ s \in Nat /\ b.addr <= s /\ s + n <= End(b)
        BY <1>2, <2>4, FitFacts
  <2>6. blocks' = FreeAt(C, p) /\ area' = Raised(Area, s + n)
        BY <1>2 DEF CarvedFrom, Raised
  <2>7. \A k \in 0 .. z - 1 : mem[p + k] = Mark(u, k)
        BY <2>1 DEF Intact
  <2> HIDE DEF p, z, C, old
  <2>8. Sound(Raised(Area, s + n), C)
        BY <2>1, <2>4, <2>5, TakingSound DEF C
  <2>9. Allocated(C) = Allocated(Blocks) \cup {Taken(s, n)}
        BY <2>1, <2>4, <2>5, TakingSound DEF C
  <2>10. s > 0 /\ s + n <= HardLimit
         BY <2>1, <2>4, <2>5, TakingSound
  <2>11. \A c \in Allocated(Blocks) : c.addr # s
         BY <2>1, <2>4, <2>5, TakingSound
  <2>12. old \in Allocated(C) /\ old.addr = p /\ old # Taken(s, n)
    <3>1. Taken(s, n).addr = s /\ Taken(p, z).addr = p
          BY DEF Taken, Block
    <3> QED BY <2>3, <2>9, <2>11, <3>1
  <2>13. Sound(area', blocks')
         BY <2>6, <2>8, <2>12, FreeingSound
  <2>14. Allocated(blocks') = Allocated(C) \ {old}
         BY <2>6, <2>8, <2>12, FreeingSound
  <2>15. Allocated(blocks') = (Allocated(Blocks) \ {old}) \cup {Taken(s, n)}
         BY <2>9, <2>12, <2>14
  <2>16. \A c \in Allocated(Blocks) \ {old} : c.addr # s
         BY <2>11
  <2>17. Owned((Allocated(Blocks) \ {old}) \cup {Taken(s, n)}, held', thread)
         BY <1>2, <2>1, <2>2, <2>3, <2>4, <2>5, <2>10, <2>16, UserExchanges DEF old
  <2>18. Owned(Allocated(blocks'), held', thread')
         BY <1>2, <2>15, <2>17
  <2>19. held' \in HeldType /\ held'[u].addr = s /\ held'[u].size = n
         /\ \A v \in Users \ {u} : held'[v] = held[v]
    <3>1. s \in 0 .. HardLimit /\ n \in 0 .. HardLimit
          BY <2>2, <2>4, <2>5, <2>10
    <3> QED BY <1>2, <2>1, <3>1 DEF HeldType
  <2>20. /\ Tiles(blocks', area'.base, area'.limit) /\ area'.base \in Nat /\ area'.limit \in Nat
         /\ area'.limit <= HardLimit /\ held' \in UserMap /\ thread' \in ThreadMap
    <3>1. Tiles(blocks', area'.base, area'.limit) /\ area' \in AreaType
          BY <2>13 DEF Sound
    <3> QED BY <1>2, <2>2, <2>19, <3>1, AreaFacts, MapTypes
  <2>21. DOMAIN mem = 0 .. HardLimit
         BY <2>1 DEF Memory
  <2>22. \A k \in 0 .. z - 1 : k < n => m[s + k] = Mark(u, k)
    <3>1. SUFFICES ASSUME NEW k \in 0 .. z - 1 PROVE m[s + k] = Mark(u, k)
          OBVIOUS
    <3>2. s + k \in 0 .. HardLimit /\ s + k \in s .. s + z - 1 /\ s + k - s + p = p + k
          BY <2>2, <2>3, <2>4, <2>5, <2>10
    <3>3. m[s + k] = mem[p + k]
          BY <2>21, <3>2 DEF Moved
    <3> QED BY <2>7, <3>3
  <2>23. \A v \in Users \ {u} : Intact(m, held', v)
    <3>1. SUFFICES ASSUME NEW v \in Users \ {u}, NEW k \in 0 .. held'[v].size - 1
                   PROVE  m[held'[v].addr + k] = Mark(v, k)
          BY DEF Intact
    <3> DEFINE x == held'[v].addr + k
    <3>2. x \in Nat /\ x < area'.limit
          BY <2>18, <2>20, HoldersApart
    <3>3. ~(x \in s .. s + z - 1)
      <4>1. SUFFICES ASSUME x \in s .. s + z - 1 PROVE FALSE
            OBVIOUS
      <4>2. x - s \in 0 .. held'[u].size - 1 /\ held'[u].addr + (x - s) = x
            BY <2>3, <2>4, <2>5, <2>19, <3>2, <4>1
      <4> QED BY <2>18, <2>20, <4>2, HoldersApart
    <3>4. x \in DOMAIN mem
          BY <2>2, <2>20, <2>21, <3>2
    <3>5. mem[x] = Mark(v, k)
          BY <2>1, <2>19 DEF Intact
    <3> QED BY <3>3, <3>4, <3>5 DEF Moved
  <2>24. m \in Memory
         BY <2>1, <2>3, <2>5, MemoryStays
  <2> HIDE DEF m
  <2>25. \A v \in Users : Intact(Written(m, u, s, z, n), held', v)
         BY <2>3, <2>4, <2>5, <2>18, <2>19, <2>20, <2>22, <2>23, <2>24, WrittenIntact
  <2>26. Written(m, u, s, z, n) \in Memory
         BY <2>3, <2>4, <2>5, <2>24, MemoryStays
  <2>27. mem' = Kept(Written(m, u, s, z, n), blocks') /\ thread' = thread
         /\ terminated' = terminated /\ configured' = TRUE
         BY <1>2 DEF m, p, z
  <2> QED BY <2>1, <2>13, <2>18, <2>19, <2>25, <2>26, <2>27, HeapStep
<1> QED BY <1>1, <1>2 DEF Move

-----------------------------------------------------------------------------
\* A step of a thread that leaves the heap alone, ...
LEMMA QuietStep ==
    ASSUME IInv, UNCHANGED <<configured, area, blocks, held, mem>>,
           thread' \in ThreadType, terminated' \subseteq Threads,
           \A t \in Threads : thread'[t].owns = thread[t].owns
                                /\ (thread'[t].owns => thread'[t].stack = thread[t].stack),
           Stacks(thread', terminated')
    PROVE  IInv'
<1>1. /\ Types /\ Sound(Area, Blocks) /\ Owned(Allocated(Blocks), held, thread)
      /\ \A v \in Users : Intact(mem, held, v)
      BY DEF IInv
<1>2. Area' = Area /\ Blocks' = Blocks
      BY DEF Area, Blocks, ResetArea, AllFree
<1>3. held \in UserMap /\ thread \in ThreadMap /\ thread' \in ThreadMap
      BY <1>1, TypeFacts, MapTypes
<1>4. Owned(Allocated(Blocks), held, thread')
      BY <1>1, <1>3, ThreadKeeps
<1>5. Types'
      BY <1>1 DEF Types
<1> QED BY <1>1, <1>2, <1>4, <1>5 DEF IInv

\* ... and one by which a thread loses its stack.
LEMMA GivingBackStep ==
    ASSUME IInv, NEW t \in Threads, StackGivenBack(t), held' = held, mem' = mem,
           thread' \in ThreadType, terminated' \subseteq Threads,
           \A v \in Threads \ {t} : thread'[v] = thread[v], ~thread'[t].owns,
           Stacks(thread', terminated')
    PROVE  IInv'
<1>1. /\ Types /\ Sound(Area, Blocks) /\ Owned(Allocated(Blocks), held, thread)
      /\ (\A v \in Users : Intact(mem, held, v)) /\ held \in HeldType /\ mem \in Memory
      BY DEF IInv, Types
<1>2. held \in UserMap /\ thread \in ThreadMap /\ thread' \in ThreadMap
      BY <1>1, TypeFacts, MapTypes
<1>3. CASE ~thread[t].owns
  <2>1. UNCHANGED <<configured, area, blocks, held, mem>>
        BY <1>3 DEF StackGivenBack, heap
  <2>2. ASSUME NEW v \in Threads
        PROVE  thread'[v].owns = thread[v].owns
                 /\ (thread'[v].owns => thread'[v].stack = thread[v].stack)
    <3>1. CASE v = t
      <4>1. thread[t].owns \in BOOLEAN /\ thread'[t].owns \in BOOLEAN
            BY <1>2 DEF ThreadMap
      <4> QED BY <1>3, <3>1, <4>1
    <3> QED BY <3>1
  <2> QED BY <2>1, <2>2, QuietStep
<1>4. CASE thread[t].owns
  <2> DEFINE b == StackBlock(thread, t)
  <2>1. b \in Allocated(Blocks) /\ b.addr = thread[t].stack
        BY <1>1, <1>4 DEF Owned, Owners, StackBlock, Taken, Block
  <2> HIDE DEF b
  <2>2. blocks' = FreeAt(Blocks, b.addr) /\ area' = Area /\ configured' = TRUE
        BY <1>4, <2>1 DEF StackGivenBack
  <2>3. Sound(area', blocks')
        BY <1>1, <2>1, <2>2, FreeingSound
  <2>4. Allocated(blocks') = Allocated(Blocks) \ {b}
        BY <1>1, <2>1, <2>2, FreeingSound
  <2>5. Owned(Allocated(Blocks) \ {b}, held, thread')
        BY <1>1, <1>2, <1>4, ThreadLoses DEF b
  <2>6. Owned(Allocated(blocks'), held', thread')
        BY <2>4, <2>5
  <2> QED BY <1>1, <2>2, <2>3, <2>6, HeapStep
<1> QED BY <1>3, <1>4

LEMMA StartThreadStep ==
    ASSUME IInv, NEW t \in Threads, StartThread(t)
    PROVE  IInv'
<1>1. /\ Types /\ Sound(Area, Blocks) /\ Owned(Allocated(Blocks), held, thread)
      /\ (\A v \in Users : Intact(mem, held, v)) /\ Stacks(thread, terminated)
      /\ held \in HeldType /\ mem \in Memory /\ thread \in ThreadType
      /\ terminated \subseteq Threads
      BY DEF IInv, Types
<1>2. HardLimit \in Nat /\ held \in UserMap /\ thread \in ThreadMap
      BY <1>1, TypeFacts
<1>3. CASE thread[t].stack # 0 /\ thread' = [thread EXCEPT ![t].status = "Live"]
             /\ UNCHANGED <<configured, area, blocks, held, mem, terminated>>
  <2>1. thread' \in ThreadType
        BY <1>1, <1>3 DEF ThreadType
  <2>2. \A v \in Threads : thread'[v].owns = thread[v].owns /\ thread'[v].stack = thread[v].stack
        BY <1>1, <1>3 DEF ThreadType
  <2>3. thread'[t].status = "Live" /\ \A v \in Threads \ {t} : thread'[v] = thread[v]
        BY <1>1, <1>3 DEF ThreadType
  <2>4. Stacks(thread', terminated')
        BY <1>1, <1>3, <2>2, <2>3 DEF Stacks
  <2> QED BY <1>1, <1>3, <2>1, <2>2, <2>4, QuietStep
<1>4. CASE Refused
      BY <1>4, RefusedStep
<1>5. ASSUME thread[t].stack = 0, NEW b \in Blocks, NEW s \in b.addr .. End(b),
             FirstFit(Blocks, b, s, StackSize, 1), TakeFrom(Blocks, b, s, StackSize),
             thread' = [thread EXCEPT ![t] = [status |-> "Live", stack |-> s, owns |-> TRUE]],
             UNCHANGED <<held, mem, terminated>>
      PROVE  IInv'
  <2>1. StackSize \in Nat /\ StackSize > 0 /\ 1 \in Nat \ {0}
        BY HeapAssumption
  <2>2. b.free /\ s \in Nat /\ b.addr <= s /\ s + StackSize <= End(b)
        BY <1>5, <2>1, FitFacts
  <2>3. /\ blocks' = CarvedFrom(Blocks, b, s, StackSize)
        /\ area' = Raised(Area, s + StackSize) /\ configured' = TRUE
        BY <1>5 DEF TakeFrom, CarvedFrom, Raised
  <2>4. Sound(area', blocks')
        BY <1>1, <2>1, <2>2, <2>3, TakingSound
  <2>5. Allocated(blocks') = Allocated(Blocks) \cup {Taken(s, StackSize)}
        BY <1>1, <2>1, <2>2, <2>3, TakingSound
  <2>6. s > 0 /\ s + StackSize <= HardLimit
        BY <1>1, <2>1, <2>2, <2>3, TakingSound
  <2>7. \A c \in Allocated(Blocks) : c.addr # s
        BY <1>1, <2>1, <2>2, <2>3, TakingSound
  <2>8. s \in 0 .. HardLimit
        BY <1>2, <2>1, <2>2, <2>6
  <2>9. thread' \in ThreadType
        BY <1>1, <1>5, <2>8 DEF ThreadType
  <2>10. /\ thread'[t].status = "Live" /\ thread'[t].stack = s /\ thread'[t].owns
         /\ \A v \in Threads \ {t} : thread'[v] = thread[v]
         BY <1>1, <1>5 DEF ThreadType
  <2>11. ~thread[t].owns
    <3>1. thread[t].owns => thread[t].stack # 0
          BY <1>1 DEF Owned, Owners
    <3> QED BY <1>5, <3>1
  <2>12. StackBlock(thread', t) = Taken(s, StackSize)
         BY <2>10 DEF StackBlock
  <2>13. thread' \in ThreadMap
         BY <2>9, MapTypes
  <2>14. Owned(Allocated(Blocks) \cup {StackBlock(thread', t)}, held, thread')
         BY <1>1, <1>2, <2>6, <2>7, <2>10, <2>11, <2>13, ThreadGets
  <2>15. Owned(Allocated(blocks'), held', thread')
         BY <1>5, <2>5, <2>12, <2>14
  <2>16. Stacks(thread', terminated')
         BY <1>1, <1>5, <2>6, <2>10 DEF Stacks
  <2>17. held' = held /\ mem' = mem /\ terminated' = terminated
         BY <1>5
  <2> QED BY <1>1, <2>3, <2>4, <2>9, <2>15, <2>16, <2>17, HeapStep
<1> QED BY <1>3, <1>4, <1>5 DEF StartThread

LEMMA ThreadStep ==
    ASSUME IInv, NEW t \in Threads, ThreadCall(t)
    PROVE  IInv'
<1>1. /\ thread \in ThreadType /\ terminated \subseteq Threads /\ Stacks(thread, terminated)
      /\ HardLimit \in Nat
      BY TypeFacts DEF IInv, Types
<1>2. CASE CreateThread(t)
  <2>1. thread' \in ThreadType /\ terminated' \subseteq Threads
        BY <1>1, <1>2 DEF CreateThread, ThreadType
  <2>2. \A v \in Threads : thread'[v].owns = thread[v].owns /\ thread'[v].stack = thread[v].stack
        BY <1>1, <1>2 DEF CreateThread, ThreadType
  <2>3. thread'[t].status = "Dormant" /\ \A v \in Threads \ {t} : thread'[v] = thread[v]
        BY <1>1, <1>2 DEF CreateThread, ThreadType
  <2>4. Stacks(thread', terminated')
        BY <1>1, <1>2, <2>2, <2>3 DEF Stacks, CreateThread
  <2> QED BY <1>2, <2>1, <2>2, <2>4, QuietStep DEF CreateThread
<1>3. CASE StartThread(t)
      BY <1>3, StartThreadStep
<1>4. CASE ExitThread(t)
  <2>1. thread' \in ThreadType /\ terminated' \subseteq Threads
        BY <1>1, <1>4 DEF ExitThread, ThreadType
  <2>2. \A v \in Threads : thread'[v].owns = thread[v].owns /\ thread'[v].stack = thread[v].stack
        BY <1>1, <1>4 DEF ExitThread, ThreadType
  <2>3. thread'[t].status = "Dormant" /\ \A v \in Threads \ {t} : thread'[v] = thread[v]
        BY <1>1, <1>4 DEF ExitThread, ThreadType
  <2>4. Stacks(thread', terminated')
        BY <1>1, <1>4, <2>2, <2>3 DEF Stacks, ExitThread
  <2> QED BY <1>4, <2>1, <2>2, <2>4, QuietStep DEF ExitThread
<1>5. CASE TerminateThread(t)
  <2>1. thread' \in ThreadType /\ terminated' \subseteq Threads
        BY <1>1, <1>5 DEF TerminateThread, ThreadType
  <2>2. thread'[t].status = "Dormant" /\ ~thread'[t].owns /\ t \in terminated'
        BY <1>1, <1>5 DEF TerminateThread, ThreadType
  <2>3. \A v \in Threads \ {t} : thread'[v] = thread[v] /\ (v \in terminated' <=> v \in terminated)
        BY <1>1, <1>5 DEF TerminateThread, ThreadType
  <2>4. Stacks(thread', terminated')
        BY <1>1, <2>2, <2>3 DEF Stacks
  <2> QED BY <1>5, <2>1, <2>2, <2>3, <2>4, GivingBackStep DEF TerminateThread
<1>6. CASE DeleteThread(t)
  <2>1. thread' \in ThreadType
        BY <1>1, <1>6 DEF DeleteThread, ThreadType, NoThread
  <2>2. thread'[t] = NoThread /\ \A v \in Threads \ {t} : thread'[v] = thread[v]
        BY <1>1, <1>6 DEF DeleteThread, ThreadType
  <2>3. NoThread.status = "Absent" /\ NoThread.stack = 0 /\ ~NoThread.owns
        BY DEF NoThread
  <2>4. Stacks(thread', terminated')
        BY <1>1, <1>6, <2>2, <2>3 DEF Stacks, DeleteThread
  <2>5. StackGivenBack(t) /\ held' = held /\ mem' = mem /\ terminated' \subseteq Threads
        BY <1>1, <1>6 DEF DeleteThread
  <2> QED BY <2>1, <2>2, <2>3, <2>4, <2>5, GivingBackStep
<1> QED BY <1>2, <1>3, <1>4, <1>5, <1>6 DEF ThreadCall

LEMMA StutterStep ==
    ASSUME IInv, UNCHANGED vars
    PROVE  IInv'
<1>1. thread \in ThreadType /\ terminated \subseteq Threads /\ Stacks(thread, terminated)
      BY DEF IInv, Types
<1> QED BY <1>1, QuietStep DEF vars

\* The invariant holds throughout.
THEOREM Inductive == Spec => []IInv
<1>1. Init => IInv
      BY InitIInv
<1>2. IInv /\ [Next]_vars => IInv'
  <2>1. SUFFICES ASSUME IInv, [Next]_vars PROVE IInv'
        OBVIOUS
  <2>2. ASSUME NEW base \in Bases, NEW limit \in 0 .. HardLimit + 1, SetupHeap(base, limit)
        PROVE  IInv'
        BY <2>1, <2>2, SetupHeapStep
  <2>3. ASSUME NEW u \in Users, UserCall(u) PROVE IInv'
        BY <2>1, <2>3, MallocStep, FreeStep, ShrinkStep, GrowInPlaceStep, MoveStep DEF UserCall
  <2>4. ASSUME NEW t \in Threads, ThreadCall(t) PROVE IInv'
        BY <2>1, <2>4, ThreadStep
  <2>5. CASE UNCHANGED vars
        BY <2>1, <2>5, StutterStep
  <2> QED BY <2>1, <2>2, <2>3, <2>4, <2>5 DEF Next
<1> QED BY <1>1, <1>2, PTL DEF Spec

-----------------------------------------------------------------------------
LEMMA HeapFacts ==
    ASSUME IInv, configured
    PROVE  /\ Tiles(blocks, area.base, area.limit) /\ Separated(blocks)
           /\ area.base \in Nat /\ area.limit \in Nat /\ area.limit <= HardLimit
           /\ HardLimit \in Nat /\ area.end \in Nat
           /\ \A b \in Allocated(blocks) : End(b) <= area.end
           /\ Owned(Allocated(blocks), held, thread)
<1>1. Area = area /\ Blocks = blocks /\ area \in AreaType
      BY DEF Area, Blocks, IInv, Types
<1> QED BY <1>1, AreaFacts DEF IInv, Sound

\* The heap's data structures have the types the code gives them.
THEOREM TypeCorrect == Spec => []TypeOK
<1>1. IInv => TypeOK
  <2>1. SUFFICES ASSUME IInv PROVE TypeOK
        OBVIOUS
  <2>2. Types
        BY <2>1 DEF IInv
  <2>3. blocks \subseteq [addr : 0 .. HardLimit, size : 0 .. HardLimit, free : BOOLEAN]
    <3>1. CASE ~configured
          BY <2>2, <3>1 DEF Types
    <3>2. CASE configured
      <4>1. /\ Tiles(blocks, area.base, area.limit) /\ area.base \in Nat /\ area.limit \in Nat
            /\ area.limit <= HardLimit /\ HardLimit \in Nat
            BY <2>1, <3>2, HeapFacts
      <4>2. ASSUME NEW b \in blocks
            PROVE  b \in [addr : 0 .. HardLimit, size : 0 .. HardLimit, free : BOOLEAN]
        <5>1. b \in HeapBlock /\ b.addr \in Nat /\ b.size \in Nat /\ End(b) <= area.limit
              BY <4>1, BlockBounds
        <5>2. b.addr \in 0 .. HardLimit /\ b.size \in 0 .. HardLimit
              BY <4>1, <5>1 DEF End
        <5> QED BY <5>1, <5>2 DEF HeapBlock
      <4> QED BY <4>2
    <3> QED BY <3>1, <3>2
  <2> QED BY <2>2, <2>3 DEF TypeOK, Types, AreaType, HeldType, Memory, ThreadType
<1> QED BY <1>1, Inductive, PTL

\* After any sequence of calls the blocks cover the heap without a gap and
\* without overlapping.
THEOREM Tiled == Spec => []BlocksTile
<1>1. IInv => BlocksTile
  <2>1. SUFFICES ASSUME IInv, configured PROVE BlocksTile
        BY DEF BlocksTile
  <2>2. /\ Tiles(blocks, area.base, area.limit) /\ area.base \in Nat /\ area.limit \in Nat
        /\ \A b \in Allocated(blocks) : End(b) <= area.end
        BY <2>1, HeapFacts
  <2>3. ASSUME NEW b \in blocks
        PROVE  /\ b.size > 0 /\ area.base <= b.addr /\ End(b) <= area.limit
               /\ ~b.free => End(b) <= area.end
        BY <2>2, BlockBounds DEF Allocated
  <2>4. ASSUME NEW x \in area.base .. area.limit - 1
        PROVE  \E b \in blocks : b.addr <= x /\ x < End(b)
    <3>1. x \in Nat /\ area.base <= x /\ x < area.limit
          BY <2>2
    <3> QED BY <2>2, <3>1 DEF Tiles, Holds
  <2>5. ASSUME NEW b \in blocks, NEW c \in blocks, b # c
        PROVE  End(b) <= c.addr \/ End(c) <= b.addr
        BY <2>2, <2>5, BlocksApart
  <2> QED BY <2>3, <2>4, <2>5 DEF BlocksTile
<1> QED BY <1>1, Inductive, PTL

\* The allocated blocks are exactly those that users and threads hold.
THEOREM NoLeakNoSharing == Spec => []AllocationsExact
<1>1. IInv => AllocationsExact
  <2>1. SUFFICES ASSUME IInv PROVE AllocationsExact
        OBVIOUS
  <2>2. /\ Types /\ Owned(Allocated(Blocks), held, thread)
        /\ held \in UserMap /\ thread \in ThreadMap /\ area.suggested \in 1 .. HardLimit
        BY <2>1, TypeFacts DEF IInv
  <2>3. Allocated(Blocks) = Allocated(blocks)
    <3>1. CASE configured
          BY <3>1 DEF Blocks
    <3>2. CASE ~configured
      <4>1. HardLimit \in Nat /\ 0 \in 0 .. HardLimit /\ 0 \in 0 .. HardLimit + 1
            BY HeapAssumption
      <4>2. Allocated(AllFree(ResetArea(0, 0))) = {}
            BY <2>2, <4>1, ResetSound
      <4>3. Blocks = AllFree(ResetArea(0, 0))
            BY <3>2 DEF Blocks, Area
      <4> QED BY <2>2, <3>2, <4>2, <4>3 DEF Types, Allocated
    <3> QED BY <3>1, <3>2
  <2>4. {UserBlock(held, u) : u \in Holders(held)} \cup {StackBlock(thread, t) : t \in Owners(thread)}
            = InUse
        BY DEF InUse, Holders, Owners, UserBlock, StackBlock, Taken
  <2>5. {b \in blocks : ~b.free} = InUse
        BY <2>2, <2>3, <2>4 DEF Owned, Allocated
  <2>6. ASSUME NEW u \in Users PROVE u \in Holders(held) \/ held[u].addr = 0
        BY DEF Holders, Nothing
  <2>7. /\ \A u \in Holders(held) : held[u].addr # 0
        /\ \A t \in Owners(thread) : thread[t].stack # 0
        /\ \A u, v \in Holders(held) : held[u].addr = held[v].addr => u = v
        /\ \A t, v \in Owners(thread) : thread[t].stack = thread[v].stack => t = v
        /\ \A u \in Holders(held), t \in Owners(thread) : held[u].addr # thread[t].stack
        BY <2>2 DEF Owned
  <2>8. \A u, v \in Users : held[u] # Nothing /\ held[u].addr = held[v].addr => u = v
    <3>1. \A u \in Users : held[u] # Nothing => u \in Holders(held)
          BY DEF Holders
    <3> QED BY <2>6, <2>7, <3>1
  <2>9. \A t \in Threads : thread[t].owns => t \in Owners(thread)
        BY DEF Owners
  <2> QED BY <2>5, <2>6, <2>7, <2>8, <2>9 DEF AllocationsExact
<1> QED BY <1>1, Inductive, PTL

\* What a user has written to its block stays there while it holds the block.
THEOREM ContentsStay == Spec => []ContentsKept
<1>1. IInv => ContentsKept
      BY DEF IInv, Intact, ContentsKept
<1> QED BY <1>1, Inductive, PTL

\* A running thread that was never terminated owns the stack it runs on.
THEOREM StacksOwned == Spec => []LiveOwnsStack
<1>1. IInv => LiveOwnsStack
      BY DEF IInv, Stacks, LiveOwnsStack
<1> QED BY <1>1, Inductive, PTL

\* If some aligned stretch of the length asked for is free, there is room.
THEOREM FreeRoomFound == Spec => []NoHiddenRoom
<1>1. IInv => NoHiddenRoom
  <2>1. SUFFICES ASSUME IInv, configured, NEW n \in Sizes, NEW a \in Aligns,
                        NEW s \in area.base .. area.limit, s + n <= area.limit, s % a = 0,
                        \A b \in InUse : End(b) <= s \/ s + n <= b.addr
                 PROVE  Room(blocks, n, a)
        BY DEF NoHiddenRoom
  <2>2. /\ Tiles(blocks, area.base, area.limit) /\ Separated(blocks)
        /\ area.base \in Nat /\ area.limit \in Nat
        BY <2>1, HeapFacts
  <2>3. n \in Nat /\ n > 0 /\ a \in Nat /\ a > 0 /\ s \in Nat
        BY <2>2, HeapAssumption
  <2>4. Allocated(blocks) = InUse
    <3>1. Owned(Allocated(blocks), held, thread)
          BY <2>1, HeapFacts
    <3>2. {UserBlock(held, u) : u \in Holders(held)}
              \cup {StackBlock(thread, t) : t \in Owners(thread)} = InUse
          BY DEF InUse, Holders, Owners, UserBlock, StackBlock, Taken
    <3> QED BY <3>1, <3>2 DEF Owned
  <2>5. \A c \in blocks : \A x \in s .. s + n - 1 : Holds(c, x) => c.free
    <3>1. SUFFICES ASSUME NEW c \in blocks, NEW x \in s .. s + n - 1, Holds(c, x), ~c.free
                   PROVE  FALSE
          BY <2>2 DEF Tiles, HeapBlock
    <3>2. End(c) <= s \/ s + n <= c.addr
          BY <2>1, <2>4, <3>1 DEF Allocated
    <3>3. c.addr \in Nat /\ End(c) \in Nat
          BY <2>2, BlockBounds
    <3> QED BY <2>3, <3>1, <3>2, <3>3 DEF Holds
  <2>6. PICK b \in blocks : Holds(b, s)
    <3>1. s < area.limit
          BY <2>1, <2>2, <2>3
    <3> QED BY <2>1, <2>2, <2>3, <3>1 DEF Tiles
  <2>7. b.addr \in Nat /\ End(b) \in Nat /\ b.addr <= s /\ s < End(b)
        BY <2>2, <2>6, BlockBounds DEF Holds
  <2>8. b.free
        BY <2>3, <2>5, <2>6
  <2>9. s + n <= End(b)
    <3>1. SUFFICES ASSUME End(b) < s + n PROVE FALSE
          BY <2>3, <2>7
    <3>2. PICK c \in blocks : Holds(c, End(b))
      <4>1. area.base <= End(b) /\ End(b) < area.limit
            BY <2>1, <2>2, <2>3, <2>7, <3>1
      <4> QED BY <2>2, <2>7, <4>1 DEF Tiles
    <3>3. c.free
      <4>1. End(b) \in s .. s + n - 1
            BY <2>3, <2>7, <3>1
      <4> QED BY <2>5, <3>2, <4>1
    <3>4. c # b /\ c.addr \in Nat /\ End(c) \in Nat /\ c.addr <= End(b) /\ End(b) < End(c)
          BY <2>2, <2>7, <3>2, BlockBounds DEF Holds
    <3>5. End(b) <= c.addr \/ End(c) <= b.addr
          BY <2>2, <3>4, BlocksApart
    <3>6. End(b) = c.addr
          BY <2>7, <3>4, <3>5
    <3> QED BY <2>2, <2>8, <3>3, <3>6 DEF Separated
  <2> DEFINE F == {r \in b.addr .. s : r % a = 0}
  <2>10. F \subseteq Nat /\ s \in F
         BY <2>1, <2>3, <2>7
  <2>11. PICK r \in F : \A q \in F : r <= q
         BY <2>10, LeastElement, ZenonT(40)
  <2>12. r \in Nat /\ b.addr <= r /\ r <= s /\ r % a = 0
         BY <2>7, <2>11
  <2>13. \A q \in b.addr .. r - 1 : q % a # 0
    <3>1. SUFFICES ASSUME NEW q \in b.addr .. r - 1, q % a = 0 PROVE FALSE
          OBVIOUS
    <3>2. q \in b.addr .. s /\ q < r /\ q \in Nat
          BY <2>3, <2>7, <2>12
    <3>3. q \in F
          BY <3>1, <3>2
    <3> QED BY <2>11, <2>12, <3>2, <3>3
  <2>14. r \in b.addr .. End(b) /\ r + n <= End(b)
         BY <2>3, <2>7, <2>9, <2>12
  <2>15. r \in AlignedIn(b, a)
         BY <2>12, <2>13, <2>14 DEF AlignedIn
  <2> QED BY <2>8, <2>14, <2>15 DEF Room, Fits
<1> QED BY <1>1, Inductive, PTL
=============================================================================
