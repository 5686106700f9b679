------------------------- MODULE LibraryCallsProofs -------------------------
(***************************************************************************)
(* Proofs about the two components that serve library calls: GuestCalls,   *)
(* for any threads, clients and servers and any depth of frames, and       *)
(* MoviePlayback, for any threads, handles, films and buffers.             *)
(***************************************************************************)
EXTENDS GuestCalls, MoviePlayback, KernelListsProofs

(***************************************************************************)
(* GuestCalls: the inductive invariant.                                    *)
(***************************************************************************)
Depths(t) == 1 .. Len(frames[t])
Carrying(f) == f.kind \in {"server", "end"}

\* A client's call is at one place, and a call whose thread has ended at none.
CarriedOnce ==
    \A t, u \in All : \A i \in Depths(t), j \in Depths(u) :
        /\ Carrying(frames[t][i]) /\ Carrying(frames[u][j])
        /\ frames[t][i].client = frames[u][j].client
        => t = u /\ i = j

AbandonedGone == \A c \in abandoned : ~Outstanding(c)

\* Server s works for the frame at depth i of thread t.
Uses(t, i, s) == frames[t][i].kind = "server" /\ frames[t][i].source = s

\* A server's buffer is its client's, unless the call shares it with another.
BufferHeld ==
    \A s \in Servers, t \in All : \A i \in Depths(t) :
        Uses(t, i, s) => \/ frames[t][i].client \in overlapped
                         \/ buffer[s] = frames[t][i].client

SharingKnown ==
    \A s \in Servers, t, u \in All : \A i \in Depths(t), j \in Depths(u) :
        Uses(t, i, s) /\ Uses(u, j, s) /\ ~(t = u /\ i = j)
            => frames[t][i].client \in overlapped

CallsInv == BusyExact /\ CarriedOnce /\ AbandonedGone /\ BufferHeld /\ SharingKnown /\ RepliesMatch

\* Frames get the area of the depth at which they are put; the handlers of an
\* exit lie together, numbered from below, on the area of the first of them.
Layout(q) ==
    \A i \in 1 .. Len(q) :
        /\ q[i].kind # "exit" => q[i].stack \in {Own, i - 1}
        /\ q[i].kind = "exit" =>
              /\ q[i].rest < i /\ q[i].stack = i - 1 - q[i].rest
              /\ \A k \in 0 .. q[i].rest : q[i - k].kind = "exit" /\ q[i - k].rest = q[i].rest - k

\* The handlers owed are those of the latest exit.
ExitsOwed(q, o) ==
    /\ (\A i \in 1 .. Len(q) : q[i].kind # "exit") => o = <<>>
    /\ \A i \in 1 .. Len(q) :
          q[i].kind = "exit" /\ (\A j \in i + 1 .. Len(q) : q[j].kind # "exit") =>
             /\ Len(o) = q[i].rest + 1
             /\ \A k \in 0 .. q[i].rest : q[i - k].function = o[k + 1]

ExitsInv ==
    /\ \A t \in All : Layout(frames[t]) /\ ExitsOwed(frames[t], owed[t])
    /\ \A t \in All : ~alive[t] => owed[t] = <<>>

IInv == TypeOK /\ CallsInv /\ ExitsInv

(***************************************************************************)
(* Frames.                                                                 *)
(***************************************************************************)
LEMMA FrameFacts ==
    ASSUME NEW f \in Frame
    PROVE  /\ f.kind \in {"handler", "override", "exit", "server", "end"}
           /\ Carrying(f) => f.client \in Clients
           /\ f.kind = "server" => f.source \in Servers \cup {Own}
           /\ f.kind = "exit" => f.rest \in Nat /\ f.function \in Handlers
BY DEF Frame, Carrying

LEMMA NewFrames ==
    ASSUME NEW stack \in FrameStacks
    PROVE  /\ HandlerFrame(stack) \in Frame /\ HandlerFrame(stack).kind = "handler"
           /\ HandlerFrame(stack).stack = stack
           /\ \A n \in Numbers : /\ OverrideFrame(n, stack) \in Frame
                                 /\ OverrideFrame(n, stack).kind = "override"
                                 /\ OverrideFrame(n, stack).stack = stack
           /\ \A h \in Handlers, r \in Nat :
                 /\ ExitFrame(h, r, stack) \in Frame /\ ExitFrame(h, r, stack).kind = "exit"
                 /\ ExitFrame(h, r, stack).function = h /\ ExitFrame(h, r, stack).rest = r
                 /\ ExitFrame(h, r, stack).stack = stack
           /\ \A c \in Clients, s \in Servers \cup {Own} :
                 /\ ServerFrame(c, s, stack) \in Frame /\ ServerFrame(c, s, stack).kind = "server"
                 /\ ServerFrame(c, s, stack).client = c /\ ServerFrame(c, s, stack).source = s
                 /\ ServerFrame(c, s, stack).stack = stack
           /\ \A c \in Clients :
                 /\ EndFrame(c, stack) \in Frame /\ EndFrame(c, stack).kind = "end"
                 /\ EndFrame(c, stack).client = c /\ EndFrame(c, stack).stack = stack
BY DEF HandlerFrame, OverrideFrame, ExitFrame, ServerFrame, EndFrame, Frame

LEMMA StackTops ==
    ASSUME NEW q \in Seq(Frame)
    PROVE  StackTop(Len(q)) \in FrameStacks /\ StackTop(Len(q)) = Len(q) /\ Own \in FrameStacks
BY DEF StackTop, FrameStacks

\* The running function's frame goes.
LEMMA PopLayout ==
    ASSUME NEW q \in Seq(Frame), q # <<>>, Layout(q)
    PROVE  Layout(Front(q))
<1> DEFINE p == Front(q)
<1>1. /\ Len(q) \in Nat \ {0} /\ Len(p) = Len(q) - 1
      /\ \A i \in 1 .. Len(q) - 1 : p[i] = q[i]
      BY FrontFacts
<1> HIDE DEF p
<1>2. \A i \in 1 .. Len(q) : q[i].kind = "exit" => q[i].rest \in Nat
      BY FrameFacts
<1>3. ASSUME NEW i \in 1 .. Len(p), p[i].kind = "exit"
      PROVE  /\ p[i].rest < i /\ p[i].stack = i - 1 - p[i].rest
             /\ \A k \in 0 .. p[i].rest : p[i - k].kind = "exit" /\ p[i - k].rest = p[i].rest - k
  <2>1. i \in 1 .. Len(q) /\ p[i] = q[i] /\ q[i].kind = "exit"
        BY <1>1, <1>3
  <2>2. /\ q[i].rest \in Nat /\ q[i].rest < i /\ q[i].stack = i - 1 - q[i].rest
        /\ \A k \in 0 .. q[i].rest : q[i - k].kind = "exit" /\ q[i - k].rest = q[i].rest - k
        BY <1>2, <2>1 DEF Layout
  <2>3. \A k \in 0 .. q[i].rest : i - k \in 1 .. Len(q) - 1
        BY <1>1, <2>2
  <2> QED BY <1>1, <2>1, <2>2, <2>3
<1>4. \A i \in 1 .. Len(p) : p[i].kind # "exit" => p[i].stack \in {Own, i - 1}
      BY <1>1 DEF Layout
<1> QED BY <1>3, <1>4 DEF Layout, p

\* A frame that is no exit handler is put.
LEMMA PushLayout ==
    ASSUME NEW q \in Seq(Frame), Layout(q), NEW f \in Frame,
           f.kind # "exit", f.stack \in {Own, Len(q)}
    PROVE  Layout(Append(q, f))
<1> DEFINE p == Append(q, f)
<1>1. /\ Len(q) \in Nat /\ Len(p) = Len(q) + 1 /\ p[Len(q) + 1] = f
      /\ \A i \in 1 .. Len(q) : p[i] = q[i]
      OBVIOUS
<1> HIDE DEF p
<1>2. \A i \in 1 .. Len(q) : q[i].kind = "exit" => q[i].rest \in Nat
      BY FrameFacts
<1>3. ASSUME NEW i \in 1 .. Len(p)
      PROVE  /\ p[i].kind # "exit" => p[i].stack \in {Own, i - 1}
             /\ p[i].kind = "exit" =>
                   /\ p[i].rest < i /\ p[i].stack = i - 1 - p[i].rest
                   /\ \A k \in 0 .. p[i].rest : p[i - k].kind = "exit" /\ p[i - k].rest = p[i].rest - k
  <2>1. CASE i = Len(q) + 1
        BY <1>1, <2>1
  <2>2. CASE i \in 1 .. Len(q) /\ q[i].kind # "exit"
        BY <1>1, <2>2 DEF Layout
  <2>3. CASE i \in 1 .. Len(q) /\ q[i].kind = "exit"
    <3>1. /\ q[i].rest \in Nat /\ q[i].rest < i /\ q[i].stack = i - 1 - q[i].rest
          /\ \A k \in 0 .. q[i].rest : q[i - k].kind = "exit" /\ q[i - k].rest = q[i].rest - k
          BY <1>2, <2>3 DEF Layout
    <3>2. \A k \in 0 .. q[i].rest : i - k \in 1 .. Len(q)
          BY <2>3, <3>1
    <3> QED BY <1>1, <2>3, <3>1, <3>2
  <2> QED BY <1>1, <2>1, <2>2, <2>3
<1> QED BY <1>3 DEF Layout, p

LEMMA PopOwed ==
    ASSUME NEW q \in Seq(Frame), q # <<>>, Layout(q), NEW o, ExitsOwed(q, o), Last(q).kind # "exit"
    PROVE  ExitsOwed(Front(q), o)
<1> DEFINE p == Front(q)
<1>1. /\ Len(q) \in Nat \ {0} /\ Len(p) = Len(q) - 1 /\ q[Len(q)].kind # "exit"
      /\ \A i \in 1 .. Len(q) - 1 : p[i] = q[i]
      BY FrontFacts
<1> HIDE DEF p
<1>2. \A i \in 1 .. Len(q) : q[i].kind = "exit" => q[i].rest \in Nat /\ q[i].rest < i
      BY FrameFacts DEF Layout
<1>3. ASSUME \A i \in 1 .. Len(p) : p[i].kind # "exit"
      PROVE  o = <<>>
      BY <1>1, <1>3 DEF ExitsOwed
<1>4. ASSUME NEW i \in 1 .. Len(p), p[i].kind = "exit", \A j \in i + 1 .. Len(p) : p[j].kind # "exit"
      PROVE  Len(o) = p[i].rest + 1 /\ \A k \in 0 .. p[i].rest : p[i - k].function = o[k + 1]
  <2>1. i \in 1 .. Len(q) /\ i \in 1 .. Len(q) - 1 /\ q[i].kind = "exit"
        BY <1>1, <1>4
  <2>2. \A j \in i + 1 .. Len(q) : q[j].kind # "exit"
        BY <1>1, <1>4
  <2>3. Len(o) = q[i].rest + 1 /\ \A k \in 0 .. q[i].rest : q[i - k].function = o[k + 1]
        BY <2>1, <2>2 DEF ExitsOwed
  <2>4. \A k \in 0 .. q[i].rest : i - k \in 1 .. Len(q) - 1
        BY <1>2, <2>1
  <2> QED BY <1>1, <2>1, <2>3, <2>4
<1> QED BY <1>3, <1>4 DEF ExitsOwed, p

LEMMA PushOwed ==
    ASSUME NEW q \in Seq(Frame), Layout(q), NEW f \in Frame, NEW o, ExitsOwed(q, o), f.kind # "exit"
    PROVE  ExitsOwed(Append(q, f), o)
<1> DEFINE p == Append(q, f)
<1>1. /\ Len(q) \in Nat /\ Len(p) = Len(q) + 1 /\ p[Len(q) + 1] = f
      /\ \A i \in 1 .. Len(q) : p[i] = q[i]
      OBVIOUS
<1> HIDE DEF p
<1>2. \A i \in 1 .. Len(q) : q[i].kind = "exit" => q[i].rest \in Nat /\ q[i].rest < i
      BY FrameFacts DEF Layout
<1>3. ASSUME \A i \in 1 .. Len(p) : p[i].kind # "exit"
      PROVE  o = <<>>
  <2>1. \A i \in 1 .. Len(q) : q[i].kind # "exit"
        BY <1>1, <1>3
  <2> QED BY <2>1 DEF ExitsOwed
<1>4. ASSUME NEW i \in 1 .. Len(p), p[i].kind = "exit", \A j \in i + 1 .. Len(p) : p[j].kind # "exit"
      PROVE  Len(o) = p[i].rest + 1 /\ \A k \in 0 .. p[i].rest : p[i - k].function = o[k + 1]
  <2>1. i \in 1 .. Len(q) /\ q[i].kind = "exit"
        BY <1>1, <1>4
  <2>2. \A j \in i + 1 .. Len(q) : q[j].kind # "exit"
        BY <1>1, <1>4
  <2>3. Len(o) = q[i].rest + 1 /\ \A k \in 0 .. q[i].rest : q[i - k].function = o[k + 1]
        BY <2>1, <2>2 DEF ExitsOwed
  <2>4. \A k \in 0 .. q[i].rest : i - k \in 1 .. Len(q)
        BY <1>2, <2>1
  <2> QED BY <1>1, <2>1, <2>3, <2>4
<1> QED BY <1>3, <1>4 DEF ExitsOwed, p

\* The exit handler that runs returns, and is not the last.
LEMMA NextOwed ==
    ASSUME NEW q \in Seq(Frame), q # <<>>, Layout(q), NEW o \in Seq(Handlers), ExitsOwed(q, o),
           Last(q).kind = "exit", Last(q).rest > 0
    PROVE  ExitsOwed(Front(q), Tail(o))
<1> DEFINE p == Front(q)
           n == Len(q)
           r == q[n].rest
           u == Tail(o)
<1>1. /\ n \in Nat \ {0} /\ Len(p) = n - 1 /\ q[n].kind = "exit" /\ r > 0
      /\ \A i \in 1 .. n - 1 : p[i] = q[i]
      BY FrontFacts
<1>2. r \in Nat /\ r < n /\ \A k \in 0 .. r : q[n - k].kind = "exit" /\ q[n - k].rest = r - k
      BY <1>1, FrameFacts DEF Layout
<1>3. Len(o) = r + 1 /\ \A k \in 0 .. r : q[n - k].function = o[k + 1]
      BY <1>1 DEF ExitsOwed
<1>4. o # <<>> /\ Len(u) = r /\ \A k \in 1 .. r : u[k] = o[k + 1]
      BY <1>2, <1>3
<1> HIDE DEF p, u
<1>5. n - 1 \in 1 .. n - 1 /\ p[n - 1] = q[n - 1] /\ q[n - 1].kind = "exit" /\ q[n - 1].rest = r - 1
  <2>1. 1 \in 0 .. r
        BY <1>1, <1>2
  <2> QED BY <1>1, <1>2, <2>1
<1>6. ASSUME NEW i \in 1 .. Len(p), p[i].kind = "exit", \A j \in i + 1 .. Len(p) : p[j].kind # "exit"
      PROVE  Len(u) = p[i].rest + 1 /\ \A k \in 0 .. p[i].rest : p[i - k].function = u[k + 1]
  <2>1. i = n - 1
        BY <1>1, <1>5, <1>6
  <2>2. \A k \in 0 .. r - 1 : /\ n - 1 - k \in 1 .. n - 1 /\ k + 1 \in 0 .. r /\ k + 1 \in 1 .. r
                              /\ n - 1 - k = n - (k + 1)
        BY <1>1, <1>2
  <2>3. ASSUME NEW k \in 0 .. r - 1
        PROVE  p[n - 1 - k].function = u[k + 1]
    <3>1. /\ n - 1 - k \in 1 .. n - 1 /\ k + 1 \in 0 .. r /\ k + 1 \in 1 .. r
          /\ n - 1 - k = n - (k + 1)
          BY <2>2
    <3>2. p[n - 1 - k] = q[n - (k + 1)]
          BY <1>1, <3>1
    <3>3. u[k + 1] = o[(k + 1) + 1] /\ q[n - (k + 1)].function = o[(k + 1) + 1]
          BY <1>3, <1>4, <3>1
    <3> QED BY <3>2, <3>3
  <2> QED BY <1>1, <1>2, <1>4, <1>5, <2>1, <2>3
<1>7. ~ \A i \in 1 .. Len(p) : p[i].kind # "exit"
      BY <1>1, <1>5
<1> QED BY <1>6, <1>7 DEF ExitsOwed, p, u

\* An exit puts the frames of its handlers.
LEMMA StackedFacts ==
    ASSUME NEW q \in Seq(Frame), NEW b \in Seq(Handlers)
    PROVE  LET p == q \o Stacked(b, Len(q)) IN
           /\ p \in Seq(Frame) /\ Len(p) = Len(q) + Len(b)
           /\ \A i \in 1 .. Len(q) : p[i] = q[i]
           /\ \A i \in Len(q) + 1 .. Len(q) + Len(b) :
                 /\ p[i].kind = "exit" /\ p[i].rest = i - 1 - Len(q) /\ p[i].stack = Len(q)
                 /\ p[i].function = b[Len(q) + Len(b) + 1 - i]
<1> DEFINE w == Stacked(b, Len(q))
           p == q \o w
<1>1. Len(q) \in Nat /\ Len(b) \in Nat /\ StackTop(Len(q)) = Len(q) /\ Len(q) \in FrameStacks
      BY StackTops
<1>2. \A i \in 1 .. Len(b) : /\ i - 1 \in Nat /\ Len(b) + 1 - i \in 1 .. Len(b)
                             /\ b[Len(b) + 1 - i] \in Handlers
      BY <1>1
<1>3. w = [i \in 1 .. Len(b) |-> ExitFrame(b[Len(b) + 1 - i], i - 1, Len(q))]
      BY <1>1 DEF Stacked
<1>4. \A i \in 1 .. Len(b) :
         /\ w[i] \in Frame /\ w[i].kind = "exit" /\ w[i].rest = i - 1 /\ w[i].stack = Len(q)
         /\ w[i].function = b[Len(b) + 1 - i]
      BY <1>1, <1>2, <1>3, NewFrames
<1>5. w \in Seq(Frame) /\ Len(w) = Len(b)
      BY <1>1, <1>3, <1>4
<1> HIDE DEF w
<1>6. p \in Seq(Frame) /\ Len(p) = Len(q) + Len(b)
      BY <1>5
<1>7. \A i \in 1 .. Len(q) : p[i] = q[i]
      BY <1>5
<1>8. \A i \in Len(q) + 1 .. Len(q) + Len(b) : p[i] = w[i - Len(q)]
      BY <1>5
<1> HIDE DEF p
<1>9. ASSUME NEW i \in Len(q) + 1 .. Len(q) + Len(b)
      PROVE  /\ p[i].kind = "exit" /\ p[i].rest = i - 1 - Len(q) /\ p[i].stack = Len(q)
             /\ p[i].function = b[Len(q) + Len(b) + 1 - i]
  <2>1. i - Len(q) \in 1 .. Len(b) /\ (i - Len(q)) - 1 = i - 1 - Len(q)
        /\ Len(b) + 1 - (i - Len(q)) = Len(q) + Len(b) + 1 - i
        BY <1>1
  <2> QED BY <1>4, <1>8, <2>1
<1> QED BY <1>6, <1>7, <1>9 DEF p, w

LEMMA StackedLayout ==
    ASSUME NEW q \in Seq(Frame), Layout(q), NEW b \in Seq(Handlers), b # <<>>
    PROVE  /\ Layout(q \o Stacked(b, Len(q)))
           /\ ExitsOwed(q \o Stacked(b, Len(q)), b)
<1> DEFINE p == q \o Stacked(b, Len(q))
           n == Len(q)
           m == Len(b)
<1>1. n \in Nat /\ m \in Nat \ {0} /\ Len(b) = m
      OBVIOUS
<1>2. /\ Len(p) = n + m /\ \A i \in 1 .. n : p[i] = q[i]
      /\ \A i \in n + 1 .. n + m :
            /\ p[i].kind = "exit" /\ p[i].rest = i - 1 - n /\ p[i].stack = n
            /\ p[i].function = b[n + m + 1 - i]
      BY StackedFacts
<1> HIDE DEF p, n, m
<1>3. \A i \in 1 .. n : q[i].kind = "exit" => q[i].rest \in Nat
      BY FrameFacts DEF n
<1>4. ASSUME NEW i \in 1 .. n + m
      PROVE  /\ p[i].kind # "exit" => p[i].stack \in {Own, i - 1}
             /\ p[i].kind = "exit" =>
                   /\ p[i].rest < i /\ p[i].stack = i - 1 - p[i].rest
                   /\ \A k \in 0 .. p[i].rest : p[i - k].kind = "exit" /\ p[i - k].rest = p[i].rest - k
  <2>1. CASE i \in n + 1 .. n + m
    <3>1. \A k \in 0 .. i - 1 - n : i - k \in n + 1 .. n + m /\ (i - k) - 1 - n = (i - 1 - n) - k
          BY <1>1, <2>1
    <3>2. i - 1 - n < i /\ n = i - 1 - (i - 1 - n)
          BY <1>1, <2>1
    <3> QED BY <1>2, <2>1, <3>1, <3>2
  <2>2. CASE i \in 1 .. n /\ q[i].kind # "exit"
        BY <1>2, <2>2 DEF Layout, n
  <2>3. CASE i \in 1 .. n /\ q[i].kind = "exit"
    <3>1. /\ q[i].rest \in Nat /\ q[i].rest < i /\ q[i].stack = i - 1 - q[i].rest
          /\ \A k \in 0 .. q[i].rest : q[i - k].kind = "exit" /\ q[i - k].rest = q[i].rest - k
          BY <1>3, <2>3 DEF Layout, n
    <3>2. \A k \in 0 .. q[i].rest : i - k \in 1 .. n
          BY <1>1, <2>3, <3>1
    <3> QED BY <1>2, <2>3, <3>1, <3>2
  <2> QED BY <1>1, <2>1, <2>2, <2>3
<1>5. Layout(p)
      BY <1>2, <1>4 DEF Layout
<1>6. ASSUME NEW i \in 1 .. n + m, p[i].kind = "exit", \A j \in i + 1 .. n + m : p[j].kind # "exit"
      PROVE  m = p[i].rest + 1 /\ \A k \in 0 .. p[i].rest : p[i - k].function = b[k + 1]
  <2>1. n + m \in n + 1 .. n + m
        BY <1>1
  <2>2. i = n + m
        BY <1>1, <1>2, <1>6, <2>1
  <2>3. \A k \in 0 .. m - 1 : n + m - k \in n + 1 .. n + m /\ n + m + 1 - (n + m - k) = k + 1
        BY <1>1
  <2>4. p[i].rest = m - 1
        BY <1>1, <1>2, <2>1, <2>2
  <2>5. ASSUME NEW k \in 0 .. m - 1
        PROVE  p[n + m - k].function = b[k + 1]
        BY <1>2, <2>3
  <2> QED BY <1>1, <2>2, <2>4, <2>5
<1>7. n + m \in n + 1 .. n + m /\ n + m \in 1 .. n + m
      BY <1>1
<1>8. ExitsOwed(p, b)
  <2>1. p[n + m].kind = "exit"
        BY <1>2, <1>7
  <2> QED BY <1>1, <1>2, <1>6, <1>7, <2>1 DEF ExitsOwed
<1> QED BY <1>5, <1>8 DEF p, n

(***************************************************************************)
(* The frames of all threads.                                              *)
(***************************************************************************)
HeldIn(F, c) ==
    \E t \in All : \E i \in 1 .. Len(F[t]) : Carrying(F[t][i]) /\ F[t][i].client = c

LEMMA CarriedIn ==
    ASSUME NEW F \in [All -> Seq(Frame)], NEW c
    PROVE  (\E t \in All : \E i \in DOMAIN F[t] : Carries(F[t][i], c)) <=> HeldIn(F, c)
<1>1. \A t \in All : F[t] \in Seq(Frame) /\ DOMAIN F[t] = 1 .. Len(F[t])
      OBVIOUS
<1> QED BY <1>1 DEF Carries, Carrying, HeldIn

LEMMA OutstandingHeld ==
    ASSUME TypeOK
    PROVE  \A c : Outstanding(c) <=> HeldIn(frames, c)
BY CarriedIn DEF TypeOK, Outstanding

LEMMA OutstandingHeldNext ==
    ASSUME TypeOK'
    PROVE  \A c : Outstanding(c)' <=> HeldIn(frames', c)
BY CarriedIn DEF TypeOK, Outstanding

LEMMA ServedFacts ==
    ASSUME TypeOK, NEW s
    PROVE  /\ Served(s) \subseteq Clients
           /\ \A t \in All : \A i \in Depths(t) : Uses(t, i, s) => frames[t][i].client \in Served(s)
<1>1. ASSUME NEW t \in All, NEW i \in Depths(t), Uses(t, i, s)
      PROVE  frames[t][i].client \in Served(s)
  <2>1. frames[t] \in Seq(Frame) /\ i \in DOMAIN frames[t] /\ frames[t][i] \in Frame
        BY <1>1 DEF TypeOK, Depths
  <2>2. frames[t][i].client \in Clients /\ Carries(frames[t][i], frames[t][i].client)
        BY <1>1, <2>1, FrameFacts DEF Uses, Carries, Carrying
  <2> QED BY <1>1, <2>1, <2>2 DEF Served, Uses
<1> QED BY <1>1 DEF Served

\* One thread's frames change: below them a part of what was there, and
\* above it one frame more or none.
LEMMA Changed ==
    ASSUME TypeOK, NEW t \in All, NEW q \in Seq(Frame), frames' = [frames EXCEPT ![t] = q]
    PROVE  /\ frames' \in [All -> Seq(Frame)] /\ frames'[t] = q
           /\ \A u \in All : u # t => frames'[u] = frames[u]
BY DEF TypeOK

LEMMA PushFacts ==
    ASSUME NEW q \in Seq(Frame), NEW f \in Frame
    PROVE  /\ Append(q, f) \in Seq(Frame) /\ Len(Append(q, f)) = Len(q) + 1
           /\ Append(q, f)[Len(q) + 1] = f
           /\ \A i \in 1 .. Len(q) : Append(q, f)[i] = q[i]
OBVIOUS

LEMMA FramesOf ==
    ASSUME TypeOK, NEW t \in All
    PROVE  /\ frames[t] \in Seq(Frame) /\ Depths(t) = 1 .. Len(frames[t]) /\ Len(frames[t]) \in Nat
           /\ \A i \in Depths(t) : frames[t][i] \in Frame
           /\ owed[t] \in Seq(Handlers) /\ exitHandlers[t] \in Seq(Handlers)
BY DEF TypeOK, Depths

LEMMA SameExits ==
    ASSUME TypeOK, ExitsInv, NEW t \in All, frames' \in [All -> Seq(Frame)],
           \A u \in All : u # t => frames'[u] = frames[u] /\ owed'[u] = owed[u] /\ alive'[u] = alive[u],
           Layout(frames'[t]), ExitsOwed(frames'[t], owed'[t]), ~alive'[t] => frames'[t] = <<>>
    PROVE  ExitsInv'
<1>1. ASSUME frames'[t] = <<>>
      PROVE  owed'[t] = <<>>
      BY <1>1 DEF ExitsOwed
<1> QED BY <1>1 DEF ExitsInv

(***************************************************************************)
(* Calls, when a thread's frames change.                                   *)
(***************************************************************************)
\* The frames that carry calls stay where they are.
LEMMA SameCarriers ==
    ASSUME TypeOK, TypeOK', CallsInv, UNCHANGED <<busy, buffer, overlapped, abandoned, misled>>,
           \A u \in All : \A i \in 1 .. Len(frames'[u]) :
               Carrying(frames'[u][i]) => i \in 1 .. Len(frames[u]) /\ frames[u][i] = frames'[u][i],
           \A u \in All : \A i \in 1 .. Len(frames[u]) :
               Carrying(frames[u][i]) => i \in 1 .. Len(frames'[u]) /\ frames'[u][i] = frames[u][i]
    PROVE  CallsInv'
<1>1. \A c : Outstanding(c)' <=> Outstanding(c)
      BY OutstandingHeld, OutstandingHeldNext DEF HeldIn
<1>2. BusyExact' /\ AbandonedGone' /\ RepliesMatch'
      BY <1>1 DEF CallsInv, BusyExact, AbandonedGone, RepliesMatch
<1>3. CarriedOnce'
  <2>1. SUFFICES ASSUME NEW u \in All, NEW v \in All, NEW i \in 1 .. Len(frames'[u]),
                        NEW j \in 1 .. Len(frames'[v]),
                        Carrying(frames'[u][i]), Carrying(frames'[v][j]),
                        frames'[u][i].client = frames'[v][j].client
                 PROVE  u = v /\ i = j
        BY DEF CarriedOnce, Depths
  <2>2. /\ i \in Depths(u) /\ frames[u][i] = frames'[u][i]
        /\ j \in Depths(v) /\ frames[v][j] = frames'[v][j]
        BY <2>1 DEF Depths
  <2>3. /\ Carrying(frames[u][i]) /\ Carrying(frames[v][j])
        /\ frames[u][i].client = frames[v][j].client
        BY <2>1, <2>2, Zenon
  <2>4. CarriedOnce
        BY DEF CallsInv
  <2>5. \A a \in Depths(u), b \in Depths(v) :
           /\ Carrying(frames[u][a]) /\ Carrying(frames[v][b])
           /\ frames[u][a].client = frames[v][b].client
           => u = v /\ a = b
        BY <2>4, Zenon DEF CarriedOnce
  <2> QED BY ONLY <2>2, <2>3, <2>5, Zenon
<1>4. \A s \in Servers, u \in All : \A i \in 1 .. Len(frames'[u]) :
         Uses(u, i, s)' => i \in Depths(u) /\ Uses(u, i, s) /\ frames'[u][i].client = frames[u][i].client
      BY DEF Depths, Uses, Carrying
<1>5. BufferHeld'
      BY <1>4 DEF CallsInv, BufferHeld, Depths
<1>6. SharingKnown'
      BY <1>4 DEF CallsInv, SharingKnown, Depths
<1> QED BY <1>2, <1>3, <1>5, <1>6 DEF CallsInv

\* All frames of a thread go, with the calls they carry.
LEMMA CallsOfDormant ==
    ASSUME TypeOK, TypeOK', CallsInv, UNCHANGED <<busy, buffer, overlapped, misled>>,
           NEW t \in All, NEW n \in 0 .. Len(frames[t]), Dormant(t, n),
           \A i \in 1 .. Len(frames[t]) : i > n => ~Carrying(frames[t][i])
    PROVE  CallsInv'
<1> DEFINE Gone == {c \in Clients : \E i \in 1 .. n : Carries(frames[t][i], c)}
<1>1. /\ frames[t] \in Seq(Frame) /\ Len(frames[t]) \in Nat
      /\ \A i \in 1 .. Len(frames[t]) : frames[t][i] \in Frame
      BY FramesOf
<1>2. frames'[t] = <<>> /\ Len(frames'[t]) = 0 /\ \A u \in All : u # t => frames'[u] = frames[u]
  <2>1. <<>> \in Seq(Frame)
        OBVIOUS
  <2> QED BY <2>1, Changed DEF Dormant
<1>3. abandoned' = abandoned \cup Gone
      BY DEF Dormant
<1>4. \A c \in Clients : c \in Gone <=>
         \E i \in 1 .. Len(frames[t]) : Carrying(frames[t][i]) /\ frames[t][i].client = c
  <2>1. \A i \in 1 .. n : i \in 1 .. Len(frames[t])
        BY <1>1
  <2>2. \A i \in 1 .. Len(frames[t]) : Carrying(frames[t][i]) => i \in 1 .. n
        BY <1>1
  <2> QED BY <2>1, <2>2 DEF Carries, Carrying
<1> HIDE DEF Gone
<1>5. \A c \in Clients : HeldIn(frames, c) <=> (HeldIn(frames', c) \/ c \in Gone)
  <2>1. ASSUME NEW c \in Clients, HeldIn(frames, c)
        PROVE  HeldIn(frames', c) \/ c \in Gone
    <3>1. PICK u \in All : \E i \in 1 .. Len(frames[u]) : Carrying(frames[u][i]) /\ frames[u][i].client = c
          BY <2>1 DEF HeldIn
    <3>2. CASE u = t
          BY <1>4, <3>1, <3>2
    <3>3. CASE u # t
          BY <1>2, <3>1, <3>3 DEF HeldIn
    <3> QED BY <3>2, <3>3
  <2>2. ASSUME NEW c \in Clients, HeldIn(frames', c)
        PROVE  HeldIn(frames, c)
    <3>1. PICK u \in All : \E i \in 1 .. Len(frames'[u]) : Carrying(frames'[u][i]) /\ frames'[u][i].client = c
          BY <2>2 DEF HeldIn
    <3> QED BY <1>2, <3>1 DEF HeldIn
  <2>3. ASSUME NEW c \in Clients, c \in Gone
        PROVE  HeldIn(frames, c)
        BY <1>4, <2>3 DEF HeldIn
  <2> QED BY <2>1, <2>2, <2>3
<1>6. \A c \in Gone : c \in Clients /\ ~HeldIn(frames', c)
  <2>1. SUFFICES ASSUME NEW c \in Gone, HeldIn(frames', c)
                 PROVE  FALSE
        BY DEF Gone
  <2>2. c \in Clients
        BY DEF Gone
  <2>3. PICK i \in 1 .. Len(frames[t]) : Carrying(frames[t][i]) /\ frames[t][i].client = c
        BY <1>4, <2>2
  <2>4. PICK u \in All : \E j \in 1 .. Len(frames'[u]) : Carrying(frames'[u][j]) /\ frames'[u][j].client = c
        BY <2>1 DEF HeldIn
  <2>5. u # t /\ frames'[u] = frames[u]
        BY <1>2, <2>4
  <2> QED BY <2>3, <2>4, <2>5 DEF CallsInv, CarriedOnce, Depths
<1>7. BusyExact'
      BY <1>3, <1>5, OutstandingHeld, OutstandingHeldNext DEF CallsInv, BusyExact
<1>8. AbandonedGone'
  <2>1. \A c \in abandoned : c \in Clients
        BY DEF TypeOK
  <2> QED BY <1>3, <1>5, <1>6, <2>1, OutstandingHeld, OutstandingHeldNext DEF CallsInv, AbandonedGone
<1>9. \A u \in All : \A i \in 1 .. Len(frames'[u]) : i \in Depths(u) /\ frames'[u][i] = frames[u][i]
      BY <1>2 DEF Depths
<1>10. CarriedOnce' /\ RepliesMatch'
  <2>1. SUFFICES ASSUME NEW u \in All, NEW v \in All, NEW i \in 1 .. Len(frames'[u]),
                        NEW j \in 1 .. Len(frames'[v]),
                        Carrying(frames'[u][i]), Carrying(frames'[v][j]),
                        frames'[u][i].client = frames'[v][j].client
                 PROVE  u = v /\ i = j
        BY DEF CarriedOnce, Depths, CallsInv, RepliesMatch
  <2>2. /\ i \in Depths(u) /\ frames[u][i] = frames'[u][i]
        /\ j \in Depths(v) /\ frames[v][j] = frames'[v][j]
        BY <1>9
  <2> QED BY <2>1, <2>2 DEF CallsInv, CarriedOnce
<1>11. BufferHeld' /\ SharingKnown'
  <2>1. \A s \in Servers, u \in All : \A i \in 1 .. Len(frames'[u]) :
           Uses(u, i, s)' => i \in Depths(u) /\ Uses(u, i, s) /\ frames'[u][i].client = frames[u][i].client
        BY <1>9 DEF Uses
  <2>2. BufferHeld'
        BY <2>1 DEF CallsInv, BufferHeld, Depths
  <2>3. SharingKnown'
        BY <2>1 DEF CallsInv, SharingKnown, Depths
  <2> QED BY <2>2, <2>3
<1> QED BY <1>7, <1>8, <1>10, <1>11 DEF CallsInv

\* Only the frames that carry client c's call change: it gets one, or its
\* last one goes, or another takes the place.
Others(c) ==
    /\ \A u \in All : \A i \in 1 .. Len(frames'[u]) :
           Carrying(frames'[u][i]) /\ frames'[u][i].client # c
               => i \in 1 .. Len(frames[u]) /\ frames[u][i] = frames'[u][i]
    /\ \A u \in All : \A i \in 1 .. Len(frames[u]) :
           Carrying(frames[u][i]) /\ frames[u][i].client # c
               => i \in 1 .. Len(frames'[u]) /\ frames'[u][i] = frames[u][i]

\* Depth k of thread a carries c's call afterwards, or no frame does.
OnlyAt(c, a, k) ==
    \A u \in All : \A i \in 1 .. Len(frames'[u]) :
        Carrying(frames'[u][i]) /\ frames'[u][i].client = c => u = a /\ i = k

LEMMA OneCallChanges ==
    ASSUME TypeOK, TypeOK', CallsInv, NEW c \in Clients, Others(c),
           NEW a \in All, NEW k \in Int, OnlyAt(c, a, k),
           busy'[c] = HeldIn(frames', c), \A d \in Clients \ {c} : busy'[d] = busy[d],
           abandoned' = abandoned \ {c}
    PROVE  BusyExact' /\ CarriedOnce' /\ AbandonedGone'
<1>1. \A d \in Clients \ {c} : HeldIn(frames', d) <=> HeldIn(frames, d)
  <2>1. ASSUME NEW d \in Clients \ {c}, HeldIn(frames', d)
        PROVE  HeldIn(frames, d)
    <3>1. PICK u \in All : \E i \in 1 .. Len(frames'[u]) : Carrying(frames'[u][i]) /\ frames'[u][i].client = d
          BY <2>1 DEF HeldIn
    <3> QED BY <3>1 DEF HeldIn, Others
  <2>2. ASSUME NEW d \in Clients \ {c}, HeldIn(frames, d)
        PROVE  HeldIn(frames', d)
    <3>1. PICK u \in All : \E i \in 1 .. Len(frames[u]) : Carrying(frames[u][i]) /\ frames[u][i].client = d
          BY <2>2 DEF HeldIn
    <3> QED BY <3>1 DEF HeldIn, Others
  <2> QED BY <2>1, <2>2
<1>2. \A d \in Clients \ {c} : Outstanding(d)' <=> Outstanding(d)
      BY <1>1, OutstandingHeld, OutstandingHeldNext
<1>3. Outstanding(c)' <=> busy'[c]
      BY OutstandingHeldNext
<1>4. BusyExact'
  <2>1. \A d \in Clients : busy'[d] \in BOOLEAN
        BY DEF TypeOK
  <2>2. SUFFICES ASSUME NEW d \in Clients
                 PROVE  busy'[d] = (Outstanding(d)' \/ d \in abandoned')
        BY DEF BusyExact
  <2>3. CASE d = c
        BY <1>3, <2>1, <2>3
  <2>4. CASE d # c
        BY <1>2, <2>4 DEF CallsInv, BusyExact
  <2> QED BY <2>3, <2>4
<1>5. AbandonedGone'
  <2>1. \A d \in abandoned' : d \in abandoned /\ d \in Clients \ {c}
        BY DEF TypeOK
  <2> QED BY <1>2, <2>1 DEF CallsInv, AbandonedGone
<1>6. CarriedOnce'
  <2>1. SUFFICES ASSUME NEW u \in All, NEW v \in All, NEW i \in 1 .. Len(frames'[u]),
                        NEW j \in 1 .. Len(frames'[v]),
                        Carrying(frames'[u][i]), Carrying(frames'[v][j]),
                        frames'[u][i].client = frames'[v][j].client
                 PROVE  u = v /\ i = j
        BY DEF CarriedOnce, Depths
  <2>2. CASE frames'[u][i].client = c
        BY <2>1, <2>2 DEF OnlyAt
  <2>3. CASE frames'[u][i].client # c
    <3>1. /\ i \in Depths(u) /\ frames[u][i] = frames'[u][i]
          /\ j \in Depths(v) /\ frames[v][j] = frames'[v][j]
          BY <2>1, <2>3 DEF Depths, Others
    <3>2. /\ Carrying(frames[u][i]) /\ Carrying(frames[v][j])
          /\ frames[u][i].client = frames[v][j].client
          BY <2>1, <3>1, Zenon
    <3>3. CarriedOnce
          BY DEF CallsInv
    <3>4. \A x \in Depths(u), y \in Depths(v) :
             /\ Carrying(frames[u][x]) /\ Carrying(frames[v][y])
             /\ frames[u][x].client = frames[v][y].client
             => u = v /\ x = y
          BY <3>3, Zenon DEF CarriedOnce
    <3> QED BY ONLY <3>1, <3>2, <3>4, Zenon
  <2> QED BY <2>2, <2>3
<1> QED BY <1>4, <1>5, <1>6

\* The servers still at work are among those that were; the buffers they
\* lose they share.
LEMMA FewerServers ==
    ASSUME CallsInv, NEW c \in Clients, Others(c), TypeOK',
           \A u \in All : \A i \in 1 .. Len(frames'[u]) :
               frames'[u][i].kind = "server" => frames'[u][i].client # c,
           overlapped \ {c} \subseteq overlapped',
           \A s \in Servers, u \in All : \A i \in Depths(u) :
               Uses(u, i, s) /\ frames[u][i].client # c =>
                   buffer'[s] = buffer[s] \/ frames[u][i].client \in overlapped'
    PROVE  BufferHeld' /\ SharingKnown'
<1>1. \A s \in Servers, u \in All : \A i \in 1 .. Len(frames'[u]) :
         Uses(u, i, s)' => /\ i \in Depths(u) /\ Uses(u, i, s)
                           /\ frames'[u][i].client = frames[u][i].client
                           /\ frames[u][i].client # c
      BY DEF Others, Uses, Carrying, Depths
<1>2. BufferHeld'
  <2>1. SUFFICES ASSUME NEW s \in Servers, NEW u \in All, NEW i \in 1 .. Len(frames'[u]),
                        Uses(u, i, s)'
                 PROVE  frames'[u][i].client \in overlapped' \/ buffer'[s] = frames'[u][i].client
        BY DEF BufferHeld, Depths
  <2>2. /\ i \in Depths(u) /\ Uses(u, i, s) /\ frames'[u][i].client = frames[u][i].client
        /\ frames[u][i].client # c
        BY <1>1, <2>1
  <2>3. frames[u][i].client \in overlapped \/ buffer[s] = frames[u][i].client
        BY <2>2 DEF CallsInv, BufferHeld
  <2> QED BY <2>2, <2>3
<1>3. SharingKnown'
  <2>1. SUFFICES ASSUME NEW s \in Servers, NEW u \in All, NEW v \in All,
                        NEW i \in 1 .. Len(frames'[u]), NEW j \in 1 .. Len(frames'[v]),
                        Uses(u, i, s)', Uses(v, j, s)', ~(u = v /\ i = j)
                 PROVE  frames'[u][i].client \in overlapped'
        BY DEF SharingKnown, Depths
  <2>2. /\ i \in Depths(u) /\ Uses(u, i, s) /\ frames'[u][i].client = frames[u][i].client
        /\ frames[u][i].client # c
        BY <1>1, <2>1
  <2>3. j \in Depths(v) /\ Uses(v, j, s)
        BY <1>1, <2>1
  <2>4. frames[u][i].client \in overlapped
        BY <2>1, <2>2, <2>3 DEF CallsInv, SharingKnown
  <2> QED BY <2>2, <2>4
<1> QED BY <1>2, <1>3

\* What finishCall leaves of the thread's frames.
LEMMA FinishFacts ==
    ASSUME TypeOK, NEW t \in All, NEW c \in Clients, NEW reply,
           NEW below \in Seq(Frame), FinishCall(t, c, reply, below)
    PROVE  /\ frames' \in [All -> Seq(Frame)] /\ \A u \in All : u # t => frames'[u] = frames[u]
           /\ alive' \in [All -> BOOLEAN] /\ busy' \in [Clients -> BOOLEAN]
           /\ misled' = misled \cup ({c} \ (overlapped \cup {reply})) /\ misled' \subseteq Clients
           /\ \A d \in Clients \ {c} : busy'[d] = busy[d]
           /\ \A u \in All : u # t => alive'[u] = alive[u]
           /\ ~alive'[t] => frames'[t] = <<>>
           /\ \E end \in BOOLEAN, f \in Frame :
                 /\ f.kind = "end" /\ f.client = c /\ f.stack = Len(below)
                 /\ busy'[c] = end /\ frames'[t] = IF end THEN Append(below, f) ELSE below
<1> DEFINE f == EndFrame(c, StackTop(Len(below)))
<1>1. f \in Frame /\ f.kind = "end" /\ f.client = c /\ f.stack = Len(below)
      BY StackTops, NewFrames
<1> HIDE DEF f
<1>2. PICK end \in BOOLEAN :
         /\ misled' = misled \cup ({c} \ (overlapped \cup {reply}))
         /\ busy' = [busy EXCEPT ![c] = end]
         /\ frames' = [frames EXCEPT ![t] = IF end THEN Append(below, f) ELSE below]
         /\ alive' = [alive EXCEPT ![t] = t \in Threads \/ frames'[t] # <<>>]
      BY DEF FinishCall, f
<1> DEFINE q == IF end THEN Append(below, f) ELSE below
<1>3. q \in Seq(Frame)
      BY <1>1
<1>4. frames' = [frames EXCEPT ![t] = q]
      BY <1>2
<1>5. /\ frames' \in [All -> Seq(Frame)] /\ frames'[t] = q
      /\ \A u \in All : u # t => frames'[u] = frames[u]
  <2> HIDE DEF q
  <2> QED BY <1>3, <1>4, Changed
<1>6. /\ busy' \in [Clients -> BOOLEAN] /\ busy'[c] = end
      /\ \A d \in Clients \ {c} : busy'[d] = busy[d]
      BY <1>2 DEF TypeOK
<1>7. /\ alive' \in [All -> BOOLEAN] /\ \A u \in All : u # t => alive'[u] = alive[u]
      /\ alive'[t] = (t \in Threads \/ frames'[t] # <<>>)
  <2>1. (t \in Threads \/ frames'[t] # <<>>) \in BOOLEAN
        OBVIOUS
  <2> QED BY <1>2, <2>1 DEF TypeOK
<1>8. misled' \subseteq Clients
      BY <1>2 DEF TypeOK
<1> QED BY <1>1, <1>2, <1>5, <1>6, <1>7, <1>8

LEMMA CallsOfFinish ==
    ASSUME TypeOK, TypeOK', CallsInv, NEW t \in All, NEW c \in Clients, NEW reply,
           NEW below \in Seq(Frame), FinishCall(t, c, reply, below),
           Len(below) <= Len(frames[t]), \A i \in 1 .. Len(below) : below[i] = frames[t][i],
           \A i \in 1 .. Len(frames[t]) :
               i > Len(below) /\ Carrying(frames[t][i]) => frames[t][i].client = c,
           \A u \in All : \A i \in 1 .. Len(frames[u]) :
               Carrying(frames[u][i]) /\ frames[u][i].client = c => u = t /\ i > Len(below),
           c \notin abandoned, abandoned' = abandoned, c \in overlapped \/ reply = c
    PROVE  /\ BusyExact' /\ CarriedOnce' /\ AbandonedGone' /\ RepliesMatch' /\ Others(c)
           /\ \A u \in All : \A i \in 1 .. Len(frames'[u]) :
                 frames'[u][i].kind = "server" => frames'[u][i].client # c
<1> DEFINE n == Len(below)
<1>1. PICK end \in BOOLEAN, f \in Frame :
         /\ f.kind = "end" /\ f.client = c
         /\ busy'[c] = end /\ frames'[t] = IF end THEN Append(below, f) ELSE below
      BY FinishFacts
<1>2. /\ n \in Nat /\ Len(frames[t]) \in Nat /\ n <= Len(frames[t])
      /\ Append(below, f) \in Seq(Frame) /\ Len(Append(below, f)) = n + 1
      /\ Append(below, f)[n + 1] = f /\ \A i \in 1 .. n : Append(below, f)[i] = below[i]
      BY FramesOf, PushFacts
<1>3. /\ Len(frames'[t]) = IF end THEN n + 1 ELSE n
      /\ \A i \in 1 .. n : frames'[t][i] = frames[t][i]
      /\ end => frames'[t][n + 1] = f
  <2>1. CASE end
        BY <1>1, <1>2, <2>1
  <2>2. CASE ~end
        BY <1>1, <1>2, <2>2
  <2> QED BY <2>1, <2>2
<1>4. \A u \in All : u # t => frames'[u] = frames[u]
      BY FinishFacts
<1> HIDE DEF n
<1>5. \A i \in 1 .. Len(frames'[t]) : i \in 1 .. n \/ (end /\ i = n + 1)
      BY <1>2, <1>3
<1>6. \A i \in 1 .. n : i \in 1 .. Len(frames[t]) /\ i \in 1 .. Len(frames'[t])
      BY <1>2, <1>3
<1>7. \A u \in All : \A i \in 1 .. Len(frames[u]) :
         Carrying(frames[u][i]) /\ frames[u][i].client = c => u = t /\ ~(i \in 1 .. n)
      BY <1>2 DEF n
<1>8. ASSUME NEW u \in All, NEW i \in 1 .. Len(frames'[u]),
             Carrying(frames'[u][i]), frames'[u][i].client = c
      PROVE  u = t /\ end /\ i = n + 1
  <2>1. u = t
        BY <1>4, <1>7, <1>8
  <2>2. CASE i \in 1 .. n
        BY <1>3, <1>6, <1>7, <1>8, <2>1, <2>2
  <2>3. CASE end /\ i = n + 1
        BY <2>1, <2>3
  <2> QED BY <1>5, <2>1, <2>2, <2>3
<1>9. Others(c)
  <2>1. ASSUME NEW u \in All, NEW i \in 1 .. Len(frames'[u]),
               Carrying(frames'[u][i]), frames'[u][i].client # c
        PROVE  i \in 1 .. Len(frames[u]) /\ frames[u][i] = frames'[u][i]
    <3>1. CASE u # t
          BY <1>4, <3>1
    <3>2. CASE u = t /\ i \in 1 .. n
          BY <1>3, <1>6, <3>2
    <3>3. CASE u = t /\ end /\ i = n + 1
          BY <1>1, <1>3, <2>1, <3>3
    <3> QED BY <1>5, <3>1, <3>2, <3>3
  <2>2. ASSUME NEW u \in All, NEW i \in 1 .. Len(frames[u]),
               Carrying(frames[u][i]), frames[u][i].client # c
        PROVE  i \in 1 .. Len(frames'[u]) /\ frames'[u][i] = frames[u][i]
    <3>1. CASE u # t
          BY <1>4, <3>1
    <3>2. CASE u = t
      <4>1. i \in 1 .. n
            BY <1>2, <2>2, <3>2 DEF n
      <4> QED BY <1>3, <1>6, <3>2, <4>1
    <3> QED BY <3>1, <3>2
  <2> QED BY <2>1, <2>2 DEF Others
<1>10. busy'[c] = HeldIn(frames', c)
  <2>1. ASSUME end
        PROVE  HeldIn(frames', c)
    <3>1. n + 1 \in 1 .. Len(frames'[t]) /\ frames'[t][n + 1] = f
          BY <1>2, <1>3, <2>1
    <3>2. Carrying(f) /\ f.client = c
          BY <1>1 DEF Carrying
    <3> QED BY <3>1, <3>2 DEF HeldIn
  <2>2. ASSUME HeldIn(frames', c)
        PROVE  end
        BY <1>8, <2>2 DEF HeldIn
  <2>3. HeldIn(frames', c) \in BOOLEAN
        BY DEF HeldIn
  <2> QED BY <1>1, <2>1, <2>2, <2>3
<1>11. n + 1 \in Int /\ OnlyAt(c, t, n + 1)
      BY <1>2, <1>8 DEF OnlyAt
<1>12. abandoned' = abandoned \ {c} /\ \A d \in Clients \ {c} : busy'[d] = busy[d]
      BY FinishFacts
<1>13. BusyExact' /\ CarriedOnce' /\ AbandonedGone'
      BY <1>9, <1>10, <1>11, <1>12, OneCallChanges
<1>14. RepliesMatch'
      BY FinishFacts DEF CallsInv, RepliesMatch
<1>15. \A u \in All : \A i \in 1 .. Len(frames'[u]) :
          frames'[u][i].kind = "server" => frames'[u][i].client # c
  <2>1. SUFFICES ASSUME NEW u \in All, NEW i \in 1 .. Len(frames'[u]),
                        frames'[u][i].kind = "server", frames'[u][i].client = c
                 PROVE  FALSE
        OBVIOUS
  <2>2. u = t /\ end /\ i = n + 1
        BY <1>8, <2>1 DEF Carrying
  <2> QED BY <1>1, <1>3, <2>1, <2>2
<1> QED BY <1>9, <1>13, <1>14, <1>15

(***************************************************************************)
(* The steps.                                                              *)
(***************************************************************************)
\* Nothing but threads starting, and handlers and servers being registered.
LEMMA FramesKept ==
    ASSUME IInv, TypeOK', UNCHANGED <<frames, owed, busy, buffer, overlapped, misled, abandoned>>,
           \A t \in All : alive[t] => alive'[t]
    PROVE  IInv'
<1>1. CallsInv'
      BY SameCarriers DEF IInv
<1>2. ExitsInv'
      BY DEF IInv, ExitsInv
<1> QED BY <1>1, <1>2 DEF IInv

LEMMA StartThreadKeeps ==
    ASSUME IInv, NEW t \in All, StartThread(t)
    PROVE  IInv'
<1>1. TypeOK' /\ \A u \in All : alive[u] => alive'[u]
      BY DEF StartThread, IInv, TypeOK, rpcVars
<1> QED BY <1>1, FramesKept DEF StartThread, rpcVars

LEMMA DeleteThreadKeeps ==
    ASSUME IInv, NEW t \in All, DeleteThread(t)
    PROVE  IInv'
<1>1. TypeOK' /\ \A u \in All : alive[u] => alive'[u]
      BY DEF DeleteThread, IInv, TypeOK, rpcVars
<1> QED BY <1>1, FramesKept DEF DeleteThread, rpcVars

LEMMA RegisterExitHandlerKeeps ==
    ASSUME IInv, NEW t \in All, NEW h \in Handlers, RegisterExitHandler(t, h)
    PROVE  IInv'
<1>1. Append(exitHandlers[t], h) \in Seq(Handlers)
      BY DEF IInv, TypeOK
<1>2. TypeOK' /\ \A u \in All : alive[u] => alive'[u]
      BY <1>1 DEF RegisterExitHandler, IInv, TypeOK, rpcVars
<1> QED BY <1>2, FramesKept DEF RegisterExitHandler, rpcVars

LEMMA SifRegisterRpcKeeps ==
    ASSUME IInv, NEW t \in All, NEW s \in Servers, NEW sid \in Sids, SifRegisterRpc(t, s, sid)
    PROVE  IInv'
<1>1. registered' \in [Sids -> Servers \cup {None, Placeholder}]
      BY DEF SifRegisterRpc, IInv, TypeOK
<1>2. server' \in [Clients -> Servers \cup {None, Placeholder}]
      BY DEF SifRegisterRpc, IInv, TypeOK
<1>3. TypeOK' /\ \A u \in All : alive[u] => alive'[u]
      BY <1>1, <1>2 DEF SifRegisterRpc, IInv, TypeOK, threadVars
<1> QED BY <1>3, FramesKept DEF SifRegisterRpc, threadVars

\* A thread ends.
LEMMA Ends ==
    ASSUME IInv, NEW t \in All, NEW n \in 0 .. Len(frames[t]), Dormant(t, n), UNCHANGED rpcVars,
           \A i \in 1 .. Len(frames[t]) : i > n => ~Carrying(frames[t][i]),
           exitHandlers' \in [All -> Seq(Handlers)], owed' \in [All -> Seq(Handlers)],
           owed'[t] = <<>>, \A u \in All : u # t => owed'[u] = owed[u]
    PROVE  IInv'
<1>1. <<>> \in Seq(Frame) /\ TypeOK
      BY DEF IInv
<1>2. /\ frames' \in [All -> Seq(Frame)] /\ frames'[t] = <<>>
      /\ \A u \in All : u # t => frames'[u] = frames[u]
      BY <1>1, Changed DEF Dormant
<1>3. /\ alive' \in [All -> BOOLEAN] /\ \A u \in All : u # t => alive'[u] = alive[u]
      /\ abandoned' \subseteq Clients
      BY <1>1 DEF Dormant, TypeOK
<1>4. TypeOK'
      BY <1>1, <1>2, <1>3 DEF TypeOK, rpcVars
<1>5. CallsInv'
      BY <1>1, <1>4, CallsOfDormant DEF IInv, rpcVars
<1>6. Layout(<<>>) /\ ExitsOwed(<<>>, <<>>)
      BY DEF Layout, ExitsOwed
<1>7. ExitsInv'
      BY <1>1, <1>2, <1>3, <1>6, SameExits DEF IInv
<1> QED BY <1>4, <1>5, <1>7 DEF IInv

LEMMA ThreadReturnsKeeps ==
    ASSUME IInv, NEW t \in All, ThreadReturns(t)
    PROVE  IInv'
<1>1. frames[t] = <<>> /\ Len(frames[t]) = 0 /\ 0 \in 0 .. Len(frames[t])
      BY DEF ThreadReturns
<1>2. owed[t] = <<>>
      BY <1>1 DEF IInv, ExitsInv, ExitsOwed
<1>3. Dormant(t, 0) /\ UNCHANGED <<exitHandlers, owed, rpcVars>>
      BY DEF ThreadReturns
<1>4. exitHandlers \in [All -> Seq(Handlers)] /\ owed \in [All -> Seq(Handlers)]
      BY DEF IInv, TypeOK
<1>5. \A i \in 1 .. Len(frames[t]) : i > 0 => ~Carrying(frames[t][i])
      BY <1>1
<1> QED BY <1>1, <1>2, <1>3, <1>4, <1>5, Ends

LEMMA TerminateThreadKeeps ==
    ASSUME IInv, NEW t \in All, TerminateThread(t)
    PROVE  IInv'
<1>1. Len(frames[t]) \in 0 .. Len(frames[t]) /\ \A i \in 1 .. Len(frames[t]) : ~(i > Len(frames[t]))
      BY FramesOf DEF IInv
<1>2. /\ owed' \in [All -> Seq(Handlers)] /\ owed'[t] = <<>>
      /\ \A u \in All : u # t => owed'[u] = owed[u]
  <2>1. <<>> \in Seq(Handlers)
        OBVIOUS
  <2> QED BY <2>1 DEF TerminateThread, IInv, TypeOK
<1> QED BY <1>1, <1>2, Ends DEF TerminateThread, IInv, TypeOK

\* A frame is put that is neither an exit handler's nor a call's.
LEMMA Puts ==
    ASSUME IInv, NEW t \in All, NEW f \in Frame, f.kind \in {"handler", "override"},
           f.stack \in {Own, Len(frames[t])},
           frames' = [frames EXCEPT ![t] = Append(frames[t], f)],
           alive' = [alive EXCEPT ![t] = TRUE],
           UNCHANGED <<exitHandlers, owed, abandoned, rpcVars>>
    PROVE  IInv'
<1>1. TypeOK /\ frames[t] \in Seq(Frame) /\ Append(frames[t], f) \in Seq(Frame) /\ ~Carrying(f)
      BY FramesOf DEF IInv, Carrying
<1>2. /\ frames' \in [All -> Seq(Frame)] /\ frames'[t] = Append(frames[t], f)
      /\ \A u \in All : u # t => frames'[u] = frames[u]
      BY <1>1, Changed
<1>3. /\ Len(frames[t]) \in Nat /\ Len(frames'[t]) = Len(frames[t]) + 1
      /\ frames'[t][Len(frames[t]) + 1] = f
      /\ \A i \in 1 .. Len(frames[t]) : frames'[t][i] = frames[t][i]
      BY <1>1, <1>2, PushFacts
<1>4. TypeOK'
      BY <1>1, <1>2 DEF TypeOK, rpcVars
<1>5. CallsInv'
  <2>1. \A u \in All : \A i \in 1 .. Len(frames'[u]) :
           Carrying(frames'[u][i]) => i \in 1 .. Len(frames[u]) /\ frames[u][i] = frames'[u][i]
    <3>1. \A i \in 1 .. Len(frames'[t]) :
             Carrying(frames'[t][i]) => i \in 1 .. Len(frames[t]) /\ frames[t][i] = frames'[t][i]
          BY <1>1, <1>3
    <3> QED BY <1>2, <3>1
  <2>2. \A u \in All : \A i \in 1 .. Len(frames[u]) :
           Carrying(frames[u][i]) => i \in 1 .. Len(frames'[u]) /\ frames'[u][i] = frames[u][i]
    <3>1. \A i \in 1 .. Len(frames[t]) : i \in 1 .. Len(frames'[t]) /\ frames'[t][i] = frames[t][i]
          BY <1>3
    <3> QED BY <1>2, <3>1
  <2> QED BY <1>1, <1>4, <2>1, <2>2, SameCarriers DEF IInv, rpcVars
<1>6. Layout(frames'[t]) /\ ExitsOwed(frames'[t], owed'[t])
  <2>1. Layout(frames[t]) /\ ExitsOwed(frames[t], owed[t]) /\ f.kind # "exit" /\ owed' = owed
        BY DEF IInv, ExitsInv
  <2> QED BY <1>1, <1>2, <2>1, PushLayout, PushOwed
<1>7. alive'[t] /\ \A u \in All : u # t => alive'[u] = alive[u]
      BY <1>1 DEF TypeOK
<1>8. ExitsInv'
      BY <1>1, <1>2, <1>6, <1>7, SameExits DEF IInv
<1> QED BY <1>4, <1>5, <1>8 DEF IInv

LEMMA PushInvocationKeeps ==
    ASSUME IInv, NEW t \in All, PushInvocation(t)
    PROVE  IInv'
<1>1. PICK stack \in {Own, StackTop(Len(frames[t]))} :
         frames' = [frames EXCEPT ![t] = Append(@, HandlerFrame(stack))]
      BY DEF PushInvocation
<1>2. stack \in FrameStacks /\ stack \in {Own, Len(frames[t])}
      BY FramesOf, StackTops DEF IInv
<1>3. /\ HandlerFrame(stack) \in Frame /\ HandlerFrame(stack).kind = "handler"
      /\ HandlerFrame(stack).stack = stack
      BY <1>2, NewFrames
<1> QED BY <1>1, <1>2, <1>3, Puts DEF PushInvocation

LEMMA SystemCallKeeps ==
    ASSUME IInv, NEW t \in All, NEW n \in Numbers, SystemCall(t, n)
    PROVE  IInv'
<1> DEFINE f == OverrideFrame(n, StackTop(Len(frames[t])))
<1>1. f \in Frame /\ f.kind = "override" /\ f.stack = Len(frames[t])
      BY FramesOf, StackTops, NewFrames DEF IInv
<1>2. alive' = [alive EXCEPT ![t] = TRUE]
      BY DEF SystemCall, Runs, IInv, TypeOK
<1>3. frames' = [frames EXCEPT ![t] = Append(frames[t], f)]
      BY DEF SystemCall
<1> HIDE DEF f
<1> QED BY <1>1, <1>2, <1>3, Puts DEF SystemCall

\* The running frame returns to the one below, and carries no call.
LEMMA Takes ==
    ASSUME IInv, NEW t \in All, frames[t] # <<>>, ~Carrying(Last(frames[t])),
           frames' = [frames EXCEPT ![t] = Front(frames[t])], alive' \in [All -> BOOLEAN],
           ~alive'[t] => Len(frames[t]) = 1, \A u \in All : u # t => alive'[u] = alive[u],
           owed' \in [All -> Seq(Handlers)], \A u \in All : u # t => owed'[u] = owed[u],
           ExitsOwed(Front(frames[t]), owed'[t]),
           UNCHANGED <<exitHandlers, abandoned, rpcVars>>
    PROVE  IInv'
<1>1. /\ TypeOK /\ frames[t] \in Seq(Frame) /\ Len(frames[t]) \in Nat \ {0}
      /\ Front(frames[t]) \in Seq(Frame) /\ Last(frames[t]) = frames[t][Len(frames[t])]
      /\ Len(Front(frames[t])) = Len(frames[t]) - 1
      /\ \A i \in 1 .. Len(frames[t]) - 1 : Front(frames[t])[i] = frames[t][i]
      BY FramesOf, FrontFacts DEF IInv
<1>2. /\ frames' \in [All -> Seq(Frame)] /\ frames'[t] = Front(frames[t])
      /\ \A u \in All : u # t => frames'[u] = frames[u]
      BY <1>1, Changed
<1>3. TypeOK'
      BY <1>1, <1>2 DEF TypeOK, rpcVars
<1>4. CallsInv'
  <2>1. \A u \in All : \A i \in 1 .. Len(frames'[u]) :
           Carrying(frames'[u][i]) => i \in 1 .. Len(frames[u]) /\ frames[u][i] = frames'[u][i]
    <3>0. \A i \in 1 .. Len(frames[t]) - 1 : i \in 1 .. Len(frames[t])
          BY <1>1
    <3>1. \A i \in 1 .. Len(frames'[t]) : i \in 1 .. Len(frames[t]) /\ frames[t][i] = frames'[t][i]
          BY <1>1, <1>2, <3>0
    <3> QED BY <1>2, <3>1
  <2>2. \A u \in All : \A i \in 1 .. Len(frames[u]) :
           Carrying(frames[u][i]) => i \in 1 .. Len(frames'[u]) /\ frames'[u][i] = frames[u][i]
    <3>1. \A i \in 1 .. Len(frames[t]) : i = Len(frames[t]) \/ i \in 1 .. Len(frames[t]) - 1
          BY <1>1
    <3>2. \A i \in 1 .. Len(frames[t]) :
             Carrying(frames[t][i]) => i \in 1 .. Len(frames'[t]) /\ frames'[t][i] = frames[t][i]
          BY <1>1, <1>2, <3>1
    <3> QED BY <1>2, <3>2
  <2> QED BY <1>1, <1>3, <2>1, <2>2, SameCarriers DEF IInv, rpcVars
<1>5. Layout(frames'[t])
      BY <1>1, <1>2, PopLayout DEF IInv, ExitsInv
<1>6. ~alive'[t] => frames'[t] = <<>>
  <2>1. ASSUME Len(frames[t]) = 1
        PROVE  Len(Front(frames[t])) = 0
        BY <1>1, <2>1
  <2> QED BY <1>1, <1>2, <2>1, EmptySeq
<1>7. ExitsInv'
      BY <1>1, <1>2, <1>5, <1>6, SameExits DEF IInv
<1> QED BY <1>3, <1>4, <1>7 DEF IInv

LEMMA HandlerReturnsKeeps ==
    ASSUME IInv, NEW t \in All, HandlerReturns(t)
    PROVE  IInv'
<1>1. /\ frames[t] # <<>> /\ frames[t] \in Seq(Frame) /\ Last(frames[t]).kind \in {"handler", "override"}
      /\ owed \in [All -> Seq(Handlers)] /\ owed' = owed
      BY FramesOf DEF HandlerReturns, Top, IInv, TypeOK
<1>2. /\ alive' \in [All -> BOOLEAN] /\ \A u \in All : u # t => alive'[u] = alive[u]
      /\ ~alive'[t] => ~(Len(frames[t]) > 1)
  <2>1. (t \in Threads \/ Len(frames[t]) > 1) \in BOOLEAN
        OBVIOUS
  <2> QED BY <2>1 DEF HandlerReturns, IInv, TypeOK
<1>3. Len(frames[t]) \in Nat \ {0}
      BY <1>1, FrontFacts
<1>4. ExitsOwed(Front(frames[t]), owed'[t])
      BY <1>1, PopOwed DEF IInv, ExitsInv
<1>5. ~Carrying(Last(frames[t]))
      BY <1>1 DEF Carrying
<1>6. ~alive'[t] => Len(frames[t]) = 1
  <2>1. \A k \in Nat \ {0} : ~(k > 1) => k = 1
        OBVIOUS
  <2> QED BY <1>2, <1>3, <2>1, Zenon
<1> QED BY <1>1, <1>2, <1>4, <1>5, <1>6, Takes DEF HandlerReturns

LEMMA ExitHandlerReturnsKeeps ==
    ASSUME IInv, NEW t \in All, ExitHandlerReturns(t)
    PROVE  IInv'
<1> DEFINE n == Len(frames[t])
<1>1. /\ frames[t] # <<>> /\ frames[t] \in Seq(Frame) /\ n \in Nat \ {0}
      /\ Last(frames[t]) = frames[t][n] /\ frames[t][n] \in Frame /\ frames[t][n].kind = "exit"
      /\ Layout(frames[t]) /\ ExitsOwed(frames[t], owed[t]) /\ owed[t] \in Seq(Handlers)
  <2>1. frames[t] # <<>> /\ Last(frames[t]).kind = "exit"
        BY DEF ExitHandlerReturns, Top
  <2>2. /\ frames[t] \in Seq(Frame) /\ owed[t] \in Seq(Handlers)
        /\ \A i \in 1 .. Len(frames[t]) : frames[t][i] \in Frame
        BY FramesOf DEF IInv, Depths
  <2>3. Len(frames[t]) \in Nat \ {0} /\ Last(frames[t]) = frames[t][Len(frames[t])]
        BY <2>1, <2>2, FrontFacts
  <2>4. Layout(frames[t]) /\ ExitsOwed(frames[t], owed[t])
        BY DEF IInv, ExitsInv
  <2> QED BY <2>1, <2>2, <2>3, <2>4
<1>2. frames[t][n].rest \in Nat /\ ~Carrying(frames[t][n])
      BY <1>1, FrameFacts DEF Carrying
<1>3. Len(owed[t]) = frames[t][n].rest + 1
      BY <1>1 DEF ExitsOwed
<1>4. owed[t] # <<>> /\ Tail(owed[t]) \in Seq(Handlers) /\ Len(Tail(owed[t])) = Len(owed[t]) - 1
      BY <1>1, <1>2, <1>3
<1>5. /\ owed' \in [All -> Seq(Handlers)] /\ owed'[t] = Tail(owed[t])
      /\ \A u \in All : u # t => owed'[u] = owed[u]
      BY <1>4 DEF ExitHandlerReturns, IInv, TypeOK
<1>6. UNCHANGED <<exitHandlers, rpcVars>> /\ exitHandlers \in [All -> Seq(Handlers)]
      BY DEF ExitHandlerReturns, IInv, TypeOK
<1>7. CASE frames[t][n].rest = 0 /\ Dormant(t, n - 1)
  <2>1. owed'[t] = <<>>
        BY <1>3, <1>4, <1>5, <1>7, EmptySeq
  <2>2. n - 1 \in 0 .. Len(frames[t]) /\ \A i \in 1 .. Len(frames[t]) : i > n - 1 => i = n
        BY <1>1
  <2> QED BY <1>2, <1>5, <1>6, <1>7, <2>1, <2>2, Ends
<1>8. CASE /\ frames[t][n].rest > 0 /\ UNCHANGED <<alive, abandoned>>
           /\ frames' = [frames EXCEPT ![t] = Front(frames[t])]
  <2>1. ExitsOwed(Front(frames[t]), owed'[t])
        BY <1>1, <1>5, <1>8, NextOwed
  <2>2. alive'[t]
        BY <1>3, <1>4, <1>8 DEF IInv, ExitsInv
  <2>3. alive' \in [All -> BOOLEAN] /\ \A u \in All : u # t => alive'[u] = alive[u]
        BY <1>8 DEF IInv, TypeOK
  <2> QED BY <1>1, <1>2, <1>5, <1>6, <1>8, <2>1, <2>2, <2>3, Takes
<1> QED BY <1>1, <1>7, <1>8 DEF ExitHandlerReturns, Top

LEMMA ExitThreadKeeps ==
    ASSUME IInv, NEW t \in All, ExitThread(t)
    PROVE  IInv'
<1> DEFINE batch == Among(exitHandlers[t], Handlers \ Missing)
           n == Len(frames[t])
           q == frames[t] \o Stacked(batch, n)
<1>1. TypeOK /\ frames[t] \in Seq(Frame) /\ n \in Nat /\ exitHandlers[t] \in Seq(Handlers)
      BY FramesOf DEF IInv
<1>2. batch \in Seq(Handlers)
      BY <1>1, AmongFacts
<1>3. /\ owed' \in [All -> Seq(Handlers)] /\ owed'[t] = batch
      /\ \A u \in All : u # t => owed'[u] = owed[u]
      BY <1>1, <1>2 DEF ExitThread, TypeOK
<1>4. exitHandlers' \in [All -> Seq(Handlers)]
  <2>1. <<>> \in Seq(Handlers)
        OBVIOUS
  <2> QED BY <1>1, <2>1 DEF ExitThread, TypeOK
<1>5. Runs(t) /\ UNCHANGED rpcVars
      BY DEF ExitThread
<1>6. CASE batch = <<>> /\ Dormant(t, n)
  <2>1. n \in 0 .. Len(frames[t]) /\ \A i \in 1 .. Len(frames[t]) : ~(i > n)
        BY <1>1
  <2> HIDE DEF batch, n
  <2> QED BY <1>3, <1>4, <1>5, <1>6, <2>1, Ends
<1>7. CASE batch # <<>> /\ frames' = [frames EXCEPT ![t] = q] /\ UNCHANGED <<alive, abandoned>>
  <2>1. /\ q \in Seq(Frame) /\ Len(q) = n + Len(batch)
        /\ \A i \in 1 .. n : q[i] = frames[t][i]
        /\ \A i \in n + 1 .. n + Len(batch) : q[i].kind = "exit"
        BY <1>1, <1>2, StackedFacts
  <2>2. Layout(q) /\ ExitsOwed(q, batch)
        BY <1>1, <1>2, <1>7, StackedLayout DEF IInv, ExitsInv
  <2> HIDE DEF q
  <2>3. /\ frames' \in [All -> Seq(Frame)] /\ frames'[t] = q
        /\ \A u \in All : u # t => frames'[u] = frames[u]
        BY <1>1, <1>7, <2>1, Changed
  <2>4. TypeOK'
        BY <1>1, <1>3, <1>4, <1>5, <1>7, <2>3 DEF TypeOK, rpcVars
  <2>5. Len(batch) \in Nat
        BY <1>2
  <2> HIDE DEF batch
  <2>6. CallsInv'
    <3>1. \A u \in All : \A i \in 1 .. Len(frames'[u]) :
             Carrying(frames'[u][i]) => i \in 1 .. Len(frames[u]) /\ frames[u][i] = frames'[u][i]
      <4>1. \A i \in 1 .. Len(q) : i \in 1 .. n \/ i \in n + 1 .. n + Len(batch)
            BY <1>1, <2>1, <2>5
      <4>2. \A i \in 1 .. Len(q) : Carrying(q[i]) => i \in 1 .. n /\ frames[t][i] = q[i]
            BY <2>1, <4>1 DEF Carrying
      <4> QED BY <2>3, <4>2
    <3>2. \A u \in All : \A i \in 1 .. Len(frames[u]) :
             Carrying(frames[u][i]) => i \in 1 .. Len(frames'[u]) /\ frames'[u][i] = frames[u][i]
      <4>1. \A i \in 1 .. n : i \in 1 .. Len(q)
            BY <1>1, <2>1, <2>5
      <4> QED BY <2>1, <2>3, <4>1
    <3> QED BY <1>1, <1>5, <1>7, <2>4, <3>1, <3>2, SameCarriers DEF IInv, rpcVars
  <2>7. alive'[t] /\ \A u \in All : u # t => alive'[u] = alive[u]
        BY <1>5, <1>7 DEF Runs
  <2>8. ExitsInv'
        BY <1>1, <1>3, <2>2, <2>3, <2>7, SameExits DEF IInv
  <2> QED BY <2>4, <2>6, <2>8 DEF IInv
<1> QED BY <1>6, <1>7 DEF ExitThread

\* A client is not busy: no call of it is under way, and none was abandoned.
LEMMA Idle ==
    ASSUME IInv, NEW c \in Clients, ~busy[c]
    PROVE  ~HeldIn(frames, c) /\ c \notin abandoned
BY OutstandingHeld DEF IInv, CallsInv, BusyExact

LEMMA SifBindRpcKeeps ==
    ASSUME IInv, NEW t \in All, NEW c \in Clients, NEW sid \in Sids, SifBindRpc(t, c, sid)
    PROVE  IInv'
<1>1. TypeOK /\ UNCHANGED <<alive, frames, exitHandlers, owed, buffer, misled>>
      BY DEF IInv, SifBindRpc
<1>2. /\ busy' \in [Clients -> BOOLEAN] /\ busy'[c] = FALSE
      /\ \A d \in Clients \ {c} : busy'[d] = busy[d]
      /\ abandoned' = abandoned \ {c} /\ overlapped' = overlapped \ {c}
      BY <1>1 DEF SifBindRpc, TypeOK
<1>3. /\ bound' \in [Clients -> Sids \cup {None}]
      /\ registered' \in [Sids -> Servers \cup {None, Placeholder}]
      /\ server' \in [Clients -> Servers \cup {None, Placeholder}]
      BY <1>1 DEF SifBindRpc, TypeOK
<1>4. TypeOK'
      BY <1>1, <1>2, <1>3 DEF TypeOK
<1>5. ~HeldIn(frames, c)
      BY <1>1, OutstandingHeld DEF SifBindRpc
<1>6. \A u \in All : \A i \in 1 .. Len(frames[u]) : Carrying(frames[u][i]) => frames[u][i].client # c
      BY <1>5 DEF HeldIn
<1>7. Others(c) /\ OnlyAt(c, t, 0) /\ 0 \in Int
      BY <1>1, <1>6 DEF Others, OnlyAt
<1>8. busy'[c] = HeldIn(frames', c)
  <2>1. HeldIn(frames', c) \in BOOLEAN /\ frames' = frames
        BY <1>1 DEF HeldIn
  <2> QED BY <1>2, <1>5, <2>1
<1>9. BusyExact' /\ CarriedOnce' /\ AbandonedGone'
      BY <1>1, <1>2, <1>4, <1>7, <1>8, OneCallChanges DEF IInv
<1>10. BufferHeld' /\ SharingKnown'
  <2>1. \A u \in All : \A i \in 1 .. Len(frames'[u]) :
           frames'[u][i].kind = "server" => frames'[u][i].client # c
        BY <1>1, <1>6 DEF Carrying
  <2>2. buffer' = buffer /\ overlapped \ {c} \subseteq overlapped'
        BY <1>1, <1>2
  <2> QED BY <1>4, <1>7, <2>1, <2>2, FewerServers DEF IInv
<1>11. RepliesMatch'
      BY <1>1 DEF IInv, CallsInv, RepliesMatch
<1>12. ExitsInv'
      BY <1>1 DEF IInv, ExitsInv
<1> QED BY <1>4, <1>9, <1>10, <1>11, <1>12 DEF IInv, CallsInv

\* What a call writes, and what it has in common with others.
LEMMA Requests ==
    ASSUME TypeOK, NEW s, NEW c \in Clients, NEW source
    PROVE  /\ Written(s, c, source) \in [Servers -> Clients \cup {None}]
           /\ Sharing(s, c, source) \subseteq Clients
           /\ \A d \in Servers : d # s => Written(s, c, source)[d] = buffer[d]
           /\ s \in Servers /\ source = s => Written(s, c, source)[s] = c
           /\ s \in Servers /\ source # s /\ Served(s) = {} => Written(s, c, source)[s] = buffer[s]
BY ServedFacts DEF TypeOK, Written, Sharing

\* A call that a function of the guest answers gets its frame.
LEMMA CallsOfNewServer ==
    ASSUME TypeOK, TypeOK', CallsInv, NEW t \in All, NEW c \in Clients, NEW s,
           NEW source \in Answering(s), NEW f \in Frame,
           f.kind = "server", f.client = c, f.source = source, source # None,
           frames' = [frames EXCEPT ![t] = Append(frames[t], f)],
           ~HeldIn(frames, c), c \notin abandoned,
           busy' = [busy EXCEPT ![c] = TRUE], UNCHANGED <<abandoned, misled>>,
           buffer' = Written(s, c, source), overlapped' = overlapped \cup Sharing(s, c, source)
    PROVE  CallsInv'
<1> DEFINE n == Len(frames[t]) + 1
<1>1. /\ frames[t] \in Seq(Frame) /\ Append(frames[t], f) \in Seq(Frame)
      /\ frames'[t] = Append(frames[t], f) /\ \A u \in All : u # t => frames'[u] = frames[u]
      BY FramesOf, PushFacts, Changed
<1>2. /\ n \in Nat \ {0} /\ Len(frames'[t]) = n /\ frames'[t][n] = f
      /\ \A i \in 1 .. Len(frames[t]) : i \in 1 .. n /\ frames'[t][i] = frames[t][i]
      /\ \A i \in 1 .. n : i = n \/ i \in 1 .. Len(frames[t])
      BY <1>1, PushFacts
<1> HIDE DEF n
<1>3. \A u \in All : \A i \in 1 .. Len(frames[u]) : Carrying(frames[u][i]) => frames[u][i].client # c
      BY DEF HeldIn
<1>4. \A u \in All : \A i \in 1 .. Len(frames'[u]) :
         \/ u = t /\ i = n /\ frames'[u][i] = f
         \/ i \in 1 .. Len(frames[u]) /\ frames'[u][i] = frames[u][i]
      BY <1>1, <1>2
<1>5. \A u \in All : \A i \in 1 .. Len(frames[u]) :
         i \in 1 .. Len(frames'[u]) /\ frames'[u][i] = frames[u][i]
      BY <1>1, <1>2
<1>6. Others(c)
      BY <1>4, <1>5 DEF Others
<1>7. n \in Int /\ OnlyAt(c, t, n)
      BY <1>2, <1>3, <1>4 DEF OnlyAt
<1>8. busy'[c] = HeldIn(frames', c)
  <2>1. HeldIn(frames', c)
    <3>1. n \in 1 .. Len(frames'[t]) /\ Carrying(frames'[t][n]) /\ frames'[t][n].client = c
          BY <1>2 DEF Carrying
    <3> QED BY <3>1 DEF HeldIn
  <2>2. HeldIn(frames', c) \in BOOLEAN
        BY DEF HeldIn
  <2> QED BY <2>1, <2>2 DEF TypeOK
<1>9. abandoned' = abandoned \ {c} /\ \A d \in Clients \ {c} : busy'[d] = busy[d]
      BY DEF TypeOK
<1>10. BusyExact' /\ CarriedOnce' /\ AbandonedGone' /\ RepliesMatch'
  <2>1. BusyExact' /\ CarriedOnce' /\ AbandonedGone'
        BY <1>6, <1>7, <1>8, <1>9, OneCallChanges
  <2> QED BY <2>1 DEF CallsInv, RepliesMatch
<1>11. \A d \in Servers, u \in All : \A i \in 1 .. Len(frames'[u]) :
          Uses(u, i, d)' => \/ u = t /\ i = n /\ frames'[u][i].client = c /\ d = source
                            \/ /\ i \in Depths(u) /\ Uses(u, i, d)
                               /\ frames'[u][i].client = frames[u][i].client
      BY <1>4 DEF Uses, Depths
<1>12. source \in Servers => source = s
      BY CallsAssumption DEF Answering
<1>13. \A d \in Servers, u \in All : \A i \in Depths(u) :
          Uses(u, i, d) => \/ frames[u][i].client \in overlapped'
                           \/ buffer'[d] = buffer[d]
  <2>1. SUFFICES ASSUME NEW d \in Servers, NEW u \in All, NEW i \in Depths(u), Uses(u, i, d)
                 PROVE  frames[u][i].client \in overlapped' \/ buffer'[d] = buffer[d]
        OBVIOUS
  <2>2. CASE d # s
        BY <2>2 DEF Written, TypeOK
  <2>3. CASE d = s
        BY <2>1, <2>3, ServedFacts DEF Sharing
  <2> QED BY <2>2, <2>3
<1>14. BufferHeld'
  <2>1. SUFFICES ASSUME NEW d \in Servers, NEW u \in All, NEW i \in 1 .. Len(frames'[u]), Uses(u, i, d)'
                 PROVE  frames'[u][i].client \in overlapped' \/ buffer'[d] = frames'[u][i].client
        BY DEF BufferHeld, Depths
  <2>2. CASE frames'[u][i].client = c /\ d = source
        BY <1>12, <2>2, Requests
  <2>3. CASE /\ i \in Depths(u) /\ Uses(u, i, d)
             /\ frames'[u][i].client = frames[u][i].client
    <3>1. frames[u][i].client \in overlapped \/ buffer[d] = frames[u][i].client
          BY <2>3 DEF CallsInv, BufferHeld
    <3> QED BY <1>13, <2>3, <3>1
  <2> QED BY <1>11, <2>1, <2>2, <2>3
<1>15. ASSUME NEW u \in All, NEW i \in Depths(u), source \in Servers, Uses(u, i, source)
       PROVE  c \in overlapped' /\ frames[u][i].client \in overlapped'
  <2>1. frames[u][i].client \in Served(s)
        BY <1>12, <1>15, ServedFacts
  <2> QED BY <1>12, <1>15, <2>1 DEF Sharing
<1>16. SharingKnown'
  <2>1. SUFFICES ASSUME NEW d \in Servers, NEW u \in All, NEW v \in All,
                        NEW i \in 1 .. Len(frames'[u]), NEW j \in 1 .. Len(frames'[v]),
                        Uses(u, i, d)', Uses(v, j, d)', ~(u = v /\ i = j)
                 PROVE  frames'[u][i].client \in overlapped'
        BY DEF SharingKnown, Depths
  <2>2. \/ u = t /\ i = n /\ frames'[u][i].client = c /\ d = source
        \/ i \in Depths(u) /\ Uses(u, i, d) /\ frames'[u][i].client = frames[u][i].client
        BY <1>11, <2>1
  <2>3. \/ v = t /\ j = n /\ frames'[v][j].client = c /\ d = source
        \/ j \in Depths(v) /\ Uses(v, j, d)
        BY <1>11, <2>1
  <2>4. CASE u = t /\ i = n /\ frames'[u][i].client = c /\ d = source
        BY <1>15, <2>1, <2>3, <2>4
  <2>5. CASE i \in Depths(u) /\ Uses(u, i, d) /\ frames'[u][i].client = frames[u][i].client
    <3>1. CASE d = source
          BY <1>15, <2>5, <3>1
    <3>2. CASE j \in Depths(v) /\ Uses(v, j, d)
          BY <2>1, <2>5, <3>2 DEF CallsInv, SharingKnown
    <3> QED BY <2>3, <3>1, <3>2
  <2> QED BY <2>2, <2>4, <2>5
<1> QED BY <1>10, <1>14, <1>16 DEF CallsInv

LEMMA SifCallRpcKeeps ==
    ASSUME IInv, NEW t \in All, NEW c \in Clients, SifCallRpc(t, c)
    PROVE  IInv'
<1> DEFINE s == Latest(c)
<1>1. /\ TypeOK /\ CallsInv /\ ExitsInv
      /\ frames[t] \in Seq(Frame) /\ Layout(frames[t]) /\ ExitsOwed(frames[t], owed[t])
      BY FramesOf DEF IInv, ExitsInv
<1>2. ~HeldIn(frames, c) /\ c \notin abandoned
      BY Idle DEF SifCallRpc
<1>3. UNCHANGED <<exitHandlers, owed, abandoned, bound, registered>> /\ alive[t]
      BY DEF SifCallRpc, Runs
<1>4. server' \in [Clients -> Servers \cup {None, Placeholder}]
  <2>1. ASSUME bound[c] # None
        PROVE  s \in Servers \cup {None, Placeholder}
        BY <1>1, <2>1 DEF Latest, TypeOK
  <2> QED BY <1>1, <2>1 DEF SifCallRpc, TypeOK
<1>5. PICK source \in Answering(s) :
         /\ buffer' = Written(s, c, source)
         /\ overlapped' = overlapped \cup Sharing(s, c, source)
         /\ \/ /\ source # None
               /\ busy' = [busy EXCEPT ![c] = TRUE]
               /\ frames' = [frames EXCEPT ![t] =
                    Append(@, ServerFrame(c, source, StackTop(Len(@))))]
               /\ UNCHANGED <<alive, misled>>
            \/ source = None /\ FinishCall(t, c, c, frames[t])
      BY DEF SifCallRpc
<1>6. buffer' \in [Servers -> Clients \cup {None}] /\ overlapped' \subseteq Clients
      BY <1>1, <1>5, Requests DEF TypeOK
<1> HIDE DEF s
<1>7. CASE /\ source # None
           /\ busy' = [busy EXCEPT ![c] = TRUE]
           /\ frames' = [frames EXCEPT ![t] =
                Append(@, ServerFrame(c, source, StackTop(Len(@))))]
           /\ UNCHANGED <<alive, misled>>
  <2> DEFINE f == ServerFrame(c, source, StackTop(Len(frames[t])))
  <2>1. source \in Servers \cup {Own}
        BY <1>7 DEF Answering
  <2>2. /\ f \in Frame /\ f.kind = "server" /\ f.client = c /\ f.source = source
        /\ f.stack = Len(frames[t])
        BY <1>1, <2>1, StackTops, NewFrames
  <2>3. frames' = [frames EXCEPT ![t] = Append(frames[t], f)]
        BY <1>7
  <2> HIDE DEF f
  <2>4. Append(frames[t], f) \in Seq(Frame)
        BY <1>1, <2>2
  <2>5. /\ frames' \in [All -> Seq(Frame)] /\ frames'[t] = Append(frames[t], f)
        /\ \A u \in All : u # t => frames'[u] = frames[u]
        BY <1>1, <2>3, <2>4, Changed
  <2>6. TypeOK'
        BY <1>1, <1>3, <1>4, <1>6, <1>7, <2>5 DEF TypeOK
  <2>7. CallsInv'
        BY <1>1, <1>2, <1>3, <1>5, <1>7, <2>2, <2>3, <2>6, CallsOfNewServer
  <2>8. Layout(frames'[t]) /\ ExitsOwed(frames'[t], owed'[t])
    <3>1. f.kind # "exit" /\ f.stack \in {Own, Len(frames[t])} /\ owed' = owed
          BY <1>3, <2>2
    <3> QED BY <1>1, <2>2, <2>5, <3>1, PushLayout, PushOwed
  <2>9. ExitsInv'
        BY <1>1, <1>3, <1>7, <2>5, <2>8, SameExits
  <2> QED BY <2>6, <2>7, <2>9 DEF IInv
<1>8. CASE source = None /\ FinishCall(t, c, c, frames[t])
  <2>1. /\ frames' \in [All -> Seq(Frame)] /\ \A u \in All : u # t => frames'[u] = frames[u]
        /\ alive' \in [All -> BOOLEAN] /\ busy' \in [Clients -> BOOLEAN] /\ misled' \subseteq Clients
        /\ \A u \in All : u # t => alive'[u] = alive[u]
        /\ ~alive'[t] => frames'[t] = <<>>
        BY <1>1, <1>8, FinishFacts
  <2>2. TypeOK'
        BY <1>1, <1>3, <1>4, <1>6, <2>1 DEF TypeOK
  <2>3. Len(frames[t]) \in Nat /\ \A i \in 1 .. Len(frames[t]) : ~(i > Len(frames[t]))
        BY <1>1
  <2>4. \A u \in All : \A i \in 1 .. Len(frames[u]) : Carrying(frames[u][i]) => frames[u][i].client # c
        BY <1>2 DEF HeldIn
  <2>5. /\ BusyExact' /\ CarriedOnce' /\ AbandonedGone' /\ RepliesMatch' /\ Others(c)
        /\ \A u \in All : \A i \in 1 .. Len(frames'[u]) :
              frames'[u][i].kind = "server" => frames'[u][i].client # c
        BY <1>1, <1>2, <1>3, <1>8, <2>2, <2>3, <2>4, CallsOfFinish
  <2>6. ASSUME NEW d \in Servers, NEW u \in All, NEW i \in Depths(u), Uses(u, i, d)
        PROVE  buffer'[d] = buffer[d] \/ frames[u][i].client \in overlapped'
    <3>1. CASE d # s
          BY <1>1, <1>5, <3>1 DEF Written, TypeOK
    <3>2. CASE d = s
          BY <1>1, <1>5, <2>6, <3>2, ServedFacts DEF Sharing
    <3> QED BY <3>1, <3>2
  <2>7. overlapped \ {c} \subseteq overlapped'
        BY <1>5
  <2>8. BufferHeld' /\ SharingKnown'
        BY <1>1, <2>2, <2>5, <2>6, <2>7, FewerServers
  <2>9. Layout(frames'[t]) /\ ExitsOwed(frames'[t], owed'[t])
    <3>1. PICK end \in BOOLEAN, f \in Frame :
             /\ f.kind = "end" /\ f.stack = Len(frames[t])
             /\ frames'[t] = IF end THEN Append(frames[t], f) ELSE frames[t]
          BY <1>1, <1>8, FinishFacts
    <3>2. f.kind # "exit" /\ f.stack \in {Own, Len(frames[t])} /\ owed' = owed
          BY <1>3, <3>1
    <3>3. /\ Layout(Append(frames[t], f)) /\ ExitsOwed(Append(frames[t], f), owed[t])
          BY <1>1, <3>2, PushLayout, PushOwed
    <3> QED BY <1>1, <3>1, <3>2, <3>3
  <2>10. ExitsInv'
        BY <1>1, <1>3, <2>1, <2>9, SameExits
  <2> QED BY <2>2, <2>5, <2>8, <2>10 DEF IInv, CallsInv
<1> QED BY <1>5, <1>7, <1>8

LEMMA EndFunctionReturnsKeeps ==
    ASSUME IInv, NEW t \in All, EndFunctionReturns(t)
    PROVE  IInv'
<1> DEFINE n == Len(frames[t])
           c == frames[t][n].client
<1>1. /\ TypeOK /\ CallsInv /\ ExitsInv /\ frames[t] # <<>> /\ frames[t] \in Seq(Frame)
      /\ Layout(frames[t]) /\ ExitsOwed(frames[t], owed[t])
      BY FramesOf DEF IInv, ExitsInv, EndFunctionReturns
<1>2. /\ n \in Nat \ {0} /\ Last(frames[t]) = frames[t][n] /\ frames[t][n] \in Frame
      /\ Front(frames[t]) \in Seq(Frame) /\ Len(Front(frames[t])) = n - 1
      /\ \A i \in 1 .. n - 1 : Front(frames[t])[i] = frames[t][i]
      BY <1>1, FrontFacts
<1>3. frames[t][n].kind = "end" /\ Carrying(frames[t][n]) /\ c \in Clients
  <2>1. frames[t][n].kind = "end"
        BY <1>2 DEF EndFunctionReturns, Top
  <2> QED BY <1>2, <2>1, FrameFacts DEF Carrying
<1>4. /\ busy' = [busy EXCEPT ![c] = FALSE] /\ frames' = [frames EXCEPT ![t] = Front(frames[t])]
      /\ alive' = [alive EXCEPT ![t] = t \in Threads \/ n > 1]
      /\ UNCHANGED <<exitHandlers, owed, abandoned, bound,
                     server, registered, buffer, overlapped, misled>>
      BY <1>2 DEF EndFunctionReturns, Top
<1> HIDE DEF n, c
<1>5. /\ frames' \in [All -> Seq(Frame)] /\ frames'[t] = Front(frames[t])
      /\ \A u \in All : u # t => frames'[u] = frames[u]
      BY <1>1, <1>2, <1>4, Changed
<1>6. /\ alive' \in [All -> BOOLEAN] /\ \A u \in All : u # t => alive'[u] = alive[u]
      /\ ~alive'[t] => ~(n > 1)
  <2>1. (t \in Threads \/ n > 1) \in BOOLEAN
        OBVIOUS
  <2> QED BY <1>1, <1>4, <2>1 DEF TypeOK
<1>7. TypeOK'
      BY <1>1, <1>3, <1>4, <1>5, <1>6 DEF TypeOK
<1>8. \A i \in 1 .. n : i = n \/ i \in 1 .. n - 1
      BY <1>2
<1>9. \A i \in 1 .. n - 1 : i \in 1 .. n /\ i # n
      BY <1>2
<1>10. ASSUME NEW u \in All, NEW i \in 1 .. Len(frames[u]),
              Carrying(frames[u][i]), frames[u][i].client = c
       PROVE  u = t /\ i = n
  <2>1. n \in Depths(t) /\ i \in Depths(u) /\ frames[t][n].client = c
        BY <1>2 DEF Depths, n, c
  <2> QED BY <1>1, <1>3, <1>10, <2>1 DEF CallsInv, CarriedOnce
<1>11. \A u \in All : \A i \in 1 .. Len(frames'[u]) :
          i \in 1 .. Len(frames[u]) /\ frames'[u][i] = frames[u][i] /\ ~(u = t /\ i = n)
      BY <1>2, <1>5, <1>9 DEF n
<1>12. \A u \in All : \A i \in 1 .. Len(frames[u]) :
          \/ u = t /\ i = n
          \/ i \in 1 .. Len(frames'[u]) /\ frames'[u][i] = frames[u][i]
      BY <1>2, <1>5, <1>8 DEF n
<1>13. Others(c)
  <2>1. frames[t][n].client = c
        BY DEF c
  <2> QED BY <1>11, <1>12, <2>1 DEF Others
<1>14. \A u \in All : \A i \in 1 .. Len(frames'[u]) : Carrying(frames'[u][i]) => frames'[u][i].client # c
      BY <1>10, <1>11
<1>15. OnlyAt(c, t, 0) /\ 0 \in Int
      BY <1>14 DEF OnlyAt
<1>16. busy'[c] = HeldIn(frames', c)
  <2>1. HeldIn(frames', c) \in BOOLEAN /\ ~HeldIn(frames', c)
        BY <1>14 DEF HeldIn
  <2> QED BY <1>1, <1>3, <1>4, <2>1 DEF TypeOK
<1>17. abandoned' = abandoned \ {c} /\ \A d \in Clients \ {c} : busy'[d] = busy[d]
  <2>1. HeldIn(frames, c)
        BY <1>2, <1>3 DEF HeldIn, n, c
  <2>2. c \notin abandoned
        BY <1>1, <2>1, OutstandingHeld DEF CallsInv, AbandonedGone
  <2> QED BY <1>1, <1>3, <1>4, <2>2 DEF TypeOK
<1>18. BusyExact' /\ CarriedOnce' /\ AbandonedGone'
      BY <1>1, <1>3, <1>7, <1>13, <1>15, <1>16, <1>17, OneCallChanges
<1>19. BufferHeld' /\ SharingKnown'
  <2>1. \A u \in All : \A i \in 1 .. Len(frames'[u]) :
           frames'[u][i].kind = "server" => frames'[u][i].client # c
        BY <1>14 DEF Carrying
  <2> QED BY <1>1, <1>3, <1>4, <1>7, <1>13, <2>1, FewerServers
<1>20. RepliesMatch'
      BY <1>1, <1>4 DEF CallsInv, RepliesMatch
<1>21. Layout(frames'[t]) /\ ExitsOwed(frames'[t], owed'[t])
  <2>1. Last(frames[t]).kind # "exit"
        BY <1>2, <1>3
  <2> QED BY <1>1, <1>4, <1>5, <2>1, PopLayout, PopOwed
<1>22. ~alive'[t] => frames'[t] = <<>>
  <2>1. \A k \in Nat \ {0} : ~(k > 1) => k - 1 = 0
        OBVIOUS
  <2> QED BY <1>2, <1>5, <1>6, <2>1, EmptySeq
<1>23. ExitsInv'
      BY <1>1, <1>4, <1>5, <1>6, <1>21, <1>22, SameExits
<1> QED BY <1>7, <1>18, <1>19, <1>20, <1>23 DEF IInv, CallsInv

LEMMA ServerReturnsKeeps ==
    ASSUME IInv, NEW t \in All, ServerReturns(t)
    PROVE  IInv'
<1> DEFINE n == Len(frames[t])
           c == frames[t][n].client
           s == frames[t][n].source
           below == Front(frames[t])
<1>1. /\ TypeOK /\ CallsInv /\ ExitsInv /\ frames[t] # <<>> /\ frames[t] \in Seq(Frame)
      /\ Layout(frames[t]) /\ ExitsOwed(frames[t], owed[t])
      BY FramesOf DEF IInv, ExitsInv, ServerReturns
<1>2. /\ n \in Nat \ {0} /\ Last(frames[t]) = frames[t][n] /\ frames[t][n] \in Frame
      /\ below \in Seq(Frame) /\ Len(below) = n - 1
      /\ \A i \in 1 .. n - 1 : below[i] = frames[t][i]
      BY <1>1, FrontFacts
<1>3. /\ frames[t][n].kind = "server" /\ Carrying(frames[t][n])
      /\ c \in Clients /\ s \in Servers \cup {Own}
  <2>1. frames[t][n].kind = "server"
        BY <1>2 DEF ServerReturns, Top
  <2> QED BY <1>2, <2>1, FrameFacts DEF Carrying
<1>4. PICK reply \in (IF s = Own THEN {c} ELSE {c, buffer[s]}) :
         /\ buffer' = IF s = Own THEN buffer
                      ELSE [buffer EXCEPT ![s] = IF Served(s) = {c} THEN None ELSE reply]
         /\ FinishCall(t, c, reply, below)
      BY <1>2 DEF ServerReturns, Top, Place
<1>5. /\ overlapped' = overlapped \ {c}
      /\ UNCHANGED <<exitHandlers, owed, abandoned, bound, server, registered>>
      BY <1>2 DEF ServerReturns, Top
<1> HIDE DEF below
<1>6. n \in Depths(t) /\ \A i \in 1 .. n : i > n - 1 => i = n
      BY <1>2 DEF Depths
<1>7. /\ frames' \in [All -> Seq(Frame)] /\ \A u \in All : u # t => frames'[u] = frames[u]
      /\ alive' \in [All -> BOOLEAN] /\ busy' \in [Clients -> BOOLEAN] /\ misled' \subseteq Clients
      /\ \A u \in All : u # t => alive'[u] = alive[u]
      /\ ~alive'[t] => frames'[t] = <<>>
      BY <1>1, <1>2, <1>3, <1>4, FinishFacts
<1>8. reply \in Clients \cup {None}
      BY <1>1, <1>3, <1>4 DEF TypeOK
<1>9. buffer' \in [Servers -> Clients \cup {None}]
  <2>1. (IF Served(s) = {c} THEN None ELSE reply) \in Clients \cup {None}
        BY <1>8
  <2> QED BY <1>1, <1>4, <2>1 DEF TypeOK
<1>10. TypeOK'
      BY <1>1, <1>5, <1>7, <1>9 DEF TypeOK
<1>11. c \in overlapped \/ reply = c
  <2>1. CASE s = Own
        BY <1>4, <2>1
  <2>2. CASE s # Own
    <3>1. s \in Servers /\ Uses(t, n, s)
          BY <1>3, <2>2 DEF Uses
    <3>2. c \in overlapped \/ buffer[s] = c
          BY <1>1, <1>6, <3>1 DEF CallsInv, BufferHeld
    <3> QED BY <1>4, <2>2, <3>2
  <2> QED BY <2>1, <2>2
<1>12. c \notin abandoned
  <2>1. HeldIn(frames, c)
        BY <1>3, <1>6 DEF HeldIn, Depths
  <2> QED BY <1>1, <2>1, OutstandingHeld DEF CallsInv, AbandonedGone
<1>13. ASSUME NEW u \in All, NEW i \in 1 .. Len(frames[u]),
              Carrying(frames[u][i]), frames[u][i].client = c
       PROVE  u = t /\ i = n
      BY <1>1, <1>3, <1>6, <1>13 DEF CallsInv, CarriedOnce, Depths
<1>14. /\ BusyExact' /\ CarriedOnce' /\ AbandonedGone' /\ RepliesMatch' /\ Others(c)
       /\ \A u \in All : \A i \in 1 .. Len(frames'[u]) :
             frames'[u][i].kind = "server" => frames'[u][i].client # c
  <2>1. Len(below) <= Len(frames[t]) /\ n > Len(below)
        BY <1>2
  <2>2. \A i \in 1 .. Len(below) : below[i] = frames[t][i]
        BY <1>2
  <2>3. \A i \in 1 .. Len(frames[t]) :
           i > Len(below) /\ Carrying(frames[t][i]) => frames[t][i].client = c
        BY <1>2, <1>6
  <2>4. \A u \in All : \A i \in 1 .. Len(frames[u]) :
           Carrying(frames[u][i]) /\ frames[u][i].client = c => u = t /\ i > Len(below)
        BY <1>13, <2>1
  <2>5. abandoned' = abandoned
        BY <1>5
  <2> HIDE DEF n, c, s
  <2> QED BY <1>1, <1>2, <1>3, <1>4, <1>10, <1>11, <1>12, <2>1, <2>2, <2>3, <2>4, <2>5, CallsOfFinish
<1> HIDE DEF c, s, n
<1>15. ASSUME NEW d \in Servers, NEW u \in All, NEW i \in Depths(u), Uses(u, i, d),
              frames[u][i].client # c
       PROVE  buffer'[d] = buffer[d] \/ frames[u][i].client \in overlapped'
  <2>1. CASE d # s \/ s = Own
        BY <1>1, <1>4, <2>1 DEF TypeOK
  <2>2. CASE d = s /\ s # Own
    <3>1. Uses(t, n, s) /\ ~(u = t /\ i = n)
          BY <1>3, <1>15 DEF Uses, s, c
    <3>2. frames[u][i].client \in overlapped
          BY <1>1, <1>6, <1>15, <2>2, <3>1 DEF CallsInv, SharingKnown
    <3> QED BY <1>5, <1>15, <3>2
  <2> QED BY <2>1, <2>2
<1>16. BufferHeld' /\ SharingKnown'
  <2>1. overlapped \ {c} \subseteq overlapped'
        BY <1>5
  <2> QED BY <1>1, <1>3, <1>10, <1>14, <1>15, <2>1, FewerServers
<1>17. Layout(frames'[t]) /\ ExitsOwed(frames'[t], owed'[t])
  <2>1. PICK end \in BOOLEAN, f \in Frame :
           /\ f.kind = "end" /\ f.stack = Len(below)
           /\ frames'[t] = IF end THEN Append(below, f) ELSE below
        BY <1>1, <1>2, <1>3, <1>4, FinishFacts
  <2>2. Last(frames[t]).kind # "exit" /\ owed' = owed
        BY <1>2, <1>3, <1>5
  <2>3. Layout(below) /\ ExitsOwed(below, owed[t])
        BY <1>1, <2>2, PopLayout, PopOwed DEF below
  <2>4. f.kind # "exit" /\ f.stack \in {Own, Len(below)}
        BY <2>1
  <2>5. Layout(Append(below, f)) /\ ExitsOwed(Append(below, f), owed[t])
        BY <1>2, <2>3, <2>4, PushLayout, PushOwed
  <2> QED BY <2>1, <2>2, <2>3, <2>5
<1>18. ExitsInv'
      BY <1>1, <1>5, <1>7, <1>17, SameExits
<1> QED BY <1>10, <1>14, <1>16, <1>18 DEF IInv, CallsInv

LEMMA InitHolds ==
    Init => IInv
<1> SUFFICES ASSUME Init
             PROVE  IInv
    OBVIOUS
<1>1. /\ <<>> \in Seq(Frame) /\ <<>> \in Seq(Handlers) /\ Len(<<>>) = 0
      /\ \A t \in All : frames[t] = <<>> /\ owed[t] = <<>>
      BY DEF Init
<1>2. TypeOK
      BY <1>1 DEF Init, TypeOK
<1>3. \A t \in All : Depths(t) = {} /\ DOMAIN frames[t] = {}
      BY <1>1 DEF Depths
<1>4. \A c \in Clients : ~Outstanding(c)
      BY <1>3 DEF Outstanding
<1>5. BusyExact /\ AbandonedGone /\ RepliesMatch
      BY <1>4 DEF Init, BusyExact, AbandonedGone, RepliesMatch
<1>6. CarriedOnce /\ BufferHeld /\ SharingKnown
      BY <1>3 DEF CarriedOnce, BufferHeld, SharingKnown
<1>7. Layout(<<>>) /\ ExitsOwed(<<>>, <<>>)
      BY DEF Layout, ExitsOwed
<1>8. ExitsInv
      BY <1>1, <1>7 DEF ExitsInv
<1> QED BY <1>2, <1>5, <1>6, <1>8 DEF IInv, CallsInv

LEMMA StepKeeps ==
    IInv /\ [Next]_vars => IInv'
<1> SUFFICES ASSUME IInv, [Next]_vars
             PROVE  IInv'
    OBVIOUS
<1>1. ASSUME NEW t \in All, StartThread(t)
      PROVE  IInv'
      BY <1>1, StartThreadKeeps
<1>2. ASSUME NEW t \in All, ThreadReturns(t)
      PROVE  IInv'
      BY <1>2, ThreadReturnsKeeps
<1>3. ASSUME NEW t \in All, TerminateThread(t)
      PROVE  IInv'
      BY <1>3, TerminateThreadKeeps
<1>4. ASSUME NEW t \in All, DeleteThread(t)
      PROVE  IInv'
      BY <1>4, DeleteThreadKeeps
<1>5. ASSUME NEW t \in All, ExitThread(t)
      PROVE  IInv'
      BY <1>5, ExitThreadKeeps
<1>6. ASSUME NEW t \in All, ExitHandlerReturns(t)
      PROVE  IInv'
      BY <1>6, ExitHandlerReturnsKeeps
<1>7. ASSUME NEW t \in All, PushInvocation(t)
      PROVE  IInv'
      BY <1>7, PushInvocationKeeps
<1>8. ASSUME NEW t \in All, HandlerReturns(t)
      PROVE  IInv'
      BY <1>8, HandlerReturnsKeeps
<1>9. ASSUME NEW t \in All, ServerReturns(t)
      PROVE  IInv'
      BY <1>9, ServerReturnsKeeps
<1>10. ASSUME NEW t \in All, EndFunctionReturns(t)
       PROVE  IInv'
      BY <1>10, EndFunctionReturnsKeeps
<1>11. ASSUME NEW t \in All, NEW h \in Handlers, RegisterExitHandler(t, h)
       PROVE  IInv'
      BY <1>11, RegisterExitHandlerKeeps
<1>12. ASSUME NEW t \in All, NEW n \in Numbers, SystemCall(t, n)
       PROVE  IInv'
      BY <1>12, SystemCallKeeps
<1>13. ASSUME NEW t \in All, NEW c \in Clients, SifCallRpc(t, c)
       PROVE  IInv'
      BY <1>13, SifCallRpcKeeps
<1>14. ASSUME NEW t \in All, NEW c \in Clients, NEW sid \in Sids, SifBindRpc(t, c, sid)
       PROVE  IInv'
      BY <1>14, SifBindRpcKeeps
<1>15. ASSUME NEW t \in All, NEW s \in Servers, NEW sid \in Sids, SifRegisterRpc(t, s, sid)
       PROVE  IInv'
      BY <1>15, SifRegisterRpcKeeps
<1>16. CASE UNCHANGED vars
  <2>1. TypeOK'
        BY <1>16 DEF IInv, TypeOK, vars, threadVars, rpcVars
  <2> QED BY <1>16, <2>1, FramesKept DEF vars, threadVars, rpcVars
<1> QED BY <1>1, <1>2, <1>3, <1>4, <1>5, <1>6, <1>7, <1>8, <1>9, <1>10, <1>11, <1>12,
           <1>13, <1>14, <1>15, <1>16 DEF Next

LEMMA Invariant ==
    Spec => []IInv
BY InitHolds, StepKeeps, PTL DEF Spec

(***************************************************************************)
(* What follows.                                                           *)
(***************************************************************************)
\* The stack areas of a thread whose frames are laid out so.
LEMMA LayoutApart ==
    ASSUME NEW q \in Seq(Frame), Layout(q), NEW i \in 1 .. Len(q), NEW j \in 1 .. Len(q), i < j,
           ~(q[i + 1].kind = "exit" /\ q[i + 1].rest > 0), q[i].stack # Own
    PROVE  q[i].stack # q[j].stack
<1>1. Len(q) \in Nat /\ i \in Nat /\ j \in Nat /\ i + 1 \in 1 .. Len(q)
      OBVIOUS
<1>2. q[i].kind = "exit" => q[i].rest \in Nat
      BY FrameFacts
<1>3. q[j].kind = "exit" => q[j].rest \in Nat
      BY FrameFacts
<1>4. q[i].stack \in Int /\ q[i].stack <= i - 1
  <2>1. CASE q[i].kind # "exit"
        BY <1>1, <2>1 DEF Layout
  <2>2. CASE q[i].kind = "exit"
        BY <1>1, <1>2, <2>2 DEF Layout
  <2> QED BY <2>1, <2>2
<1>5. CASE q[j].kind # "exit"
  <2>1. q[j].stack \in {Own, j - 1}
        BY <1>5 DEF Layout
  <2> QED BY <1>1, <1>4, <2>1
<1>6. CASE q[j].kind = "exit"
  <2> DEFINE r == q[j].rest
  <2>1. /\ r \in Nat /\ r < j /\ q[j].stack = j - 1 - r
        /\ \A k \in 0 .. r : q[j - k].kind = "exit" /\ q[j - k].rest = r - k
        BY <1>3, <1>6 DEF Layout
  <2>2. i < j - r
    <3>1. SUFFICES ASSUME j - r <= i
                   PROVE  FALSE
          BY <1>1, <2>1
    <3>2. /\ j - (i + 1) \in 0 .. r /\ j - (j - (i + 1)) = i + 1
          /\ r - (j - (i + 1)) > 0
          BY <1>1, <2>1, <3>1
    <3>3. q[i + 1].kind = "exit" /\ q[i + 1].rest = r - (j - (i + 1))
          BY <2>1, <3>2
    <3> QED BY <3>2, <3>3
  <2> QED BY <1>1, <1>4, <2>1, <2>2
<1> QED BY <1>5, <1>6

LEMMA StacksFollow ==
    IInv => StacksApart
<1> SUFFICES ASSUME IInv
             PROVE  StacksApart
    OBVIOUS
<1>1. ASSUME NEW t \in All, NEW i \in DOMAIN frames[t], NEW j \in DOMAIN frames[t],
             i # j, frames[t][i].stack # Own, Begun(t, i), Begun(t, j)
      PROVE  frames[t][i].stack # frames[t][j].stack
  <2>1. /\ frames[t] \in Seq(Frame) /\ Layout(frames[t]) /\ Len(frames[t]) \in Nat
        /\ i \in 1 .. Len(frames[t]) /\ j \in 1 .. Len(frames[t])
        BY FramesOf DEF IInv, ExitsInv
  <2>2. CASE i < j
    <3>1. i < Len(frames[t])
          BY <2>1, <2>2
    <3> QED BY <1>1, <2>1, <2>2, <3>1, LayoutApart DEF Begun
  <2>3. CASE j < i /\ frames[t][j].stack # Own
    <3>1. j < Len(frames[t])
          BY <2>1, <2>3
    <3> QED BY <1>1, <2>1, <2>3, <3>1, LayoutApart DEF Begun
  <2>4. CASE frames[t][j].stack = Own
        BY <1>1, <2>4
  <2> QED BY <1>1, <2>1, <2>2, <2>3, <2>4
<1> QED BY <1>1 DEF StacksApart

LEMMA ExitsFollow ==
    IInv => ExitHandlersInOrder
<1> SUFFICES ASSUME IInv
             PROVE  ExitHandlersInOrder
    OBVIOUS
<1>1. ASSUME NEW t \in All, frames[t] # <<>>, Top(t).kind = "exit"
      PROVE  /\ owed[t] # <<>> /\ Top(t).function = Head(owed[t])
             /\ Top(t).rest = 0 <=> Len(owed[t]) = 1
  <2> DEFINE n == Len(frames[t])
  <2>1. /\ frames[t] \in Seq(Frame) /\ Layout(frames[t]) /\ ExitsOwed(frames[t], owed[t])
        /\ owed[t] \in Seq(Handlers)
        BY FramesOf DEF IInv, ExitsInv
  <2>2. n \in Nat \ {0} /\ Top(t) = frames[t][n] /\ frames[t][n] \in Frame
        BY <1>1, <2>1, FrontFacts DEF Top
  <2>3. frames[t][n].rest \in Nat
        BY <1>1, <2>2, FrameFacts
  <2>4. /\ Len(owed[t]) = frames[t][n].rest + 1
        /\ \A k \in 0 .. frames[t][n].rest : frames[t][n - k].function = owed[t][k + 1]
    <3>1. frames[t][n].kind = "exit" /\ n \in 1 .. Len(frames[t])
          /\ \A j \in n + 1 .. Len(frames[t]) : frames[t][j].kind # "exit"
          BY <1>1, <2>2
    <3>2. ExitsOwed(frames[t], owed[t])
          BY <2>1
    <3> HIDE DEF n
    <3> QED BY <3>1, <3>2 DEF ExitsOwed
  <2>5. 0 \in 0 .. frames[t][n].rest /\ n - 0 = n /\ 0 + 1 = 1
        BY <2>2, <2>3
  <2>6. frames[t][n].function = owed[t][1]
        BY <2>4, <2>5
  <2>7. owed[t] # <<>> /\ owed[t][1] = Head(owed[t])
        BY <2>1, <2>3, <2>4
  <2> QED BY <2>2, <2>3, <2>4, <2>6, <2>7
<1>2. ASSUME NEW t \in All, ~alive[t]
      PROVE  owed[t] = <<>>
      BY <1>2 DEF IInv, ExitsInv
<1> QED BY <1>1, <1>2 DEF ExitHandlersInOrder

(* Every call addresses structures that SifBindRpc or SifRegisterRpc has   *)
(* given it, and a thread's frames are always ones the runtime puts: the   *)
(* variables keep their types.                                             *)
THEOREM CallTypes ==
    Spec => []TypeOK
BY Invariant, PTL DEF IInv

(* SifCheckStatRpc tells the truth: a client is busy exactly while its     *)
(* call is under way, or after the call's thread has ended before it.      *)
THEOREM BusyTruth ==
    Spec => []BusyExact
BY Invariant, PTL DEF IInv, CallsInv

(* The reply that a call brings back answers its own request, unless the   *)
(* call shared the server's buffer with another one.                       *)
THEOREM RepliesRight ==
    Spec => []RepliesMatch
BY Invariant, PTL DEF IInv, CallsInv

(* The exit handlers of a thread run in the order of registration, each    *)
(* once, and the last of them ends the thread.                             *)
THEOREM ExitsInOrder ==
    Spec => []ExitHandlersInOrder
BY Invariant, ExitsFollow, PTL

(* Two functions of a thread that have both begun use different stack      *)
(* areas.                                                                  *)
THEOREM AreasApart ==
    Spec => []StacksApart
BY Invariant, StacksFollow, PTL

-----------------------------------------------------------------------------
(***************************************************************************)
(* MoviePlayback.  One handle: whatever the demultiplexer, the decoder and *)
(* the clock do, its record stays one, and its pictures a sequence.        *)
(***************************************************************************)
LEMMA MinOfTwo ==
    ASSUME NEW a \in Int, NEW b \in Int
    PROVE  Min({a, b}) \in {a, b} /\ Min({a, b}) <= a /\ Min({a, b}) <= b
<1>1. \E x \in {a, b} : \A y \in {a, b} : x <= y
  <2>1. CASE a <= b
        BY <2>1
  <2>2. CASE b <= a
        BY <2>2
  <2> QED BY <2>1, <2>2
<1> QED BY <1>1 DEF Min

LEMMA MinOfThree ==
    ASSUME NEW a \in Int, NEW b \in Int, NEW c \in Int
    PROVE  /\ Min({a, b, c}) \in {a, b, c}
           /\ Min({a, b, c}) <= a /\ Min({a, b, c}) <= b /\ Min({a, b, c}) <= c
<1>1. \E x \in {a, b, c} : \A y \in {a, b, c} : x <= y
  <2>1. CASE a <= b /\ a <= c
        BY <2>1
  <2>2. CASE b <= a /\ b <= c
        BY <2>2
  <2>3. CASE c <= a /\ c <= b
        BY <2>3
  <2> QED BY <2>1, <2>2, <2>3
<1> QED BY <1>1 DEF Min

LEMMA MaxOfTwo ==
    ASSUME NEW a \in Int, NEW b \in Int
    PROVE  Max({a, b}) \in {a, b} /\ Max({a, b}) >= a /\ Max({a, b}) >= b
<1>1. \E x \in {a, b} : \A y \in {a, b} : x >= y
  <2>1. CASE a <= b
        BY <2>1
  <2>2. CASE b <= a
        BY <2>2
  <2> QED BY <2>1, <2>2
<1> QED BY <1>1 DEF Max

\* Some of a sequence, from an entry on.
LEMMA SomeOf ==
    ASSUME NEW T, NEW q \in Seq(T), NEW i \in Nat \ {0}, NEW n \in Int, n <= Len(q)
    PROVE  SubSeq(q, i, n) \in Seq(T)
<1>1. \A k \in i .. n : q[k] \in T
  <2> SUFFICES ASSUME NEW k \in i .. n
               PROVE  q[k] \in T
      OBVIOUS
  <2>1. k \in 1 .. Len(q)
        OBVIOUS
  <2> QED BY <2>1
<1> QED BY <1>1, SubSeqProperties

LEMMA AbsentIsNone ==
    ASSUME NEW x
    PROVE  /\ x \in Playback => x # Absent
           /\ x \in Decoder => x # Absent
           /\ x \in Int => x # NoTime
BY PlaybackAssumption

LEMMA FreshTyped ==
    /\ Default \in Playback /\ Default.frames = <<>>
    /\ \A g \in Nat : Fresh(g) \in Playback /\ Fresh(g).frames = <<>>
<1>1. Default \in Playback /\ Default.frames = <<>>
      BY PlaybackAssumption DEF Default, Playback, Time
<1> HIDE DEF Default
<1>2. \A g \in Nat : Fresh(g) \in Playback /\ Fresh(g).frames = <<>>
      BY <1>1 DEF Fresh, Playback
<1> QED BY <1>1, <1>2

LEMMA DecodedTyped ==
    ASSUME NEW pb \in Playback, pb.decoder # Absent, NEW pics \in Seq(Picture)
    PROVE  Decoded(pb, pics) \in Playback
<1> DEFINE all == pb.decoder.held \o pics
           out == Max({0, Len(all) - Delay})
<1>1. pb.decoder \in Decoder
      BY DEF Playback
<1>2. all \in Seq(Picture) /\ Len(all) \in Nat
      BY <1>1 DEF Decoder
<1>3. out \in Nat /\ out <= Len(all)
  <2> HIDE DEF all
  <2>1. 0 \in Int /\ Len(all) - Delay \in Int /\ Len(all) - Delay <= Len(all)
        BY <1>2, PlaybackAssumption
  <2>2. out \in {0, Len(all) - Delay} /\ out >= 0
        BY <2>1, MaxOfTwo
  <2> HIDE DEF out
  <2> QED BY <1>2, <2>1, <2>2
<1>4. SubSeq(all, 1, out) \in Seq(Picture) /\ SubSeq(all, out + 1, Len(all)) \in Seq(Picture)
  <2> HIDE DEF all, out
  <2>1. 1 \in Nat \ {0} /\ out \in Int /\ out + 1 \in Nat \ {0} /\ Len(all) \in Int
        BY <1>2, <1>3
  <2> QED BY <1>2, <1>3, <2>1, SomeOf
<1> DEFINE shown == SubSeq(all, 1, out)
           kept == SubSeq(all, out + 1, Len(all))
<1>5. Decoded(pb, pics) = IF pb.decoder.drained THEN pb
                          ELSE [pb EXCEPT !.frames = pb.frames \o shown,
                                          !.decoder.held = kept]
      BY DEF Decoded
<1> HIDE DEF all, out, shown, kept
<1>6. shown \in Seq(Picture) /\ kept \in Seq(Picture)
      BY <1>4 DEF shown, kept
<1>7. pb.frames \o shown \in Seq(Picture)
      BY <1>6 DEF Playback
<1>8. [pb.decoder EXCEPT !.held = kept] \in Decoder
      BY <1>1, <1>6 DEF Decoder
<1>9. [pb EXCEPT !.frames = pb.frames \o shown, !.decoder.held = kept] \in Playback
      BY <1>7, <1>8 DEF Playback
<1> QED BY <1>5, <1>9

LEMMA FlushedTyped ==
    ASSUME NEW pb \in Playback
    PROVE  /\ Flushed(pb) \in Playback /\ FlushedIfEnded(pb) \in Playback
           /\ Flushed(pb).ended = pb.ended
<1>1. CASE pb.decoder = Absent
      BY <1>1 DEF Flushed, FlushedIfEnded
<1>2. CASE pb.decoder # Absent
  <2>1. pb.decoder \in Decoder
        BY <1>2 DEF Playback
  <2>2. pb.frames \o pb.decoder.held \in Seq(Picture)
        BY <2>1 DEF Playback, Decoder
  <2>3. [held |-> <<>>, drained |-> TRUE] \in Decoder
        BY DEF Decoder
  <2> DEFINE all == pb.frames \o pb.decoder.held
             d == [held |-> <<>>, drained |-> TRUE]
  <2>4. Flushed(pb) = [pb EXCEPT !.frames = all, !.decoder = d]
        BY <1>2 DEF Flushed
  <2> HIDE DEF all, d
  <2>5. [pb EXCEPT !.frames = all, !.decoder = d] \in Playback
        BY <2>2, <2>3 DEF all, d, Playback
  <2>6. [pb EXCEPT !.frames = all, !.decoder = d].ended = pb.ended
        BY DEF Playback
  <2> QED BY <2>4, <2>5, <2>6 DEF FlushedIfEnded
<1> QED BY <1>1, <1>2

LEMMA FedTyped ==
    ASSUME NEW old \in Playback, NEW packet \in Packets, NEW pics \in Seq(Picture)
    PROVE  Fed(old, packet, pics) \in Playback
<1> DEFINE input == [old EXCEPT !.sawInput = TRUE]
           pb == Timed(input, packet)
           sync == IF pb.waitSeq THEN Synchronised(pb) ELSE pb
           fresh == [held |-> <<>>, drained |-> FALSE]
           ready == IF sync.decoder # Absent THEN sync ELSE [sync EXCEPT !.decoder = fresh]
<1>1. input \in Playback
      BY DEF Playback
<1>2. packet.rate \in Nat
      BY DEF Packets
<1> HIDE DEF input
<1>3. pb \in Playback
      BY <1>1, <1>2 DEF Timed, Playback
<1> HIDE DEF pb
<1>4. Synchronised(pb) \in Playback
  <2>1. NoTime \in Time /\ Absent \in Decoder \cup {Absent} /\ <<>> \in Seq(Picture)
        /\ <<>> \in Seq([pic : Picture, age : Int, length : Nat]) /\ 0 \in Int
        BY DEF Time
  <2> QED BY <1>3, <2>1 DEF Synchronised, Playback
<1>5. sync \in Playback
      BY <1>3, <1>4
<1> HIDE DEF sync
<1>6. fresh \in Decoder
      BY DEF Decoder
<1> HIDE DEF fresh
<1>7. ready \in Playback /\ ready.decoder # Absent
  <2>1. CASE sync.decoder # Absent
        BY <1>5, <2>1
  <2>2. CASE sync.decoder = Absent
    <3>1. [sync EXCEPT !.decoder = fresh] \in Playback
          /\ [sync EXCEPT !.decoder = fresh].decoder = fresh
          BY <1>5, <1>6 DEF Playback
    <3> QED BY <1>6, <2>2, <3>1, AbsentIsNone
  <2> QED BY <2>1, <2>2
<1>8. Fed(old, packet, pics) =
        IF pb.waitSeq /\ packet.rate = 0 THEN pb
        ELSE IF packet.bad THEN [ready EXCEPT !.decoder = Absent, !.waitSeq = TRUE]
             ELSE FlushedIfEnded(Decoded(ready, pics))
      BY DEF Fed, pb, sync, ready, fresh, input
<1> HIDE DEF ready
<1>9. [ready EXCEPT !.decoder = Absent, !.waitSeq = TRUE] \in Playback
      BY <1>7 DEF Playback
<1>10. FlushedIfEnded(Decoded(ready, pics)) \in Playback
       BY <1>7, DecodedTyped, FlushedTyped
<1> QED BY <1>3, <1>8, <1>9, <1>10

LEMMA TakenTyped ==
    ASSUME NEW pb \in Playback, NEW packet \in Packets, NEW n \in Nat, NEW gen \in Nat
    PROVE  Taken(pb, packet, n, gen) \in Playback
<1>1. packet.kind \in {"video", "end", "other"} /\ packet.pics \in Seq(Picture)
      BY DEF Packets
<1>2. ASSUME NEW q \in Playback
      PROVE  [q EXCEPT !.pss = SubSeq(q.pss, n + 1, Len(q.pss))] \in Playback
  <2>1. q.pss \in Seq(Nat) /\ n + 1 \in Nat \ {0} /\ Len(q.pss) \in Int
        BY DEF Playback
  <2>2. SubSeq(q.pss, n + 1, Len(q.pss)) \in Seq(Nat)
        BY <2>1, SomeOf
  <2> QED BY <2>2 DEF Playback
<1>3. CASE packet.kind = "end"
  <2>0. <<>> \in Seq(Nat)
        OBVIOUS
  <2>1. [pb EXCEPT !.ended = TRUE, !.gen = gen, !.pss = <<>>] \in Playback
        BY <2>0 DEF Playback
  <2> QED BY <1>3, <2>1, FlushedTyped DEF Taken
<1>4. CASE packet.kind = "video" /\ n > 1
  <2> DEFINE m == Min({n - 1, Len(packet.pics)})
             pics == SubSeq(packet.pics, 1, m)
             q == Fed(pb, packet, pics)
  <2>1. n - 1 \in Int /\ Len(packet.pics) \in Int
        BY <1>1
  <2>2. m \in Int /\ m <= Len(packet.pics)
    <3>1. Min({n - 1, Len(packet.pics)}) \in {n - 1, Len(packet.pics)}
          /\ Min({n - 1, Len(packet.pics)}) <= Len(packet.pics)
          BY <2>1, MinOfTwo
    <3> QED BY <2>1, <3>1
  <2> HIDE DEF m
  <2>3. pics \in Seq(Picture)
        BY <1>1, <2>2, SomeOf
  <2>4. Taken(pb, packet, n, gen) = [q EXCEPT !.pss = SubSeq(q.pss, n + 1, Len(q.pss))]
        BY <1>4 DEF Taken, m
  <2> HIDE DEF pics
  <2>5. q \in Playback
        BY <2>3, FedTyped
  <2> HIDE DEF q
  <2> QED BY <1>2, <2>4, <2>5
<1>5. CASE packet.kind # "end" /\ ~(packet.kind = "video" /\ n > 1)
      BY <1>2, <1>5 DEF Taken
<1> QED BY <1>3, <1>4, <1>5

LEMMA ExaminedTyped ==
    ASSUME NEW pb \in Playback, NEW packets \in Seq(Packets), NEW gen \in Nat, NEW final
    PROVE  Examined(pb, packets, gen, final) \in Playback
<1> DEFINE starts == {k \in DOMAIN pb.pss : StartsAt(packets, pb.pss[k]) # {}}
           at == Min(starts)
           packet == packets[CHOOSE i \in StartsAt(packets, pb.pss[at]) : TRUE]
           here == [pb EXCEPT !.pss = SubSeq(pb.pss, at, Len(pb.pss))]
           there == Len(here.pss)
<1>1. Examined(pb, packets, gen, final) =
        IF pb.ended \/ starts = {} THEN [pb EXCEPT !.pss = <<>>]
        ELSE IF there < packet.len /\ ~final THEN here
             ELSE IF there < packet.len /\ packet.kind = "other" THEN [here EXCEPT !.pss = <<>>]
                  ELSE Taken(here, packet, Min({packet.len, there}), gen)
      BY DEF Examined
<1>2. ASSUME NEW q \in Playback
      PROVE  [q EXCEPT !.pss = <<>>] \in Playback
  <2>1. <<>> \in Seq(Nat)
        OBVIOUS
  <2> QED BY <2>1 DEF Playback
<1>3. ASSUME starts # {}
      PROVE  here \in Playback /\ packet \in Packets /\ Min({packet.len, there}) \in Nat
  <2>1. pb.pss \in Seq(Nat) /\ starts \subseteq Nat /\ starts \subseteq 1 .. Len(pb.pss)
        BY DEF Playback
  <2>2. at \in starts
    <3> HIDE DEF starts
    <3> QED BY <1>3, <2>1, LeastElement
  <2>3. StartsAt(packets, pb.pss[at]) # {} /\ StartsAt(packets, pb.pss[at]) \subseteq DOMAIN packets
        BY <2>2 DEF StartsAt
  <2>4. packet \in Packets
    <3> DEFINE i == CHOOSE i \in StartsAt(packets, pb.pss[at]) : TRUE
    <3>1. i \in DOMAIN packets
          BY <2>3
    <3> HIDE DEF i
    <3>2. packets[i] \in Packets
          BY <3>1
    <3> QED BY <3>2 DEF i
  <2>5. at \in Nat \ {0} /\ Len(pb.pss) \in Int
        BY <2>1, <2>2
  <2> HIDE DEF at, packet, starts
  <2>6. SubSeq(pb.pss, at, Len(pb.pss)) \in Seq(Nat)
        BY <2>1, <2>5, SomeOf
  <2>7. here \in Playback
        BY <2>6 DEF Playback
  <2> HIDE DEF here
  <2>8. there \in Nat
        BY <2>7 DEF Playback
  <2>9. packet.len \in Nat
        BY <2>4 DEF Packets
  <2> HIDE DEF there
  <2>10. Min({packet.len, there}) \in {packet.len, there}
    <3>1. packet.len \in Int /\ there \in Int
          BY <2>8, <2>9
    <3> QED BY <3>1, MinOfTwo
  <2> QED BY <2>4, <2>7, <2>8, <2>9, <2>10
<1> HIDE DEF starts, at, packet, here, there
<1> QED BY <1>1, <1>2, <1>3, TakenTyped

\* The demultiplexer's loop: a recursive function, so that one exists has to be
\* shown first.
IsTurns(f, n, pb, packets, gen, final) ==
    f = [k \in 0 .. n |-> IF k = 0 THEN pb ELSE Examined(f[k - 1], packets, gen, final)]

LEMMA TurnsExist ==
    ASSUME NEW pb, NEW packets, NEW gen, NEW final, NEW n \in Nat
    PROVE  \E f : IsTurns(f, n, pb, packets, gen, final)
<1> DEFINE E(x) == Examined(x, packets, gen, final)
           Upto(m, f) == /\ f = [k \in 0 .. m |-> f[k]]
                         /\ f[0] = pb
                         /\ \A k \in 1 .. m : f[k] = E(f[k - 1])
           N == {m \in Nat : \E f : Upto(m, f)}
<1> HIDE DEF E
<1>1. 0 \in N
  <2> DEFINE e == [k \in 0 .. 0 |-> pb]
  <2>1. e = [k \in 0 .. 0 |-> e[k]] /\ e[0] = pb
        OBVIOUS
  <2>2. \A k \in 1 .. 0 : e[k] = E(e[k - 1])
        OBVIOUS
  <2>3. Upto(0, e)
        BY <2>1, <2>2
  <2> QED BY <2>3
<1>2. ASSUME NEW m \in N PROVE m + 1 \in N
  <2>1. m \in Nat
        OBVIOUS
  <2>2. PICK f : Upto(m, f)
        OBVIOUS
  <2> DEFINE g == [k \in 0 .. m + 1 |-> IF k = m + 1 THEN E(f[m]) ELSE f[k]]
  <2>3. g[m + 1] = E(f[m])
        BY <2>1
  <2>4. \A k \in 0 .. m : g[k] = f[k]
        BY <2>1
  <2>5. g = [k \in 0 .. m + 1 |-> g[k]]
        OBVIOUS
  <2> HIDE DEF g
  <2>6. g[0] = pb
        BY <2>1, <2>2, <2>4
  <2>7. ASSUME NEW k \in 1 .. m + 1 PROVE g[k] = E(g[k - 1])
    <3>1. CASE k = m + 1
      <4>1. k - 1 = m /\ m \in 0 .. m
            BY <2>1, <3>1
      <4> QED BY <2>3, <2>4, <3>1, <4>1
    <3>2. CASE k # m + 1
      <4>1. k \in 1 .. m /\ k \in 0 .. m /\ k - 1 \in 0 .. m
            BY <2>1, <3>2
      <4>2. f[k] = E(f[k - 1])
            BY <2>2, <4>1
      <4> QED BY <2>4, <4>1, <4>2
    <3> QED BY <3>1, <3>2
  <2>8. Upto(m + 1, g)
        BY <2>5, <2>6, <2>7
  <2>9. m + 1 \in Nat
        BY <2>1
  <2>10. \E h : Upto(m + 1, h)
         BY <2>8
  <2> HIDE DEF Upto
  <2> QED BY <2>9, <2>10
<1>3. N = Nat
  <2> HIDE DEF N
  <2>1. N \in SUBSET Nat
        BY DEF N
  <2> QED BY <1>1, <1>2, <2>1, SetInduction
<1>4. PICK f : Upto(n, f)
      BY <1>3
<1>5. \A k \in 0 .. n : f[k] = IF k = 0 THEN pb ELSE E(f[k - 1])
  <2> SUFFICES ASSUME NEW k \in 0 .. n
               PROVE  f[k] = IF k = 0 THEN pb ELSE E(f[k - 1])
      OBVIOUS
  <2>1. CASE k = 0
        BY <1>4, <2>1
  <2>2. CASE k # 0
    <3>1. k \in 1 .. n
          BY <2>2
    <3> QED BY <1>4, <2>2, <3>1
  <2> QED BY <2>1, <2>2
<1>6. f = [k \in 0 .. n |-> IF k = 0 THEN pb ELSE E(f[k - 1])]
      BY <1>4, <1>5
<1>7. IsTurns(f, n, pb, packets, gen, final)
      BY <1>6 DEF E, IsTurns
<1> QED BY <1>7

LEMMA ProcessedTyped ==
    ASSUME NEW pb \in Playback, NEW packets \in Seq(Packets), NEW gen \in Nat, NEW final
    PROVE  Processed(pb, packets, gen, final) \in Playback
<1> DEFINE n == Len(pb.pss)
           turns == CHOOSE f : IsTurns(f, n, pb, packets, gen, final)
<1>1. n \in Nat
      BY DEF Playback
<1> HIDE DEF n
<1>2. \E f : IsTurns(f, n, pb, packets, gen, final)
      BY <1>1, TurnsExist
<1>3. turns = [k \in 0 .. n |-> IF k = 0 THEN pb
                                ELSE Examined(turns[k - 1], packets, gen, final)]
  <2>1. IsTurns(turns, n, pb, packets, gen, final)
        BY <1>2
  <2> HIDE DEF turns
  <2> QED BY <2>1 DEF IsTurns
<1>4. Processed(pb, packets, gen, final) = turns[n]
      BY DEF Processed, n, IsTurns
<1> HIDE DEF turns
<1> DEFINE B == {k \in Nat : k <= n => turns[k] \in Playback}
<1>5. 0 \in B
  <2>1. 0 \in 0 .. n
        BY <1>1
  <2>2. turns[0] = pb
        BY <1>3, <2>1
  <2> QED BY <2>2
<1>6. ASSUME NEW k \in B PROVE k + 1 \in B
  <2> SUFFICES ASSUME k + 1 <= n
               PROVE  turns[k + 1] \in Playback
      OBVIOUS
  <2>1. k \in Nat /\ k + 1 \in 0 .. n /\ k + 1 # 0 /\ (k + 1) - 1 = k /\ k <= n
        BY <1>1
  <2>2. turns[k + 1] = Examined(turns[(k + 1) - 1], packets, gen, final)
        BY <1>3, <2>1
  <2>3. turns[k] \in Playback
        BY <2>1
  <2> QED BY <2>1, <2>2, <2>3, ExaminedTyped
<1>7. B = Nat
  <2> HIDE DEF B
  <2>1. B \in SUBSET Nat
        BY DEF B
  <2> QED BY <1>5, <1>6, <2>1, SetInduction
<1>8. n \in B
      BY <1>1, <1>7
<1> QED BY <1>1, <1>4, <1>8

LEMMA AppendedTyped ==
    ASSUME NEW old \in Playback, NEW cells \in Seq(Nat), NEW packets \in Seq(Packets),
           NEW gen \in Nat
    PROVE  Appended(old, cells, packets, gen) \in Playback
<1> DEFINE pb == IF Stale(old, gen) THEN Fresh(gen) ELSE old
           input == [pb EXCEPT !.gen = gen, !.sawInput = TRUE, !.pss = pb.pss \o cells,
                               !.fed = pb.fed \o cells]
<1>1. Appended(old, cells, packets, gen) =
        IF pb.ended THEN [pb EXCEPT !.sawInput = TRUE]
        ELSE Processed(input, packets, gen, FALSE)
      BY DEF Appended
<1>2. pb \in Playback
      BY FreshTyped
<1> HIDE DEF pb
<1>3. pb.pss \o cells \in Seq(Nat) /\ pb.fed \o cells \in Seq(Nat)
      BY <1>2 DEF Playback
<1>4. input \in Playback /\ [pb EXCEPT !.sawInput = TRUE] \in Playback
      BY <1>2, <1>3 DEF Playback
<1> HIDE DEF input
<1> QED BY <1>1, <1>4, ProcessedTyped

LEMMA FinishedTyped ==
    ASSUME NEW pb \in Playback, NEW packets \in Seq(Packets), NEW gen \in Nat
    PROVE  Finished(pb, packets, gen) \in Playback
<1> DEFINE q == Processed(pb, packets, gen, TRUE)
<1>1. q \in Playback
      BY ProcessedTyped
<1> HIDE DEF q
<1>2. [q EXCEPT !.ended = TRUE, !.gen = gen] \in Playback
      BY <1>1 DEF Playback
<1> QED BY <1>2, FlushedTyped DEF Finished, q

(***************************************************************************)
(* The clock, for a handle with a picture.                                 *)
(***************************************************************************)
\* A time at which the head of the queue is due is known.
Timely(pb) ==
    /\ pb \in Playback /\ pb.frames # <<>>
    /\ IF Head(pb.frames).pts = NoTime THEN pb.next \in Int ELSE pb.firstPts \in Int

LEMMA HeadTyped ==
    ASSUME NEW pb \in Playback, pb.frames # <<>>
    PROVE  /\ pb.frames \in Seq(Picture) /\ Tail(pb.frames) \in Seq(Picture)
           /\ Head(pb.frames) \in Picture /\ Head(pb.frames).repeat \in Nat
           /\ Head(pb.frames).pts # NoTime => Head(pb.frames).pts \in Int
<1>1. pb.frames \in Seq(Picture)
      BY DEF Playback
<1>2. Head(pb.frames) \in Picture /\ Tail(pb.frames) \in Seq(Picture)
      BY <1>1, HeadTailProperties
<1> QED BY <1>1, <1>2 DEF Picture

LEMMA StartedTimely ==
    ASSUME NEW pb \in Playback, pb.frames # <<>>
    PROVE  Timely(Started(pb)) /\ Started(pb).frames = pb.frames
<1> DEFINE pts == Head(pb.frames).pts
<1>1. pts # NoTime => pts \in Int
      BY HeadTyped
<1>2. NoTime \notin Int /\ 0 \in Int
      BY PlaybackAssumption
<1>3. CASE pts = NoTime
  <2> DEFINE q == [pb EXCEPT !.next = IF pb.next = NoTime THEN 0 ELSE pb.next]
  <2>1. Started(pb) = q
        BY <1>3 DEF Started
  <2>2. pb.next \in Time
        BY DEF Playback
  <2>3. q \in Playback /\ q.frames = pb.frames /\ q.next \in Int
        BY <1>2, <2>2 DEF Playback, Time
  <2> HIDE DEF q
  <2> QED BY <1>3, <2>1, <2>3 DEF Timely
<1>4. CASE pts # NoTime /\ pb.firstPts = NoTime
  <2> DEFINE q == [pb EXCEPT !.firstPts = Head(pb.frames).pts, !.base = 0]
  <2>1. Started(pb) = q
        BY <1>4 DEF Started
  <2>2. q \in Playback /\ q.frames = pb.frames /\ q.firstPts \in Int
        BY <1>1, <1>2, <1>4 DEF Playback, Time
  <2> HIDE DEF q
  <2> QED BY <1>4, <2>1, <2>2 DEF Timely
<1>5. CASE pts # NoTime /\ pb.firstPts # NoTime
  <2>1. Started(pb) = pb
        BY <1>5 DEF Started
  <2>2. pb.firstPts \in Int
        BY <1>5 DEF Playback, Time
  <2> QED BY <1>5, <2>1, <2>2 DEF Timely
<1> QED BY <1>3, <1>4, <1>5

LEMMA DueTyped ==
    ASSUME NEW pb, Timely(pb)
    PROVE  Due(pb) \in Int /\ Interval(pb) \in Nat \ {0}
<1>1. pb \in Playback /\ pb.frames # <<>>
      BY DEF Timely
<1>2. /\ Head(pb.frames).repeat \in Nat
      /\ Head(pb.frames).pts # NoTime => Head(pb.frames).pts \in Int
      BY <1>1, HeadTyped
<1>3. Interval(pb) \in Nat \ {0}
  <2> DEFINE d == (pb.interval * (2 + Head(pb.frames).repeat) + 1) \div 2
  <2>1. d \in Int
    <3>1. pb.interval \in Nat
          BY <1>1 DEF Playback
    <3> QED BY <1>2, <3>1
  <2> HIDE DEF d
  <2>2. Field \in Nat \ {0} /\ Field \in Int
        BY PlaybackAssumption
  <2>3. Max({Field, d}) \in {Field, d} /\ Max({Field, d}) >= Field
        BY <2>1, <2>2, MaxOfTwo
  <2> QED BY <2>1, <2>2, <2>3 DEF Interval, d
<1>4. ASSUME NEW from \in Int, NEW to \in Int
      PROVE  PtsDelta(from, to) \in Int
  <2>1. PtsWrap \in Nat \ {0}
        BY PlaybackAssumption
  <2>2. (to - from) % PtsWrap \in Int
        BY <2>1
  <2> QED BY <2>1, <2>2 DEF PtsDelta
<1>5. CASE Head(pb.frames).pts = NoTime
      BY <1>3, <1>5 DEF Due, Timely
<1>6. CASE Head(pb.frames).pts # NoTime
  <2>1. pb.firstPts \in Int /\ Head(pb.frames).pts \in Int /\ pb.base \in Int
        BY <1>1, <1>2, <1>6 DEF Timely, Playback
  <2>2. PtsDelta(pb.firstPts, Head(pb.frames).pts) \in Int
        BY <1>4, <2>1
  <2> QED BY <1>3, <1>6, <2>1, <2>2 DEF Due
<1> QED BY <1>5, <1>6

LEMMA CaughtUpTimely ==
    ASSUME NEW pb, Timely(pb)
    PROVE  Timely(CaughtUp(pb)) /\ CaughtUp(pb).frames = pb.frames
<1>1. Due(pb) \in Int
      BY DueTyped
<1>2. pb \in Playback
      BY DEF Timely
<1> DEFINE b == IF Head(pb.frames).pts = NoTime THEN pb.base ELSE pb.base - Due(pb)
           q == [pb EXCEPT !.next = 0, !.base = b]
<1>3. CaughtUp(pb) = IF Due(pb) > -Interval(pb) THEN pb ELSE q
      BY DEF CaughtUp
<1>4. b \in Int
      BY <1>1, <1>2 DEF Playback
<1> HIDE DEF b
<1>5. q \in Playback /\ q.frames = pb.frames /\ q.next = 0 /\ q.firstPts = pb.firstPts
  <2>1. 0 \in Time
        BY DEF Time
  <2>2. q \in Playback
        BY <1>2, <1>4, <2>1 DEF Playback
  <2>3. q.frames = pb.frames /\ q.next = 0 /\ q.firstPts = pb.firstPts
        BY <1>2 DEF Playback
  <2> QED BY <2>2, <2>3
<1> HIDE DEF q
<1>6. Timely(q)
      BY <1>5 DEF Timely
<1> QED BY <1>3, <1>5, <1>6

LEMMA PresentedTyped ==
    ASSUME NEW pb, Timely(pb)
    PROVE  Presented(pb) \in Playback
<1> DEFINE end == Due(pb) + Interval(pb)
           picture == [pic |-> Head(pb.frames), age |-> 0, length |-> Interval(pb)]
           shown == Append(pb.shown, picture)
           queue == Tail(pb.frames)
           Shown == [pic : Picture, age : Int, length : Nat]
<1>1. pb \in Playback /\ Due(pb) \in Int /\ Interval(pb) \in Nat
      BY DueTyped DEF Timely
<1>2. Head(pb.frames) \in Picture /\ queue \in Seq(Picture)
      BY <1>1, HeadTyped DEF Timely
<1>3. end \in Time
      BY <1>1 DEF Time
<1>4. picture \in Shown
      BY <1>1, <1>2
<1>5. shown \in Seq(Shown)
  <2>1. pb.shown \in Seq(Shown)
        BY <1>1 DEF Playback
  <2> HIDE DEF picture, Shown
  <2> QED BY <1>4, <2>1
<1>6. Presented(pb) = [pb EXCEPT !.frames = queue, !.next = end, !.presEnd = end,
                                 !.shown = shown]
      BY DEF Presented
<1> HIDE DEF end, picture, shown, queue
<1> QED BY <1>1, <1>2, <1>3, <1>5, <1>6 DEF Playback

LEMMA AgedTyped ==
    ASSUME NEW pb \in Playback
    PROVE  Aged(pb) \in Playback /\ Aged(pb).frames = pb.frames
<1> DEFINE Shown == [pic : Picture, age : Int, length : Nat]
           next == Later(pb.next, -Longest)
           presEnd == Later(pb.presEnd, 0)
           base == IF pb.firstPts = NoTime THEN 0 ELSE Later(pb.base, -2 * Longest)
           shown == [k \in DOMAIN pb.shown |-> Older(pb.shown[k])]
<1>1. /\ Field \in Int /\ -Longest \in Int /\ -2 * Longest \in Int /\ Longest \in Int
      /\ NoTime \notin Int
      BY PlaybackAssumption
<1>2. ASSUME NEW t \in Int, NEW floor \in Int
      PROVE  Later(t, floor) \in Int
  <2>1. t - Field \in Int /\ t # NoTime
        BY <1>1
  <2>2. Max({t - Field, floor}) \in {t - Field, floor}
        BY <2>1, MaxOfTwo
  <2> QED BY <2>1, <2>2 DEF Later
<1>3. ASSUME NEW t \in Time, NEW floor \in Int
      PROVE  Later(t, floor) \in Time
  <2>1. CASE t = NoTime
        BY <2>1 DEF Later, Time
  <2>2. CASE t # NoTime
        BY <1>2, <2>2 DEF Time
  <2> QED BY <2>1, <2>2
<1>4. next \in Time /\ presEnd \in Time /\ base \in Int
  <2>1. pb.next \in Time /\ pb.presEnd \in Time /\ pb.base \in Int /\ 0 \in Int
        BY DEF Playback
  <2> QED BY <1>1, <1>2, <1>3, <2>1
<1>5. shown \in Seq(Shown)
  <2>1. pb.shown \in Seq(Shown)
        BY DEF Playback
  <2>2. ASSUME NEW k \in DOMAIN pb.shown
        PROVE  Older(pb.shown[k]) \in Shown
    <3>1. pb.shown[k] \in Shown
      <4> HIDE DEF Shown
      <4>1. k \in 1 .. Len(pb.shown)
            BY <2>1
      <4> QED BY <2>1, <4>1
    <3>2. pb.shown[k].age + Field \in Int
          BY <1>1, <3>1
    <3> DEFINE age == Min({pb.shown[k].age + Field, Longest})
    <3>3. age \in Int
      <4>1. age \in {pb.shown[k].age + Field, Longest}
            BY <1>1, <3>2, MinOfTwo
      <4> QED BY <1>1, <3>2, <4>1
    <3> HIDE DEF age
    <3> QED BY <3>1, <3>3 DEF age, Older
  <2>3. DOMAIN pb.shown = 1 .. Len(pb.shown) /\ Len(pb.shown) \in Nat
        BY <2>1
  <2>4. shown \in [1 .. Len(pb.shown) -> Shown]
    <3> HIDE DEF Shown
    <3> QED BY <2>2, <2>3
  <2> HIDE DEF shown, Shown
  <2> QED BY <2>3, <2>4
<1>6. Aged(pb) = [pb EXCEPT !.next = next, !.presEnd = presEnd, !.base = base, !.shown = shown]
      BY DEF Aged
<1> HIDE DEF next, presEnd, base, shown
<1> QED BY <1>4, <1>5, <1>6 DEF Playback

(***************************************************************************)
(* The drive's buffer holds no more than it can and nothing from beyond    *)
(* the end of the film.                                                    *)
(***************************************************************************)
InFilm(s) == s \in CD!Stream /\ s.lbn + s.buffered <= film.sectors

LEMMA SameMinMax ==
    \A S : CD!Min(S) = Min(S) /\ CD!Max(S) = Max(S)
BY DEF CD!Min, CD!Max, Min, Max

LEMMA DriveConstants ==
    /\ Capacity \in Nat \ {0} /\ Bank \in Nat \ {0} /\ Bank <= Capacity
    /\ Rate \in Nat \ {0} /\ Work \in Nat \ {0} /\ CD!MaxSince \in Nat
<1>1. /\ Capacity \in Nat \ {0} /\ Bank \in Nat \ {0} /\ Bank <= Capacity
      /\ Rate \in Nat \ {0} /\ Work \in Nat \ {0}
      BY MovieAssumption
<1>2. (Capacity + 1) * Work \in Nat
      BY <1>1
<1>3. (Capacity + 1) * Work + Rate - 1 \in Nat
      BY <1>1, <1>2
<1>4. ((Capacity + 1) * Work + Rate - 1) \div Rate \in Nat
  <2> DEFINE a == (Capacity + 1) * Work + Rate - 1
  <2> HIDE DEF a
  <2>1. a \in Nat
        BY <1>3 DEF a
  <2>2. a \div Rate \in Nat
        BY <1>1, <2>1
  <2> QED BY <2>2 DEF a
<1> QED BY <1>1, <1>4 DEF CD!MaxSince

LEMMA RestartedInFilm ==
    ASSUME NEW s \in CD!Stream, NEW lbn \in Nat, lbn <= film.sectors,
           NEW a \in BOOLEAN, NEW p \in BOOLEAN
    PROVE  InFilm([CD!Restarted(s, lbn) EXCEPT !.active = a, !.paused = p])
<1>1. 0 \in 0 .. Capacity /\ 0 \in 0 .. Work - 1 /\ 0 \in 0 .. CD!MaxSince
      BY DriveConstants
<1> DEFINE r == [CD!Restarted(s, lbn) EXCEPT !.active = a, !.paused = p]
<1>2. r \in CD!Stream /\ r.lbn = lbn /\ r.buffered = 0
      BY <1>1 DEF CD!Restarted, CD!Stream
<1> HIDE DEF r
<1>3. InFilm(r)
      BY <1>2 DEF InFilm
<1> QED BY <1>3 DEF r

LEMMA UpdatedInFilm ==
    ASSUME NEW s, InFilm(s), film.sectors \in Nat
    PROVE  /\ InFilm(CD!Updated(s, film.sectors))
           /\ CD!Updated(s, film.sectors).lbn = s.lbn
<1>1. CASE ~s.active \/ s.paused \/ s.since = 0
      BY <1>1 DEF CD!Updated
<1>2. CASE ~(~s.active \/ s.paused \/ s.since = 0)
  <2> DEFINE done == s.rest + s.since * Rate
             arrived == done \div Work
             free == Capacity - s.buffered
             left == film.sectors - s.lbn - s.buffered
             new == Min({arrived, free, left})
             buffered == s.buffered + new
             rest == IF arrived > new THEN 0 ELSE done % Work
             u == [s EXCEPT !.since = 0, !.buffered = buffered, !.rest = rest]
  <2>1. /\ s \in CD!Stream /\ s.lbn \in Nat /\ s.buffered \in 0 .. Capacity
        /\ s.rest \in Nat /\ s.since \in Nat /\ s.lbn + s.buffered <= film.sectors
        BY DriveConstants DEF InFilm, CD!Stream
  <2>2. done \in Nat
    <3>1. s.since * Rate \in Nat
          BY <2>1, DriveConstants
    <3> QED BY <2>1, <3>1
  <2>3. CD!Updated(s, film.sectors) = u
        BY <1>2, SameMinMax DEF CD!Updated
  <2> HIDE DEF done
  <2>4. arrived \in Nat /\ done % Work \in 0 .. Work - 1
        BY <2>2, DriveConstants
  <2>5. rest \in 0 .. Work - 1
    <3>1. 0 \in 0 .. Work - 1
          BY DriveConstants
    <3> QED BY <2>4, <3>1
  <2>6. free \in Nat /\ left \in Nat
        BY <2>1, DriveConstants
  <2>7. arrived \in Int /\ free \in Int /\ left \in Int
        BY <2>4, <2>6
  <2> HIDE DEF arrived, rest
  <2>8. new \in {arrived, free, left} /\ new <= free /\ new <= left
    <3> HIDE DEF free, left
    <3> QED BY <2>7, MinOfThree
  <2>9. new \in Nat
        BY <2>4, <2>6, <2>8
  <2> HIDE DEF new
  <2>10. buffered \in 0 .. Capacity /\ s.lbn + buffered <= film.sectors
         BY <2>1, <2>8, <2>9, DriveConstants
  <2>11. 0 \in 0 .. CD!MaxSince
         BY DriveConstants
  <2> HIDE DEF buffered
  <2>12. u \in CD!Stream /\ u.lbn = s.lbn /\ u.buffered = buffered
         BY <2>1, <2>5, <2>10, <2>11 DEF CD!Stream
  <2> HIDE DEF u
  <2> QED BY <2>3, <2>10, <2>12 DEF InFilm
<1> QED BY <1>1, <1>2

LEMMA ReadableBuffered ==
    ASSUME NEW s, InFilm(s)
    PROVE  CD!Readable(s, film.sectors) \in 0 .. s.buffered
<1>1. s.buffered \in Nat
      BY DriveConstants DEF InFilm, CD!Stream
<1>2. (s.buffered \div Bank) * Bank \in 0 .. s.buffered
      BY <1>1, DriveConstants
<1> QED BY <1>1, <1>2 DEF CD!Readable

LEMMA WakeLater ==
    ASSUME NEW s \in CD!Stream, NEW wanted \in Nat
    PROVE  CD!WakeIn(s, wanted) \in Nat \ {0}
<1> DEFINE next == Min({wanted, Bank})
           needed == IF next > s.buffered THEN next - s.buffered ELSE 1
           a == needed * Work - s.rest + Rate - 1
           d == a \div Rate
<1>1. s.buffered \in Nat /\ s.rest \in Nat
      BY DriveConstants DEF CD!Stream
<1>2. next \in Int
  <2>1. wanted \in Int /\ Bank \in Int
        BY DriveConstants
  <2>2. next \in {wanted, Bank}
        BY <2>1, MinOfTwo
  <2> HIDE DEF next
  <2> QED BY <2>1, <2>2
<1>3. CD!WakeIn(s, wanted) = Max({1, d})
      BY SameMinMax DEF CD!WakeIn
<1> HIDE DEF next
<1>4. needed \in Int
      BY <1>1, <1>2
<1> HIDE DEF needed
<1>5. needed * Work \in Int
      BY <1>4, DriveConstants
<1>6. a \in Int
      BY <1>1, <1>5, DriveConstants
<1> HIDE DEF a
<1>7. d \in Int
      BY <1>6, DriveConstants
<1> HIDE DEF d
<1>8. 1 \in Int
      OBVIOUS
<1>9. Max({1, d}) \in {1, d} /\ Max({1, d}) >= 1
      BY <1>7, <1>8, MaxOfTwo
<1> QED BY <1>3, <1>7, <1>9

LEMMA TickedInFilm ==
    ASSUME NEW s, InFilm(s)
    PROVE  InFilm(CD!Ticked(s))
<1>1. s \in CD!Stream /\ s.since \in Nat /\ CD!MaxSince \in Nat
      BY DriveConstants DEF InFilm, CD!Stream
<1> DEFINE since == Min({s.since + 1, CD!MaxSince})
           u == [s EXCEPT !.since = since]
<1>2. CD!Ticked(s) = IF ~s.active \/ s.paused THEN s ELSE u
      BY SameMinMax DEF CD!Ticked
<1>3. since \in 0 .. CD!MaxSince
  <2>1. s.since + 1 \in Int /\ CD!MaxSince \in Int
        BY <1>1
  <2>2. since \in {s.since + 1, CD!MaxSince} /\ since <= CD!MaxSince
        BY <2>1, MinOfTwo
  <2> HIDE DEF since
  <2> QED BY <1>1, <2>2
<1> HIDE DEF since
<1>4. u \in CD!Stream /\ u.lbn = s.lbn /\ u.buffered = s.buffered
      BY <1>1, <1>3 DEF CD!Stream
<1> HIDE DEF u
<1> QED BY <1>2, <1>4 DEF InFilm

(***************************************************************************)
(* All of it: the types, and that whoever changes what a waiter waits for  *)
(* wakes it.                                                               *)
(***************************************************************************)
MovieInv == MovieTypeOK /\ NoForgottenWaiter

Waiting(c, m) == c.at = "picture" /\ c.mpeg = m
Handles == [Mpegs -> Playback \cup {Absent}]
Streams == [gen : Nat, unread : Int, eofPending : BOOLEAN, eofSeen : BOOLEAN]

LEMMA FilmTyped ==
    ASSUME MovieTypeOK
    PROVE  film.packets \in Seq(Packets) /\ film.sectors \in Nat /\ stream.gen \in Nat /\ InFilm(cd)
BY MovieAssumption DEF MovieTypeOK, InFilm

LEMMA StagesOpen ==
    ASSUME NEW c \in Stages
    PROVE  /\ c.at \in {"guest", "picture", "fetchOn", "display", "read", "readOn"}
           /\ c.at \in {"picture", "fetchOn", "display"} => c.mpeg \in Mpegs
           /\ c.at \in {"display", "read"} => c.wake \in Nat \ {0}
           /\ c.at \in {"read", "readOn"} => c.wanted \in Nat /\ c.got \in Seq(Nat)
BY DEF Stages, Guest

LEMMA StagesMade ==
    /\ Guest \in Stages /\ Guest.at = "guest"
    /\ \A m \in Mpegs : /\ [at |-> "picture", mpeg |-> m] \in Stages
                        /\ [at |-> "fetchOn", mpeg |-> m] \in Stages
    /\ \A m \in Mpegs, w \in Nat \ {0} : [at |-> "display", mpeg |-> m, wake |-> w] \in Stages
    /\ \A w \in Nat \ {0}, n \in Nat, q \in Seq(Nat) :
          [at |-> "read", wake |-> w, wanted |-> n, got |-> q] \in Stages
    /\ \A n \in Nat, q \in Seq(Nat) : [at |-> "readOn", wanted |-> n, got |-> q] \in Stages
<1>1. Guest \in Stages /\ Guest.at = "guest"
      BY DEF Stages, Guest
<1>2. \A m \in Mpegs : /\ [at |-> "picture", mpeg |-> m] \in Stages
                       /\ [at |-> "fetchOn", mpeg |-> m] \in Stages
      BY DEF Stages
<1>3. \A m \in Mpegs, w \in Nat \ {0} : [at |-> "display", mpeg |-> m, wake |-> w] \in Stages
      BY DEF Stages
<1>4. \A w \in Nat \ {0}, n \in Nat, q \in Seq(Nat) :
         [at |-> "read", wake |-> w, wanted |-> n, got |-> q] \in Stages
      BY DEF Stages
<1>5. \A n \in Nat, q \in Seq(Nat) : [at |-> "readOn", wanted |-> n, got |-> q] \in Stages
      BY DEF Stages
<1> QED BY <1>1, <1>2, <1>3, <1>4, <1>5

\* The invariant after a step, from what became of each variable.
LEMMA InvFrom ==
    ASSUME film' \in Films, InFilm(cd)', ring' \in Seq(Nat), stream' \in Streams,
           playback' \in Handles, call' \in [Players -> Stages], calls' \in 0 .. MaxCalls,
           \A t \in Players, m \in Mpegs : Waiting(call'[t], m) =>
                /\ playback'[m] # Absent
                /\ playback'[m].frames = <<>> /\ ~stream'.eofSeen
    PROVE  MovieInv'
BY DEF MovieInv, MovieTypeOK, NoForgottenWaiter, WaitsForPicture, Waiting, InFilm, Handles, Streams

LEMMA InvOpen ==
    ASSUME MovieInv
    PROVE  /\ film \in Films /\ InFilm(cd) /\ ring \in Seq(Nat) /\ stream \in Streams
           /\ playback \in Handles /\ call \in [Players -> Stages] /\ calls \in 0 .. MaxCalls
           /\ film.packets \in Seq(Packets) /\ film.sectors \in Nat /\ stream.gen \in Nat
           /\ \A t \in Players, m \in Mpegs : Waiting(call[t], m) =>
                /\ playback[m] # Absent
                /\ playback[m].frames = <<>> /\ ~stream.eofSeen
           /\ \A m \in Mpegs : playback[m] # Absent => playback[m] \in Playback
BY FilmTyped DEF MovieInv, MovieTypeOK, NoForgottenWaiter, WaitsForPicture, Waiting, InFilm, Handles, Streams

LEMMA CallCounted ==
    ASSUME calls \in 0 .. MaxCalls, Rarely
    PROVE  calls' \in 0 .. MaxCalls
BY MovieAssumption DEF Rarely

LEMMA AtTyped ==
    ASSUME playback \in Handles, NEW m \in Mpegs
    PROVE  /\ At(m) \in Playback
           /\ playback[m] = Absent => At(m).frames = <<>>
           /\ playback[m] # Absent => At(m) = playback[m]
BY FreshTyped DEF At, Handles

LEMMA WokenTyped ==
    ASSUME call \in [Players -> Stages], NEW S \in SUBSET Mpegs
    PROVE  /\ Woken(S) \in [Players -> Stages]
           /\ \A t \in Players, m \in Mpegs : Waiting(Woken(S)[t], m) =>
                 Waiting(call[t], m) /\ m \notin S
<1>1. ASSUME NEW t \in Players, NEW m \in S, WaitsForPicture(t, m)
      PROVE  [at |-> "fetchOn", mpeg |-> call[t].mpeg] \in Stages
      BY <1>1, StagesMade DEF WaitsForPicture
<1>2. Woken(S) \in [Players -> Stages]
      BY <1>1 DEF Woken
<1>3. ASSUME NEW t \in Players, NEW m \in Mpegs, Waiting(Woken(S)[t], m)
      PROVE  Waiting(call[t], m) /\ m \notin S
  <2>1. ~\E k \in S : WaitsForPicture(t, k)
        BY <1>3 DEF Woken, Waiting
  <2>2. Woken(S)[t] = call[t]
        BY <2>1 DEF Woken
  <2> QED BY <1>3, <2>1, <2>2 DEF Waiting, WaitsForPicture
<1> QED BY <1>2, <1>3

LEMMA CompletedTyped ==
    ASSUME NEW pbs \in Handles, film.packets \in Seq(Packets), stream.gen \in Nat
    PROVE  /\ Completed(pbs) \in Handles
           /\ \A m \in Mpegs : Completed(pbs)[m] = Absent <=> pbs[m] = Absent
<1>1. ASSUME NEW m \in Mpegs, pbs[m] # Absent
      PROVE  /\ pbs[m] \in Playback
             /\ Finished(pbs[m], film.packets, stream.gen) \in Playback
  <2>1. pbs[m] \in Playback
        BY <1>1 DEF Handles
  <2> QED BY <2>1, FinishedTyped
<1>2. \A m \in Mpegs : /\ Completed(pbs)[m] \in Playback \cup {Absent}
                       /\ Completed(pbs)[m] = Absent <=> pbs[m] = Absent
      BY <1>1, AbsentIsNone DEF Completed
<1> QED BY <1>2 DEF Completed, Handles

LEMMA EndFound ==
    ASSUME MovieInv, NEW t \in Players, EndOfStream(t)
    PROVE  /\ stream' \in Streams /\ playback' \in Handles /\ call' \in [Players -> Stages]
           /\ \A u \in Players, m \in Mpegs : ~Waiting(call'[u], m)
<1> DEFINE E == Existing(playback)
<1>1. stream' \in Streams
      BY InvOpen DEF EndOfStream, Streams
<1>2. playback' \in Handles
      BY InvOpen, CompletedTyped DEF EndOfStream
<1>3. E \in SUBSET Mpegs
      BY DEF Existing
<1> HIDE DEF E
<1>4. Woken(E) \in [Players -> Stages] /\ call' = [Woken(E) EXCEPT ![t] = Guest]
      BY <1>3, InvOpen, WokenTyped DEF EndOfStream, E
<1>5. call' \in [Players -> Stages]
      BY <1>4, StagesMade
<1>6. ASSUME NEW u \in Players, NEW m \in Mpegs, Waiting(call'[u], m)
      PROVE  FALSE
  <2>1. CASE u = t
        BY <1>4, <1>6, <2>1, StagesMade DEF Waiting
  <2>2. CASE u # t
    <3>1. call'[u] = Woken(E)[u]
          BY <1>4, <2>2
    <3>2. Waiting(call[u], m) /\ m \notin E
          BY <1>3, <1>6, <3>1, InvOpen, WokenTyped
    <3>3. playback[m] # Absent
          BY <3>2, InvOpen
    <3> QED BY <3>2, <3>3 DEF E, Existing
  <2> QED BY <2>1, <2>2
<1> QED BY <1>1, <1>2, <1>5, <1>6

LEMMA StInitKeeps ==
    ASSUME MovieInv, NEW t \in Players, StInit(t)
    PROVE  MovieInv'
<1>1. UNCHANGED <<film, ring, stream, playback, call>> /\ Rarely
      BY DEF StInit
<1>2. InFilm([CD!Restarted(cd, cd.lbn) EXCEPT !.active = FALSE, !.paused = FALSE])
  <2>1. cd \in CD!Stream /\ cd.lbn \in Nat /\ cd.lbn <= film.sectors
        BY InvOpen DEF InFilm, CD!Stream
  <2> QED BY <2>1, RestartedInFilm
<1>3. InFilm(cd)'
      BY <1>1, <1>2 DEF StInit, InFilm
<1> QED BY <1>1, <1>3, InvOpen, InvFrom, CallCounted

LEMMA StStartKeeps ==
    ASSUME MovieInv, NEW t \in Players, StStart(t)
    PROVE  MovieInv'
<1>1. UNCHANGED <<film, call>> /\ Rarely /\ ring' = <<>> /\ <<>> \in Seq(Nat)
      BY DEF StStart
<1>2. InFilm([CD!Restarted(cd, 0) EXCEPT !.active = TRUE, !.paused = FALSE])
  <2>1. cd \in CD!Stream /\ 0 \in Nat /\ 0 <= film.sectors
        BY InvOpen DEF InFilm
  <2> QED BY <2>1, RestartedInFilm
<1>3. InFilm(cd)'
      BY <1>1, <1>2 DEF StStart, InFilm
<1>4. stream' \in Streams /\ stream'.gen \in Nat /\ ~stream'.eofSeen
      BY InvOpen DEF StStart, Streams
<1>5. \A m \in Mpegs : playback'[m] = IF playback[m] = Absent THEN Absent ELSE Fresh(stream'.gen)
      BY DEF StStart
<1>6. playback' \in Handles
      BY <1>4, FreshTyped DEF StStart, Handles
<1>7. ASSUME NEW u \in Players, NEW m \in Mpegs, Waiting(call'[u], m)
      PROVE  playback'[m] # Absent /\ playback'[m].frames = <<>>
  <2>1. playback[m] # Absent
        BY <1>1, <1>7, InvOpen
  <2> QED BY <1>4, <1>5, <2>1, FreshTyped, AbsentIsNone
<1> QED BY <1>1, <1>3, <1>4, <1>6, <1>7, InvOpen, InvFrom, CallCounted

LEMMA StStopKeeps ==
    ASSUME MovieInv, NEW t \in Players, StStop(t)
    PROVE  MovieInv'
<1>1. UNCHANGED <<film, ring>> /\ Rarely /\ EndOfStream(t)
      BY DEF StStop
<1>2. InFilm(CD!Updated(cd, film.sectors))
      BY InvOpen, UpdatedInFilm
<1>3. InFilm(cd)'
  <2> DEFINE u == CD!Updated(cd, film.sectors)
  <2>1. cd' = [u EXCEPT !.active = FALSE, !.paused = FALSE]
        BY DEF StStop
  <2> HIDE DEF u
  <2>2. InFilm(u)
        BY <1>2 DEF u
  <2> QED BY <1>1, <2>1, <2>2 DEF InFilm, CD!Stream
<1> QED BY <1>1, <1>3, InvOpen, InvFrom, CallCounted, EndFound

LEMMA StPauseKeeps ==
    ASSUME MovieInv, NEW t \in Players, StPause(t) \/ StResume(t)
    PROVE  MovieInv'
<1>1. UNCHANGED <<film, ring, stream, playback, call>> /\ Rarely
      BY DEF StPause, StResume
<1>2. InFilm(cd)'
  <2>1. CASE StPause(t)
    <3> DEFINE u == CD!Updated(cd, film.sectors)
    <3>1. cd' = [u EXCEPT !.paused = TRUE] /\ InFilm(u)
          BY <2>1, InvOpen, UpdatedInFilm DEF StPause
    <3> HIDE DEF u
    <3> QED BY <1>1, <3>1 DEF InFilm, CD!Stream
  <2>2. CASE StResume(t)
    <3>1. cd' = [cd EXCEPT !.paused = FALSE, !.since = 0] /\ InFilm(cd)
          BY <2>2, InvOpen DEF StResume
    <3>2. 0 \in 0 .. CD!MaxSince
          BY DriveConstants
    <3> QED BY <1>1, <3>1, <3>2 DEF InFilm, CD!Stream
  <2> QED BY <2>1, <2>2
<1> QED BY <1>1, <1>2, InvOpen, InvFrom, CallCounted

\* A thread that goes on without waiting for a picture leaves the others as they are.
LEMMA OnlyItself ==
    ASSUME MovieInv, NEW t \in Players, NEW c \in Stages, c.at # "picture",
           call' = [call EXCEPT ![t] = c]
    PROVE  /\ call' \in [Players -> Stages]
           /\ \A u \in Players, m \in Mpegs : Waiting(call'[u], m) => Waiting(call[u], m)
<1>1. call \in [Players -> Stages]
      BY InvOpen
<1>2. call' \in [Players -> Stages]
      BY <1>1
<1>3. ASSUME NEW u \in Players, NEW m \in Mpegs, Waiting(call'[u], m)
      PROVE  Waiting(call[u], m)
  <2>1. CASE u = t
        BY <1>1, <1>3, <2>1 DEF Waiting
  <2>2. CASE u # t
        BY <1>1, <1>3, <2>2
  <2> QED BY <2>1, <2>2
<1> QED BY <1>2, <1>3

\* How many sectors of `wanted' a read gets at once.
Left(wanted) == Min({wanted, film.sectors - cd.lbn})
Sectors(wanted) ==
    Min({Left(wanted), CD!Readable(CD!Updated(cd, film.sectors), film.sectors)})

LEMMA SectorsFacts ==
    ASSUME MovieInv, NEW wanted \in Nat
    PROVE  /\ Left(wanted) \in Nat /\ Left(wanted) <= wanted
           /\ Sectors(wanted) \in Nat /\ Sectors(wanted) <= Left(wanted)
           /\ Sectors(wanted) <= CD!Updated(cd, film.sectors).buffered
<1> DEFINE now == CD!Updated(cd, film.sectors)
           r == CD!Readable(now, film.sectors)
<1>1. InFilm(now) /\ r \in 0 .. now.buffered
      BY InvOpen, UpdatedInFilm, ReadableBuffered
<1>2. now.buffered \in Nat
      BY <1>1, DriveConstants DEF InFilm, CD!Stream
<1>3. wanted \in Int /\ film.sectors - cd.lbn \in Int /\ film.sectors - cd.lbn >= 0
  <2>1. cd.lbn \in Nat /\ cd.lbn <= film.sectors /\ film.sectors \in Nat
        BY InvOpen DEF InFilm, CD!Stream
  <2> QED BY <2>1
<1>4. Left(wanted) \in Nat /\ Left(wanted) <= wanted
  <2>1. Left(wanted) \in {wanted, film.sectors - cd.lbn} /\ Left(wanted) <= wanted
        BY <1>3, MinOfTwo DEF Left
  <2> QED BY <1>3, <2>1
<1> HIDE DEF r, now
<1>5. Sectors(wanted) = Min({Left(wanted), r})
      BY DEF Sectors, r, now
<1>6. r \in Int /\ Left(wanted) \in Int /\ r >= 0 /\ r <= now.buffered
      BY <1>1, <1>2, <1>4
<1>7. Min({Left(wanted), r}) \in {Left(wanted), r}
      /\ Min({Left(wanted), r}) <= Left(wanted) /\ Min({Left(wanted), r}) <= r
      BY <1>6, MinOfTwo
<1>8. Sectors(wanted) \in Nat /\ Sectors(wanted) <= Left(wanted)
      /\ Sectors(wanted) <= now.buffered
      BY ONLY <1>2, <1>4, <1>5, <1>6, <1>7
<1> QED BY <1>4, <1>8 DEF now

LEMMA ReadOnKeeps ==
    ASSUME MovieInv, NEW t \in Players, NEW wanted \in Nat, NEW got \in Seq(Nat),
           ReadOn(t, wanted, got), UNCHANGED <<film, calls>>
    PROVE  MovieInv'
<1> DEFINE now == CD!Updated(cd, film.sectors)
           remaining == Min({wanted, film.sectors - cd.lbn})
           n == Min({remaining, CD!Readable(now, film.sectors)})
           after == [now EXCEPT !.lbn = now.lbn + n, !.buffered = now.buffered - n]
           all == got \o CellsOf(cd.lbn, n)
           atEnd == after.lbn = film.sectors
<1>1. CASE ~cd.active /\ ring' = ring \o got /\ call' = [call EXCEPT ![t] = Guest]
           /\ UNCHANGED <<cd, stream, playback>>
  <2>1. ring' \in Seq(Nat)
        BY <1>1, InvOpen
  <2>2. InFilm(cd)'
        BY <1>1, InvOpen DEF InFilm
  <2>3. Guest \in Stages /\ Guest.at # "picture"
        BY StagesMade
  <2>4. /\ call' \in [Players -> Stages]
        /\ \A u \in Players, m \in Mpegs : Waiting(call'[u], m) => Waiting(call[u], m)
        BY <1>1, <2>3, OnlyItself
  <2> QED BY <1>1, <2>1, <2>2, <2>4, InvOpen, InvFrom
<1>2. CASE cd.active /\ remaining = 0 /\ ring' = ring \o got /\ EndOfStream(t) /\ UNCHANGED cd
  <2>1. ring' \in Seq(Nat)
        BY <1>2, InvOpen
  <2>2. InFilm(cd)'
        BY <1>2, InvOpen DEF InFilm
  <2> QED BY <1>2, <2>1, <2>2, InvOpen, InvFrom, EndFound
<1> DEFINE reading == [at |-> "read", wake |-> CD!WakeIn(after, remaining - n),
                       wanted |-> wanted - n, got |-> all]
           Moved ==
              /\ cd' = after
              /\ stream' = [stream EXCEPT !.unread = @ + n * Cells,
                                          !.eofPending = @ \/ (n > 0 /\ atEnd)]
              /\ \/ ring' = ring \o all /\ call' = [call EXCEPT ![t] = Guest]
                 \/ UNCHANGED ring /\ call' = [call EXCEPT ![t] = reading]
              /\ UNCHANGED playback
<1>3. CASE cd.active /\ remaining > 0 /\ Moved
  <2>1. InFilm(now) /\ now.lbn = cd.lbn
        BY InvOpen, UpdatedInFilm
  <2>2. cd.lbn \in Nat /\ cd.lbn <= film.sectors /\ film.sectors \in Nat
        BY InvOpen DEF InFilm, CD!Stream
  <2>4. now \in CD!Stream /\ now.lbn \in Nat /\ now.buffered \in 0 .. Capacity
        /\ now.lbn + now.buffered <= film.sectors /\ Capacity \in Nat
        BY <2>1, DriveConstants DEF InFilm, CD!Stream
  <2>5. remaining = Left(wanted) /\ n = Sectors(wanted)
        BY DEF Left, Sectors
  <2> HIDE DEF remaining, n
  <2>6. /\ remaining \in Nat /\ remaining <= wanted
        /\ n \in Nat /\ n <= remaining /\ n <= now.buffered
        BY <2>5, SectorsFacts
  <2> HIDE DEF now
  <2>7. after \in CD!Stream /\ after.lbn = now.lbn + n /\ after.buffered = now.buffered - n
    <3> DEFINE lbn == now.lbn + n
               buffered == now.buffered - n
    <3>1. lbn \in Nat /\ buffered \in 0 .. Capacity
          BY <2>4, <2>6
    <3> HIDE DEF lbn, buffered
    <3>2. /\ [now EXCEPT !.lbn = lbn, !.buffered = buffered] \in CD!Stream
          /\ [now EXCEPT !.lbn = lbn, !.buffered = buffered].lbn = lbn
          /\ [now EXCEPT !.lbn = lbn, !.buffered = buffered].buffered = buffered
          BY <2>4, <3>1 DEF CD!Stream
    <3> QED BY <3>2 DEF lbn, buffered
  <2>8. after.lbn + after.buffered <= film.sectors
        BY <2>4, <2>6, <2>7
  <2>9. CellsOf(cd.lbn, n) \in Seq(Nat)
    <3>1. Cells \in Nat
          BY MovieAssumption
    <3>2. n * Cells \in Nat /\ cd.lbn * Cells \in Nat
          BY <2>2, <2>6, <3>1
    <3> QED BY <3>2 DEF CellsOf
  <2>10. all \in Seq(Nat)
         BY <2>9
  <2> HIDE DEF after, all
  <2>11. reading \in Stages /\ reading.at # "picture"
    <3>1. remaining - n \in Nat /\ wanted - n \in Nat
          BY <2>6
    <3>2. CD!WakeIn(after, remaining - n) \in Nat \ {0}
          BY <2>7, <3>1, WakeLater
    <3> QED BY <2>10, <3>1, <3>2, StagesMade
  <2>12. InFilm(cd)'
         BY <1>3, <2>7, <2>8 DEF InFilm
  <2>13. stream' \in Streams /\ stream'.eofSeen = stream.eofSeen
    <3>1. n * Cells \in Int
          BY <2>6, MovieAssumption
    <3> DEFINE unread == stream.unread + n * Cells
               pending == stream.eofPending \/ (n > 0 /\ atEnd)
    <3>2. stream' = [stream EXCEPT !.unread = unread, !.eofPending = pending]
          BY <1>3
    <3>3. unread \in Int /\ pending \in BOOLEAN
          BY <3>1, InvOpen DEF Streams
    <3> HIDE DEF unread, pending
    <3> QED BY <3>2, <3>3, InvOpen DEF Streams
  <2> HIDE DEF reading
  <2>14. ring' \in Seq(Nat)
    <3>1. ring \in Seq(Nat)
          BY InvOpen
    <3>2. ring' = ring \o all \/ ring' = ring
          BY <1>3
    <3>3. ring \o all \in Seq(Nat)
          BY ONLY <2>10, <3>1, ConcatProperties
    <3> QED BY ONLY <3>1, <3>2, <3>3
  <2>15. /\ call' \in [Players -> Stages]
         /\ \A u \in Players, m \in Mpegs : Waiting(call'[u], m) => Waiting(call[u], m)
    <3>1. CASE call' = [call EXCEPT ![t] = Guest]
      <4>1. Guest \in Stages /\ Guest.at # "picture"
            BY StagesMade
      <4> QED BY <3>1, <4>1, OnlyItself
    <3>2. CASE call' = [call EXCEPT ![t] = reading]
          BY <2>11, <3>2, OnlyItself
    <3> QED BY <1>3, <3>1, <3>2
  <2> QED BY <1>3, <2>12, <2>13, <2>14, <2>15, InvOpen, InvFrom
<1> QED BY <1>1, <1>2, <1>3 DEF ReadOn

LEMMA StReadKeeps ==
    ASSUME MovieInv, NEW t \in Players, NEW n \in Reads, StRead(t, n)
    PROVE  MovieInv'
<1>1. n \in Nat /\ <<>> \in Seq(Nat)
      BY MovieAssumption
<1> QED BY <1>1, ReadOnKeeps DEF StRead

LEMMA StReadNowKeeps ==
    ASSUME MovieInv, NEW t \in Players, NEW n \in Reads, StReadNow(t, n)
    PROVE  MovieInv'
<1> DEFINE now == CD!Updated(cd, film.sectors)
           r == CD!Readable(now, film.sectors)
           sectors == Min({n, film.sectors - cd.lbn, r})
<1>1. n \in Nat /\ <<>> \in Seq(Nat) /\ UNCHANGED <<film, calls>>
      BY MovieAssumption DEF StReadNow
<1>2. InFilm(now)
      BY InvOpen, UpdatedInFilm
<1>3. sectors \in Int
  <2>1. r \in Int /\ cd.lbn \in Int /\ film.sectors \in Int
    <3>1. r \in 0 .. now.buffered
          BY <1>2, ReadableBuffered
    <3>2. cd.lbn \in Nat /\ film.sectors \in Nat
          BY InvOpen DEF InFilm, CD!Stream
    <3> HIDE DEF r
    <3> QED BY <3>1, <3>2
  <2> HIDE DEF r
  <2>2. n \in Int /\ film.sectors - cd.lbn \in Int
        BY <1>1, <2>1
  <2>3. sectors \in {n, film.sectors - cd.lbn, r}
        BY <2>1, <2>2, MinOfThree
  <2> HIDE DEF sectors
  <2> QED BY <2>1, <2>2, <2>3
<1>4. \/ sectors > 0 /\ ReadOn(t, sectors, <<>>)
      \/ cd' = now /\ EndOfStream(t) /\ UNCHANGED ring
      \/ cd' = now /\ UNCHANGED <<ring, stream, playback, call>>
      BY DEF StReadNow
<1> HIDE DEF sectors, now
<1>5. CASE sectors > 0 /\ ReadOn(t, sectors, <<>>)
  <2>1. sectors \in Nat
        BY <1>3, <1>5
  <2> QED BY <1>1, <1>5, <2>1, ReadOnKeeps
<1>6. CASE cd' = now /\ EndOfStream(t) /\ UNCHANGED ring
  <2>1. InFilm(cd)'
        BY <1>1, <1>2, <1>6 DEF InFilm
  <2> QED BY <1>1, <1>6, <2>1, InvOpen, InvFrom, EndFound
<1>7. CASE cd' = now /\ UNCHANGED <<ring, stream, playback, call>>
  <2>1. InFilm(cd)'
        BY <1>1, <1>2, <1>7 DEF InFilm
  <2> QED BY <1>1, <1>7, <2>1, InvOpen, InvFrom
<1> QED BY <1>4, <1>5, <1>6, <1>7

LEMMA DriveStays ==
    ASSUME MovieInv, UNCHANGED <<film, cd>>
    PROVE  film' \in Films /\ InFilm(cd)'
BY InvOpen DEF InFilm

\* The handle m alone is changed; whoever waits for it is woken, unless it has
\* no pictures before and after.
LEMMA OneHandle ==
    ASSUME MovieInv, NEW m \in Mpegs, NEW q \in Playback, NEW S \in SUBSET Mpegs,
           playback' = [playback EXCEPT ![m] = q], call' = Woken(S),
           stream'.eofSeen = stream.eofSeen,
           q.frames # <<>> => m \in S \/ Len(q.frames) = Len(At(m).frames)
    PROVE  /\ playback' \in Handles /\ call' \in [Players -> Stages]
           /\ \A t \in Players, k \in Mpegs : Waiting(call'[t], k) =>
                /\ playback'[k] # Absent
                /\ playback'[k].frames = <<>> /\ ~stream'.eofSeen
<1>1. playback' \in Handles /\ playback'[m] = q
      /\ \A k \in Mpegs \ {m} : playback'[k] = playback[k]
      BY InvOpen DEF Handles
<1>2. call' \in [Players -> Stages]
      BY InvOpen, WokenTyped
<1>3. ASSUME NEW t \in Players, NEW k \in Mpegs, Waiting(call'[t], k)
      PROVE  playback'[k] # Absent /\ playback'[k].frames = <<>> /\ ~stream'.eofSeen
  <2>1. Waiting(call[t], k) /\ k \notin S
        BY <1>3, InvOpen, WokenTyped
  <2>2. playback[k] # Absent /\ playback[k].frames = <<>> /\ ~stream.eofSeen
        BY <2>1, InvOpen
  <2>3. CASE k = m
    <3>1. q # Absent
          BY AbsentIsNone
    <3>2. At(m).frames = <<>>
          BY <2>2, <2>3 DEF At
    <3>3. Len(At(m).frames) = 0
          BY <3>2
    <3>4. q.frames \in Seq(Picture)
          BY DEF Playback
    <3>5. q.frames = <<>>
      <4>1. q.frames # <<>> => Len(q.frames) = 0
            BY <2>1, <2>3, <3>3
      <4> QED BY <3>4, <4>1, EmptySeq
    <3> QED BY <1>1, <2>2, <2>3, <3>1, <3>5
  <2>4. CASE k # m
        BY <1>1, <2>2, <2>4
  <2> QED BY <2>3, <2>4
<1> QED BY <1>1, <1>2, <1>3

LEMMA AddBsKeeps ==
    ASSUME MovieInv, NEW t \in Players, NEW m \in Mpegs, NEW i \in DOMAIN film.packets,
           AddBs(t, m, i)
    PROVE  MovieInv'
<1> DEFINE fed == Fed(At(m), film.packets[i], film.packets[i].pics)
           q == [fed EXCEPT !.pure = FALSE]
           S == IF Len(q.frames) # Len(At(m).frames) \/ q.ended THEN {m} ELSE {}
<1>1. UNCHANGED <<film, cd, ring, stream>> /\ Rarely
      BY DEF AddBs
<1>2. film.packets[i] \in Packets
      BY InvOpen
<1>3. fed \in Playback
  <2>1. At(m) \in Playback
        BY InvOpen, AtTyped
  <2>2. film.packets[i].pics \in Seq(Picture)
        BY <1>2 DEF Packets
  <2> QED BY <1>2, <2>1, <2>2, FedTyped
<1>4. playback' = [playback EXCEPT ![m] = q]
      BY DEF AddBs
<1> HIDE DEF fed
<1>5. q \in Playback
      BY <1>3 DEF Playback
<1> HIDE DEF q
<1>6. playback'[m] = q
      BY <1>4, InvOpen DEF Handles
<1>7. call' = Woken(S)
      BY <1>6 DEF AddBs
<1>8. S \in SUBSET Mpegs /\ (q.frames # <<>> => m \in S \/ Len(q.frames) = Len(At(m).frames))
      BY DEF S
<1> HIDE DEF S
<1> QED BY <1>1, <1>4, <1>5, <1>7, <1>8, OneHandle, DriveStays, InvOpen, InvFrom, CallCounted

LEMMA MpegFlushKeeps ==
    ASSUME MovieInv, NEW t \in Players, NEW m \in Mpegs, MpegFlush(t, m)
    PROVE  MovieInv'
<1> DEFINE fed == Flushed(At(m))
           q == [fed EXCEPT !.pure = fed.pure /\ At(m).ended]
           S == IF Len(q.frames) # Len(At(m).frames) \/ q.ended THEN {m} ELSE {}
<1>1. UNCHANGED <<film, cd, ring, stream>> /\ Rarely
      BY DEF MpegFlush
<1>3. fed \in Playback
      BY InvOpen, AtTyped, FlushedTyped
<1>4. playback' = [playback EXCEPT ![m] = q]
      BY DEF MpegFlush
<1> HIDE DEF fed
<1>5. q \in Playback
      BY <1>3 DEF Playback
<1> HIDE DEF q
<1>6. playback'[m] = q
      BY <1>4, InvOpen DEF Handles
<1>7. call' = Woken(S)
      BY <1>6 DEF MpegFlush
<1>8. S \in SUBSET Mpegs /\ (q.frames # <<>> => m \in S \/ Len(q.frames) = Len(At(m).frames))
      BY DEF S
<1> HIDE DEF S
<1> QED BY <1>1, <1>4, <1>5, <1>7, <1>8, OneHandle, DriveStays, InvOpen, InvFrom, CallCounted

LEMMA DemuxKeeps ==
    ASSUME MovieInv, NEW t \in Players, NEW m \in Mpegs, NEW n \in 1 .. Len(ring), Demux(t, m, n)
    PROVE  MovieInv'
<1> DEFINE q == Appended(At(m), SubSeq(ring, 1, n), film.packets, stream.gen)
           unread == stream.unread - n
           complete == stream.eofPending /\ unread <= 0
           pbs == [playback EXCEPT ![m] = q]
           S == IF complete THEN Existing(pbs)
                ELSE IF Len(q.frames) # Len(At(m).frames) THEN {m} ELSE {}
           pending == stream.eofPending /\ ~complete
           seen == stream.eofSeen \/ complete
<1>1. /\ UNCHANGED <<film, cd, calls>> /\ ring' = SubSeq(ring, n + 1, Len(ring))
      /\ stream' = [stream EXCEPT !.unread = unread, !.eofPending = pending, !.eofSeen = seen]
      /\ playback' = (IF complete THEN Completed(pbs) ELSE pbs)
      /\ call' = Woken(S)
      BY DEF Demux
<1>2. ring \in Seq(Nat) /\ Len(ring) \in Nat /\ n \in Nat
      BY InvOpen
<1>3. SubSeq(ring, 1, n) \in Seq(Nat) /\ ring' \in Seq(Nat)
  <2>1. 1 \in Nat \ {0} /\ n \in Int /\ n <= Len(ring) /\ n + 1 \in Nat \ {0} /\ Len(ring) \in Int
        BY <1>2
  <2>2. SubSeq(ring, 1, n) \in Seq(Nat)
        BY ONLY <1>2, <2>1, SomeOf
  <2>3. SubSeq(ring, n + 1, Len(ring)) \in Seq(Nat)
    <3>1. Len(ring) <= Len(ring)
          BY <1>2
    <3> QED BY ONLY <1>2, <2>1, <3>1, SomeOf
  <2> QED BY <1>1, <2>2, <2>3
<1>4. q \in Playback
      BY <1>3, InvOpen, AtTyped, AppendedTyped
<1>5. complete \in BOOLEAN /\ unread \in Int /\ stream.eofSeen \in BOOLEAN
      /\ stream.eofPending \in BOOLEAN
      BY <1>2, InvOpen DEF Streams
<1> HIDE DEF q, unread
<1>6. pbs \in Handles /\ pbs[m] = q /\ \A k \in Mpegs \ {m} : pbs[k] = playback[k]
      BY <1>4, InvOpen DEF Handles
<1>7. S \in SUBSET Mpegs
      BY DEF Existing
<1>8. stream' \in Streams /\ stream'.eofSeen = seen
  <2>1. pending \in BOOLEAN /\ seen \in BOOLEAN
        BY <1>5
  <2> HIDE DEF pending, seen
  <2> QED BY <1>1, <1>5, <2>1, InvOpen DEF Streams
<1>9. CASE complete
  <2>1. playback' = Completed(pbs) /\ S = Existing(pbs)
        BY <1>1, <1>9
  <2> HIDE DEF pbs, complete, seen, pending, S
  <2>2. playback' \in Handles
        BY <1>6, <2>1, InvOpen, CompletedTyped
  <2>3. call' \in [Players -> Stages]
        BY <1>1, <1>7, InvOpen, WokenTyped
  <2>4. ASSUME NEW u \in Players, NEW k \in Mpegs, Waiting(call'[u], k)
        PROVE  FALSE
    <3>1. Waiting(call[u], k) /\ k \notin S
          BY <1>1, <1>7, <2>4, InvOpen, WokenTyped
    <3>2. pbs[k] = Absent
          BY <2>1, <3>1 DEF Existing
    <3>3. playback[k] # Absent
          BY <3>1, InvOpen
    <3> QED BY <1>4, <1>6, <3>2, <3>3, AbsentIsNone
  <2> QED BY <1>1, <1>3, <1>8, <2>2, <2>3, <2>4, DriveStays, InvOpen, InvFrom
<1>10. CASE ~complete
  <2>1. playback' = [playback EXCEPT ![m] = q] /\ stream'.eofSeen = stream.eofSeen
        BY <1>1, <1>5, <1>8, <1>10
  <2>2. q.frames # <<>> => m \in S \/ Len(q.frames) = Len(At(m).frames)
        BY <1>10
  <2> HIDE DEF S, complete, pbs, seen, pending
  <2>3. /\ playback' \in Handles /\ call' \in [Players -> Stages]
        /\ \A u \in Players, k \in Mpegs : Waiting(call'[u], k) =>
                /\ playback'[k] # Absent
                /\ playback'[k].frames = <<>> /\ ~stream'.eofSeen
        BY <1>1, <1>4, <1>7, <2>1, <2>2, OneHandle
  <2> QED BY <1>1, <1>3, <1>8, <2>3, DriveStays, InvOpen, InvFrom
<1> QED BY <1>9, <1>10

LEMMA CreateKeeps ==
    ASSUME MovieInv, NEW t \in Players, NEW m \in Mpegs,
           Create(t, m) \/ Reset(t, m) \/ Query(t, m)
    PROVE  MovieInv'
<1>1. UNCHANGED <<film, cd, ring, stream, call>> /\ (Rarely \/ UNCHANGED calls)
      BY DEF Create, Reset, Query
<1>2. \E q \in Playback : q.frames = <<>> /\ playback' = [playback EXCEPT ![m] = q]
  <2>1. Fresh(stream.gen) \in Playback /\ Fresh(stream.gen).frames = <<>>
        /\ Default \in Playback /\ Default.frames = <<>>
        BY InvOpen, FreshTyped
  <2>2. CASE Create(t, m)
        BY <2>1, <2>2 DEF Create
  <2>3. CASE Reset(t, m)
    <3>1. At(m).gen \in Nat
          BY InvOpen, AtTyped DEF Playback
    <3>2. Fresh(At(m).gen) \in Playback /\ Fresh(At(m).gen).frames = <<>>
          BY <3>1, FreshTyped
    <3> DEFINE f == Fresh(At(m).gen)
               e == [f EXCEPT !.sawInput = TRUE, !.ended = TRUE]
               q == IF At(m).ended THEN e ELSE Fresh(stream.gen)
    <3> HIDE DEF f
    <3>3. e \in Playback /\ e.frames = <<>>
          BY <3>2 DEF f, Playback
    <3> HIDE DEF e
    <3>4. q \in Playback /\ q.frames = <<>>
          BY <2>1, <3>3
    <3>5. playback' = [playback EXCEPT ![m] = q]
          BY <2>3 DEF Reset, e, f
    <3> HIDE DEF q
    <3> QED BY <3>4, <3>5
  <2>4. CASE Query(t, m)
        BY <2>1, <2>4 DEF Query
  <2> QED BY <2>2, <2>3, <2>4
<1>3. PICK q \in Playback : q.frames = <<>> /\ playback' = [playback EXCEPT ![m] = q]
      BY <1>2
<1>4. playback' \in Handles /\ playback'[m] = q
      /\ \A k \in Mpegs \ {m} : playback'[k] = playback[k]
      BY <1>3, InvOpen DEF Handles
<1>5. ASSUME NEW u \in Players, NEW k \in Mpegs, Waiting(call'[u], k)
      PROVE  playback'[k] # Absent /\ playback'[k].frames = <<>> /\ ~stream'.eofSeen
  <2>1. playback[k] # Absent /\ playback[k].frames = <<>> /\ ~stream.eofSeen
        BY <1>1, <1>5, InvOpen
  <2> QED BY <1>1, <1>3, <1>4, <2>1, AbsentIsNone
<1>6. calls' \in 0 .. MaxCalls
      BY <1>1, InvOpen, CallCounted
<1>7. ring' \in Seq(Nat) /\ stream' \in Streams /\ call' \in [Players -> Stages]
      BY <1>1, InvOpen
<1>8. film' \in Films /\ InFilm(cd)'
      BY <1>1, DriveStays
<1> QED BY <1>4, <1>5, <1>6, <1>7, <1>8, InvFrom

LEMMA DeleteKeeps ==
    ASSUME MovieInv, NEW t \in Players, NEW m \in Mpegs, Delete(t, m)
    PROVE  MovieInv'
<1>1. UNCHANGED <<film, cd, ring, stream>> /\ Rarely
      /\ playback' = [playback EXCEPT ![m] = Absent]
      /\ call' = [u \in Players |-> IF WaitsForPicture(u, m) THEN Guest ELSE call[u]]
      BY DEF Delete
<1>2. playback' \in Handles /\ \A k \in Mpegs \ {m} : playback'[k] = playback[k]
      BY <1>1, InvOpen DEF Handles
<1>3. call' \in [Players -> Stages]
      BY <1>1, InvOpen, StagesMade
<1>4. ASSUME NEW u \in Players, NEW k \in Mpegs, Waiting(call'[u], k)
      PROVE  Waiting(call[u], k) /\ k # m
  <2>1. ~WaitsForPicture(u, m)
        BY <1>1, <1>4, StagesMade DEF Waiting
  <2> QED BY <1>1, <1>4, <2>1 DEF Waiting, WaitsForPicture
<1>5. ASSUME NEW u \in Players, NEW k \in Mpegs, Waiting(call'[u], k)
      PROVE  playback'[k] # Absent /\ playback'[k].frames = <<>> /\ ~stream'.eofSeen
  <2>1. playback[k] # Absent /\ playback[k].frames = <<>> /\ ~stream.eofSeen /\ k # m
        BY <1>4, <1>5, InvOpen
  <2> QED BY <1>1, <1>2, <2>1
<1> QED BY <1>1, <1>2, <1>3, <1>5, DriveStays, InvOpen, InvFrom, CallCounted

LEMMA MpegInitKeeps ==
    ASSUME MovieInv, NEW t \in Players, MpegInit(t)
    PROVE  MovieInv'
<1>1. UNCHANGED <<film, cd, ring, stream, call>> /\ Rarely
      /\ playback' = [m \in Mpegs |-> Absent]
      /\ \A u \in Players, m \in Mpegs : ~Waiting(call[u], m)
      BY DEF MpegInit, Waiting, WaitsForPicture
<1>2. playback' \in Handles
      BY <1>1 DEF Handles
<1> QED BY <1>1, <1>2, DriveStays, InvOpen, InvFrom, CallCounted

LEMMA FetchKeeps ==
    ASSUME MovieInv, NEW t \in Players, NEW m \in Mpegs, Fetch(t, m),
           UNCHANGED <<film, cd, ring, stream, calls>>
    PROVE  MovieInv'
<1> DEFINE started == Started(At(m))
           pb == CaughtUp(started)
           display == [at |-> "display", mpeg |-> m, wake |-> (Due(pb) + Field - 1) \div Field]
           picture == [at |-> "picture", mpeg |-> m]
<1>1. At(m) \in Playback /\ At(m).frames \in Seq(Picture)
      /\ (playback[m] # Absent => At(m) = playback[m])
      BY InvOpen, AtTyped DEF Playback
<1>2. \/ /\ At(m).frames = <<>> /\ ~stream.eofSeen
         /\ playback' = [playback EXCEPT ![m] = At(m)]
         /\ call' = [call EXCEPT ![t] = picture]
      \/ /\ playback' = [playback EXCEPT ![m] = At(m)]
         /\ call' = [call EXCEPT ![t] = Guest]
      \/ /\ At(m).frames # <<>> /\ Due(pb) > 0
         /\ playback' = [playback EXCEPT ![m] = pb]
         /\ call' = [call EXCEPT ![t] = display]
      \/ /\ At(m).frames # <<>>
         /\ playback' = [playback EXCEPT ![m] = Presented(pb)]
         /\ call' = [call EXCEPT ![t] = Guest]
      BY DEF Fetch
<1>3. ASSUME At(m).frames # <<>>
      PROVE  Timely(pb) /\ pb.frames = At(m).frames
  <2>1. Timely(started) /\ started.frames = At(m).frames
        BY <1>1, <1>3, StartedTimely
  <2> HIDE DEF started
  <2> QED BY <2>1, CaughtUpTimely
<1> HIDE DEF pb
<1>4. Guest \in Stages /\ Guest.at # "picture"
      BY StagesMade
<1>5. film' \in Films /\ InFilm(cd)' /\ ring' \in Seq(Nat) /\ stream' \in Streams
      /\ calls' \in 0 .. MaxCalls
      BY DriveStays, InvOpen
\* A handle with pictures has no waiters.
<1>6. ASSUME NEW q \in Playback, playback' = [playback EXCEPT ![m] = q],
             At(m).frames # <<>> \/ q = At(m),
             NEW c \in Stages, call' = [call EXCEPT ![t] = c],
             c.at # "picture" \/ (c.mpeg = m /\ q.frames = <<>> /\ ~stream.eofSeen)
      PROVE  MovieInv'
  <2>1. playback' \in Handles /\ playback'[m] = q
        /\ \A k \in Mpegs \ {m} : playback'[k] = playback[k]
        BY <1>6, InvOpen DEF Handles
  <2>2. call' \in [Players -> Stages] /\ call'[t] = c
        /\ \A u \in Players \ {t} : call'[u] = call[u]
        BY <1>6, InvOpen
  <2>3. ASSUME NEW u \in Players, NEW k \in Mpegs, Waiting(call'[u], k)
        PROVE  playback'[k] # Absent /\ playback'[k].frames = <<>> /\ ~stream'.eofSeen
    <3>1. CASE u = t
      <4>1. k = m /\ q.frames = <<>> /\ ~stream.eofSeen
            BY <1>6, <2>2, <2>3, <3>1 DEF Waiting
      <4> QED BY <2>1, <4>1, AbsentIsNone
    <3>2. CASE u # t
      <4>1. playback[k] # Absent /\ playback[k].frames = <<>> /\ ~stream.eofSeen
            BY <2>2, <2>3, <3>2, InvOpen
      <4>2. CASE k = m
        <5>1. q = playback[m]
              BY <1>1, <1>6, <4>1, <4>2
        <5> QED BY <2>1, <4>1, <4>2, <5>1
      <4>3. CASE k # m
            BY <2>1, <4>1, <4>3
      <4> QED BY <4>2, <4>3
    <3> QED BY <3>1, <3>2
  <2> QED BY <1>5, <2>1, <2>2, <2>3, InvFrom
<1>7. CASE /\ At(m).frames = <<>> /\ ~stream.eofSeen
           /\ playback' = [playback EXCEPT ![m] = At(m)]
           /\ call' = [call EXCEPT ![t] = picture]
  <2>1. picture \in Stages /\ picture.mpeg = m
        BY StagesMade
  <2> HIDE DEF picture
  <2> QED BY <1>1, <1>6, <1>7, <2>1
<1>8. CASE /\ playback' = [playback EXCEPT ![m] = At(m)]
           /\ call' = [call EXCEPT ![t] = Guest]
      BY <1>1, <1>4, <1>6, <1>8
<1>9. CASE /\ At(m).frames # <<>> /\ Due(pb) > 0
           /\ playback' = [playback EXCEPT ![m] = pb]
           /\ call' = [call EXCEPT ![t] = display]
  <2>1. Due(pb) \in Int
        BY <1>3, <1>9, DueTyped
  <2> DEFINE w == (Due(pb) + Field - 1) \div Field
             d == Due(pb)
  <2>2. w \in Nat \ {0}
    <3> HIDE DEF d
    <3>1. d \in Nat \ {0} /\ Field \in Nat \ {0}
          BY <1>9, <2>1, PlaybackAssumption DEF d
    <3>2. (d + Field - 1) \div Field \in Nat \ {0}
          BY <3>1
    <3> QED BY <3>2 DEF d
  <2>3. display = [at |-> "display", mpeg |-> m, wake |-> w]
        OBVIOUS
  <2> HIDE DEF w
  <2>4. display \in Stages /\ display.at # "picture"
        BY <2>2, <2>3, StagesMade
  <2>5. pb \in Playback
        BY <1>3, <1>9 DEF Timely
  <2> HIDE DEF display
  <2> QED BY <1>6, <1>9, <2>4, <2>5
<1>10. CASE /\ At(m).frames # <<>>
            /\ playback' = [playback EXCEPT ![m] = Presented(pb)]
            /\ call' = [call EXCEPT ![t] = Guest]
  <2>1. Presented(pb) \in Playback
        BY <1>3, <1>10, PresentedTyped
  <2> QED BY <1>4, <1>6, <1>10, <2>1
<1> QED BY <1>2, <1>7, <1>8, <1>9, <1>10

LEMMA ResumeKeeps ==
    ASSUME MovieInv, NEW t \in Players, Resume(t)
    PROVE  MovieInv'
<1>1. call[t] \in Stages
      BY InvOpen
<1>2. CASE call[t].at = "fetchOn" /\ Fetch(t, call[t].mpeg) /\ UNCHANGED <<cd, ring, stream>>
  <2>1. call[t].mpeg \in Mpegs
        BY <1>1, <1>2, StagesOpen
  <2> QED BY <1>2, <2>1, FetchKeeps DEF Resume
<1>3. CASE call[t].at = "readOn" /\ ReadOn(t, call[t].wanted, call[t].got)
  <2>1. call[t].wanted \in Nat /\ call[t].got \in Seq(Nat)
        BY <1>1, <1>3, StagesOpen
  <2> QED BY <1>3, <2>1, ReadOnKeeps DEF Resume
<1> QED BY <1>2, <1>3 DEF Resume

LEMMA SoonerTyped ==
    ASSUME NEW c \in Stages
    PROVE  Sooner(c) \in Stages /\ (Sooner(c).at = "picture" => Sooner(c) = c)
<1>1. CASE c.at \notin {"display", "read"}
      BY <1>1 DEF Sooner
<1>2. CASE c.at \in {"display", "read"} /\ c.wake > 1
  <2>1. Sooner(c) = [c EXCEPT !.wake = c.wake - 1]
        BY <1>2 DEF Sooner
  <2>2. c.wake - 1 \in Nat \ {0}
        BY <1>2, StagesOpen
  <2> DEFINE w == c.wake - 1
  <2> HIDE DEF w
  <2>3. [c EXCEPT !.wake = w] \in Stages /\ [c EXCEPT !.wake = w].at # "picture"
    <3>1. CASE c \in [at : {"display"}, mpeg : Mpegs, wake : Nat \ {0}]
      <4>1. [c EXCEPT !.wake = w] \in [at : {"display"}, mpeg : Mpegs, wake : Nat \ {0}]
            /\ [c EXCEPT !.wake = w].at = "display"
            BY <2>2, <3>1 DEF w
      <4> QED BY <4>1 DEF Stages
    <3>2. CASE c \in [at : {"read"}, wake : Nat \ {0}, wanted : Nat, got : Seq(Nat)]
      <4>1. [c EXCEPT !.wake = w]
              \in [at : {"read"}, wake : Nat \ {0}, wanted : Nat, got : Seq(Nat)]
            /\ [c EXCEPT !.wake = w].at = "read"
            BY <2>2, <3>2 DEF w
      <4> QED BY <4>1 DEF Stages
    <3> QED BY <1>2, <3>1, <3>2 DEF Stages, Guest
  <2> QED BY <2>1, <2>3 DEF w
<1>3. CASE c.at = "display" /\ c.wake = 1
  <2>1. Sooner(c) = [at |-> "fetchOn", mpeg |-> c.mpeg]
        BY <1>3 DEF Sooner
  <2>2. c.mpeg \in Mpegs
        BY <1>3, StagesOpen
  <2>3. Sooner(c) \in Stages
        BY <2>1, <2>2, StagesMade
  <2>4. Sooner(c).at = "fetchOn"
        BY <2>1
  <2> QED BY <2>3, <2>4
<1>4. CASE c.at = "read" /\ c.wake = 1
  <2>1. Sooner(c) = [at |-> "readOn", wanted |-> c.wanted, got |-> c.got]
        BY <1>4 DEF Sooner
  <2>2. c.wanted \in Nat /\ c.got \in Seq(Nat)
        BY <1>4, StagesOpen
  <2> QED BY <2>1, <2>2, StagesMade
<1>5. c.at \in {"display", "read"} => c.wake > 1 \/ c.wake = 1
      BY StagesOpen
<1> QED BY <1>1, <1>2, <1>3, <1>4, <1>5

LEMMA VSyncKeeps ==
    ASSUME MovieInv, VSync
    PROVE  MovieInv'
<1>1. UNCHANGED <<film, ring, stream, calls>> /\ cd' = CD!Ticked(cd)
      /\ playback' = [m \in Mpegs |-> IF playback[m] = Absent THEN Absent ELSE Aged(playback[m])]
      /\ call' = [t \in Players |-> Sooner(call[t])]
      BY DEF VSync
<1>2. InFilm(CD!Ticked(cd))
      BY InvOpen, TickedInFilm
<1>3. InFilm(cd)' /\ film' \in Films
      BY <1>1, <1>2, InvOpen DEF InFilm
<1>4. \A m \in Mpegs : playback[m] # Absent =>
         Aged(playback[m]) \in Playback /\ Aged(playback[m]).frames = playback[m].frames
      BY InvOpen, AgedTyped
<1>5. playback' \in Handles
      BY <1>1, <1>4 DEF Handles
<1>6. \A t \in Players : Sooner(call[t]) \in Stages
                         /\ (Sooner(call[t]).at = "picture" => Sooner(call[t]) = call[t])
      BY InvOpen, SoonerTyped
<1>7. call' \in [Players -> Stages]
      BY <1>1, <1>6
<1>8. ASSUME NEW u \in Players, NEW k \in Mpegs, Waiting(call'[u], k)
      PROVE  playback'[k] # Absent /\ playback'[k].frames = <<>> /\ ~stream'.eofSeen
  <2>1. Waiting(call[u], k)
        BY <1>1, <1>6, <1>8 DEF Waiting
  <2>2. playback[k] # Absent /\ playback[k].frames = <<>> /\ ~stream.eofSeen
        BY <2>1, InvOpen
  <2>3. playback'[k] = Aged(playback[k])
        BY <1>1, <2>2
  <2> QED BY <1>1, <1>4, <2>2, <2>3, AbsentIsNone
<1> QED BY <1>1, <1>3, <1>5, <1>7, <1>8, InvOpen, InvFrom

LEMMA MovieStarts ==
    ASSUME MovieInit
    PROVE  MovieInv
<1>1. cd \in CD!Stream /\ cd.lbn = 0 /\ cd.buffered = 0
  <2>1. 0 \in 0 .. Capacity /\ 0 \in 0 .. Work - 1 /\ 0 \in 0 .. CD!MaxSince
        BY DriveConstants
  <2> QED BY <2>1 DEF MovieInit, CD!Stream
<1>2. film \in Films /\ film.sectors \in Nat
      BY MovieAssumption DEF MovieInit
<1>3. ring \in Seq(Nat) /\ calls \in 0 .. MaxCalls
      BY MovieAssumption DEF MovieInit
<1>4. stream \in [gen : Nat, unread : Int, eofPending : BOOLEAN, eofSeen : BOOLEAN]
      BY DEF MovieInit
<1>5. playback \in [Mpegs -> Playback \cup {Absent}] /\ call \in [Players -> Stages]
      BY StagesMade DEF MovieInit
<1>6. \A t \in Players, m \in Mpegs : ~WaitsForPicture(t, m)
      BY StagesMade DEF MovieInit, WaitsForPicture
<1> QED BY <1>1, <1>2, <1>3, <1>4, <1>5, <1>6 DEF MovieInv, MovieTypeOK, NoForgottenWaiter

LEMMA MovieStepKeeps ==
    ASSUME MovieInv, [MovieNext]_movieVars
    PROVE  MovieInv'
<1>1. ASSUME NEW t \in Feeders, Feeder(t) PROVE MovieInv'
  <2>1. t \in Players
        BY DEF Players
  <2>2. CASE StInit(t)
        BY <2>1, <2>2, StInitKeeps
  <2>3. CASE StStart(t)
        BY <2>1, <2>3, StStartKeeps
  <2>4. CASE StStop(t)
        BY <2>1, <2>4, StStopKeeps
  <2>5. CASE StPause(t) \/ StResume(t)
        BY <2>1, <2>5, StPauseKeeps
  <2>6. ASSUME NEW n \in Reads, StRead(t, n) \/ StReadNow(t, n) PROVE MovieInv'
        BY <2>1, <2>6, StReadKeeps, StReadNowKeeps
  <2>7. ASSUME NEW m \in Mpegs, NEW n \in 1 .. Len(ring), Demux(t, m, n) PROVE MovieInv'
        BY <2>1, <2>7, DemuxKeeps
  <2>8. ASSUME NEW m \in Mpegs, NEW i \in DOMAIN film.packets, AddBs(t, m, i) PROVE MovieInv'
        BY <2>1, <2>8, AddBsKeeps
  <2>9. ASSUME NEW m \in Mpegs, MpegFlush(t, m) PROVE MovieInv'
        BY <2>1, <2>9, MpegFlushKeeps
  <2>10. ASSUME NEW m \in Mpegs, Create(t, m) \/ Reset(t, m) \/ Query(t, m) PROVE MovieInv'
         BY <2>1, <2>10, CreateKeeps
  <2>11. ASSUME NEW m \in Mpegs, Delete(t, m) PROVE MovieInv'
         BY <2>1, <2>11, DeleteKeeps
  <2>12. CASE MpegInit(t)
         BY <2>1, <2>12, MpegInitKeeps
  <2> QED BY <1>1, <2>2, <2>3, <2>4, <2>5, <2>6, <2>7, <2>8, <2>9, <2>10, <2>11, <2>12 DEF Feeder
<1>2. ASSUME NEW t \in Viewers, Viewer(t) PROVE MovieInv'
  <2>1. t \in Players
        BY DEF Players
  <2>2. PICK m \in Mpegs : GetPicture(t, m)
        BY <1>2 DEF Viewer
  <2> QED BY <2>1, <2>2, FetchKeeps DEF GetPicture
<1>3. ASSUME NEW t \in Players, Resume(t) PROVE MovieInv'
      BY <1>3, ResumeKeeps
<1>4. CASE VSync
      BY <1>4, VSyncKeeps
<1>5. CASE UNCHANGED movieVars
  <2>1. UNCHANGED <<film, cd, ring, stream, playback, call, calls>>
        BY <1>5 DEF movieVars
  <2>2. film' \in Films /\ InFilm(cd)'
        BY <2>1, DriveStays
  <2> QED BY <2>1, <2>2, InvOpen, InvFrom
<1> QED BY <1>1, <1>2, <1>3, <1>4, <1>5 DEF MovieNext

LEMMA MovieInvHolds == MovieSpec => []MovieInv
<1>1. MovieInit => MovieInv
      BY MovieStarts
<1>2. MovieInv /\ [MovieNext]_movieVars => MovieInv'
      BY MovieStepKeeps
<1> QED BY <1>1, <1>2, PTL DEF MovieSpec

\* Whatever the program calls, every variable keeps its type, and the drive reads
\* nothing from beyond the end of the film.
THEOREM MovieTypes == MovieSpec => []MovieTypeOK
<1>1. MovieInv => MovieTypeOK
      BY DEF MovieInv
<1> QED BY <1>1, MovieInvHolds, PTL

\* Nobody waits for a picture while there is one or after the end of the stream:
\* whatever decodes a picture, drops a handle or finds the end wakes the waiters.
THEOREM NobodyForgotten == MovieSpec => []NoForgottenWaiter
<1>1. MovieInv => NoForgottenWaiter
      BY DEF MovieInv
<1> QED BY <1>1, MovieInvHolds, PTL

(***************************************************************************)
(* The end of the film and what has not been passed on.                    *)
(***************************************************************************)
IsReader(c) == c.at \in {"read", "readOn"}

\* The readers after a step, from those before.
LEMMA UnreadFrom ==
    ASSUME UnreadExact, ring' = ring, stream'.unread = stream.unread,
           \A u \in Players : /\ IsReader(call'[u]) => IsReader(call[u]) /\ call'[u].got = call[u].got
                              /\ IsReader(call[u]) => IsReader(call'[u])
    PROVE  UnreadExact'
BY DEF UnreadExact, Reading, IsReader

LEMMA WokenReads ==
    ASSUME NEW S, NEW u \in Players
    PROVE  /\ IsReader(Woken(S)[u]) => Woken(S)[u] = call[u]
           /\ IsReader(call[u]) => Woken(S)[u] = call[u]
<1>1. CASE \E m \in S : WaitsForPicture(u, m)
  <2>1. Woken(S)[u] = [at |-> "fetchOn", mpeg |-> call[u].mpeg] /\ call[u].at = "picture"
        BY <1>1 DEF Woken, WaitsForPicture
  <2> QED BY <2>1 DEF IsReader
<1>2. CASE ~\E m \in S : WaitsForPicture(u, m)
      BY <1>2 DEF Woken
<1> QED BY <1>1, <1>2

LEMMA EndReads ==
    ASSUME MovieInv, NEW t \in Players, EndOfStream(t)
    PROVE  /\ stream'.unread = stream.unread /\ ~IsReader(call'[t])
           /\ \A u \in Players \ {t} :
                /\ IsReader(call'[u]) => IsReader(call[u]) /\ call'[u].got = call[u].got
                /\ IsReader(call[u]) => IsReader(call'[u])
<1> DEFINE S == Existing(playback)
<1>1. call' = [Woken(S) EXCEPT ![t] = Guest] /\ Woken(S) \in [Players -> Stages]
  <2>1. S \in SUBSET Mpegs
        BY DEF Existing
  <2> QED BY <2>1, InvOpen, WokenTyped DEF EndOfStream
<1> HIDE DEF S
<1>2. stream'.unread = stream.unread
      BY InvOpen DEF EndOfStream, Streams
<1>3. ~IsReader(call'[t])
      BY <1>1, StagesMade DEF IsReader
<1>4. ASSUME NEW u \in Players \ {t}
      PROVE  /\ IsReader(call'[u]) => IsReader(call[u]) /\ call'[u].got = call[u].got
             /\ IsReader(call[u]) => IsReader(call'[u])
  <2>1. call'[u] = Woken(S)[u]
        BY <1>1
  <2> QED BY <2>1, WokenReads
<1> QED BY <1>2, <1>3, <1>4

\* A thread that neither reads nor begins to.
LEMMA OneElse ==
    ASSUME MovieInv, UnreadExact, NEW t \in Players, NEW c \in Stages,
           call' = [call EXCEPT ![t] = c], ~IsReader(call[t]), ~IsReader(c),
           ring' = ring, stream'.unread = stream.unread
    PROVE  UnreadExact'
<1>1. call'[t] = c /\ \A u \in Players \ {t} : call'[u] = call[u]
      BY InvOpen
<1>2. \A u \in Players : /\ IsReader(call'[u]) => IsReader(call[u]) /\ call'[u].got = call[u].got
                         /\ IsReader(call[u]) => IsReader(call'[u])
      BY <1>1
<1> QED BY <1>2, UnreadFrom

LEMMA WokenUnread ==
    ASSUME MovieInv, UnreadExact, NEW S \in SUBSET Mpegs, call' = Woken(S),
           ring' = ring, stream'.unread = stream.unread
    PROVE  UnreadExact'
<1>1. \A u \in Players : /\ IsReader(call'[u]) => IsReader(call[u]) /\ call'[u].got = call[u].got
                         /\ IsReader(call[u]) => IsReader(call'[u])
      BY WokenReads
<1> QED BY <1>1, UnreadFrom

LEMMA ReadOnUnread ==
    ASSUME MovieInv, NEW t \in Players, NEW wanted \in Nat, NEW got \in Seq(Nat),
           ReadOn(t, wanted, got),
           \A u \in Players \ {t} : ~IsReader(call[u]), stream.unread = Len(ring) + Len(got)
    PROVE  UnreadExact'
<1> DEFINE now == CD!Updated(cd, film.sectors)
           n == Sectors(wanted)
           all == got \o CellsOf(cd.lbn, n)
<1>1. ring \in Seq(Nat) /\ Len(ring) \in Nat /\ Len(got) \in Nat
      BY InvOpen
<1>2. ASSUME ring' = ring \o got, stream'.unread = stream.unread,
             \A u \in Players : ~IsReader(call'[u])
      PROVE  UnreadExact'
  <2>1. stream'.unread = Len(ring')
        BY <1>1, <1>2
  <2> QED BY <1>2, <2>1 DEF UnreadExact, Reading, IsReader
<1>3. ASSUME call' = [call EXCEPT ![t] = Guest]
      PROVE  \A u \in Players : ~IsReader(call'[u])
  <2>1. call'[t] = Guest /\ \A u \in Players \ {t} : call'[u] = call[u]
        BY <1>3, InvOpen
  <2>2. ~IsReader(Guest)
        BY StagesMade DEF IsReader
  <2> QED BY <2>1, <2>2
<1>4. CASE ring' = ring \o got /\ call' = [call EXCEPT ![t] = Guest] /\ UNCHANGED stream
      BY <1>2, <1>3, <1>4
<1>5. CASE ring' = ring \o got /\ EndOfStream(t)
  <2>1. \A u \in Players : ~IsReader(call'[u])
        BY <1>5, EndReads
  <2> QED BY <1>2, <1>5, <2>1, EndReads
<1>6. n \in Nat /\ n * Cells \in Nat
  <2>1. n \in Nat
        BY SectorsFacts
  <2> HIDE DEF n
  <2> QED BY <2>1, MovieAssumption
<1>7. all \in Seq(Nat) /\ Len(all) = Len(got) + n * Cells
  <2> DEFINE q == CellsOf(cd.lbn, n)
  <2> HIDE DEF n
  <2>1. cd.lbn \in Nat /\ Cells \in Nat
        BY InvOpen, MovieAssumption DEF InFilm, CD!Stream
  <2>2. cd.lbn * Cells \in Nat
        BY <2>1
  <2>3. q \in Seq(Nat) /\ Len(q) = n * Cells
        BY <1>6, <2>2 DEF CellsOf
  <2> HIDE DEF q
  <2>4. got \o q \in Seq(Nat) /\ Len(got \o q) = Len(got) + Len(q)
        BY <2>3, ConcatProperties
  <2> QED BY <2>3, <2>4 DEF q
<1> DEFINE Moved ==
              /\ stream'.unread = stream.unread + n * Cells
              /\ \/ ring' = ring \o all /\ call' = [call EXCEPT ![t] = Guest]
                 \/ /\ UNCHANGED ring
                    /\ \E c : call' = [call EXCEPT ![t] = c] /\ c.at = "read" /\ c.got = all
<1> HIDE DEF n, all
<1>8. CASE Moved
  <2>1. stream'.unread = stream.unread + n * Cells
        BY <1>8
  <2>2. CASE ring' = ring \o all /\ call' = [call EXCEPT ![t] = Guest]
    <3>1. Len(ring') = Len(ring) + Len(all)
          BY ONLY <1>1, <1>7, <2>2, ConcatProperties
    <3>2. stream'.unread = Len(ring')
          BY <1>1, <1>6, <1>7, <2>1, <3>1
    <3>3. \A u \in Players : ~IsReader(call'[u])
          BY <1>3, <2>2
    <3> QED BY <3>2, <3>3 DEF UnreadExact, Reading, IsReader
  <2>3. CASE UNCHANGED ring /\ \E c : call' = [call EXCEPT ![t] = c] /\ c.at = "read" /\ c.got = all
    <3>1. PICK c : call' = [call EXCEPT ![t] = c] /\ c.at = "read" /\ c.got = all
          BY <2>3
    <3>2. call'[t] = c /\ \A u \in Players \ {t} : call'[u] = call[u]
          BY <3>1, InvOpen
    <3>3. stream'.unread = Len(ring') + Len(call'[t].got)
      <4>1. call'[t].got = all /\ ring' = ring
            BY <2>3, <3>1, <3>2
      <4>2. Len(call'[t].got) = Len(got) + n * Cells /\ Len(ring') = Len(ring)
            BY <1>7, <4>1
      <4>3. stream.unread = Len(ring) + Len(got) /\ n * Cells \in Nat
            BY <1>6
      <4> DEFINE d == n * Cells
                 l == Len(ring')
                 r == Len(call'[t].got)
      <4> HIDE DEF d, l, r
      <4>4. stream'.unread = stream.unread + d /\ r = Len(got) + d /\ l = Len(ring) /\ d \in Nat
            BY <2>1, <4>2, <4>3 DEF d, l, r
      <4>5. stream'.unread = l + r
            BY ONLY <1>1, <4>3, <4>4
      <4> QED BY <4>5 DEF l, r
    <3>4. IsReader(call'[t]) /\ \A u \in Players \ {t} : ~IsReader(call'[u])
          BY <3>1, <3>2 DEF IsReader
    <3> QED BY <3>3, <3>4 DEF UnreadExact, Reading, IsReader
  <2> QED BY <1>8, <2>2, <2>3
<1>9. \/ ring' = ring \o got /\ call' = [call EXCEPT ![t] = Guest] /\ UNCHANGED stream
      \/ ring' = ring \o got /\ EndOfStream(t)
      \/ Moved
  <2>1. n = Min({Min({wanted, film.sectors - cd.lbn}), CD!Readable(now, film.sectors)})
        BY DEF n, Sectors, Left
  <2> DEFINE after == [now EXCEPT !.lbn = now.lbn + n, !.buffered = now.buffered - n]
             remaining == Min({wanted, film.sectors - cd.lbn})
             pending == stream.eofPending \/ (n > 0 /\ after.lbn = film.sectors)
             reading == [at |-> "read", wake |-> CD!WakeIn(after, remaining - n),
                         wanted |-> wanted - n, got |-> all]
  <2>2. \/ ring' = ring \o got /\ call' = [call EXCEPT ![t] = Guest] /\ UNCHANGED stream
        \/ ring' = ring \o got /\ EndOfStream(t)
        \/ /\ stream' = [stream EXCEPT !.unread = stream.unread + n * Cells,
                                       !.eofPending = pending]
           /\ \/ ring' = ring \o all /\ call' = [call EXCEPT ![t] = Guest]
              \/ UNCHANGED ring /\ call' = [call EXCEPT ![t] = reading]
    <3> HIDE DEF now
    <3> QED BY <2>1 DEF ReadOn, all, now
  <2>3. reading.at = "read" /\ reading.got = all
        OBVIOUS
  <2> HIDE DEF reading, pending
  <2>4. stream' = [stream EXCEPT !.unread = stream.unread + n * Cells, !.eofPending = pending]
        => stream'.unread = stream.unread + n * Cells
        BY InvOpen DEF Streams
  <2> QED BY <2>2, <2>3, <2>4
<1> QED BY <1>4, <1>5, <1>8, <1>9

LEMMA DemuxUnread ==
    ASSUME MovieInv, UnreadExact, NEW t \in Players, NEW m \in Mpegs, NEW n \in 1 .. Len(ring),
           Demux(t, m, n)
    PROVE  /\ UnreadExact'
           /\ ~stream.eofSeen /\ stream'.eofSeen =>
                ring' = <<>> /\ \A u \in Players : Reading(u) => call[u].got = <<>>
<1> DEFINE q == Appended(At(m), SubSeq(ring, 1, n), film.packets, stream.gen)
           unread == stream.unread - n
           complete == stream.eofPending /\ unread <= 0
           pbs == [playback EXCEPT ![m] = q]
           S == IF complete THEN Existing(pbs)
                ELSE IF Len(q.frames) # Len(At(m).frames) THEN {m} ELSE {}
           pending == stream.eofPending /\ ~complete
           seen == stream.eofSeen \/ complete
<1>1. /\ ring' = SubSeq(ring, n + 1, Len(ring)) /\ call' = Woken(S)
      /\ stream' = [stream EXCEPT !.unread = unread, !.eofPending = pending, !.eofSeen = seen]
      BY DEF Demux
<1> HIDE DEF S
<1>2. ring \in Seq(Nat) /\ Len(ring) \in Nat /\ n \in 1 .. Len(ring)
      BY InvOpen
<1>3. ring' \in Seq(Nat) /\ Len(ring') = Len(ring) - n
  <2>1. n + 1 \in 1 .. Len(ring) + 1
        BY <1>2
  <2>2. \A k \in n + 1 .. Len(ring) : ring[k] \in Nat
        BY <1>2
  <2> DEFINE r == SubSeq(ring, n + 1, Len(ring))
  <2>3. r \in Seq(Nat) /\ Len(r) = Len(ring) - n
        BY <1>2, <2>1, <2>2, SubSeqProperties
  <2> HIDE DEF r
  <2> QED BY <1>1, <2>3 DEF r
<1>4. stream'.unread = stream.unread - n
      BY <1>1, InvOpen DEF Streams
<1>5. /\ stream'.eofSeen = (stream.eofSeen \/ complete)
      /\ stream.eofSeen \in BOOLEAN /\ stream.unread \in Int
      BY <1>1, InvOpen DEF Streams
<1>6. \A u \in Players : /\ IsReader(call'[u]) => IsReader(call[u]) /\ call'[u].got = call[u].got
                         /\ IsReader(call[u]) => IsReader(call'[u])
      BY <1>1, WokenReads
<1>7. \A u \in Players : IsReader(call[u]) => call[u].got \in Seq(Nat) /\ Len(call[u].got) \in Nat
  <2> SUFFICES ASSUME NEW u \in Players, IsReader(call[u])
               PROVE  call[u].got \in Seq(Nat) /\ Len(call[u].got) \in Nat
      OBVIOUS
  <2>1. call[u] \in Stages
        BY InvOpen
  <2> QED BY <2>1, StagesOpen DEF IsReader
<1>8. UnreadExact'
  <2>1. \A u, w \in Players : IsReader(call'[u]) /\ IsReader(call'[w]) => u = w
        BY <1>6 DEF UnreadExact, Reading, IsReader
  <2>2. ASSUME NEW u \in Players, IsReader(call'[u])
        PROVE  stream'.unread = Len(ring') + Len(call'[u].got)
    <3>1. stream.unread = Len(ring) + Len(call[u].got) /\ call'[u].got = call[u].got
          BY <1>6, <2>2 DEF UnreadExact, Reading, IsReader
    <3>2. Len(call[u].got) \in Nat
          BY <1>6, <1>7, <2>2
    <3> QED BY <1>2, <1>3, <1>4, <3>1, <3>2
  <2>3. (\A u \in Players : ~IsReader(call'[u])) => stream'.unread = Len(ring')
    <3> SUFFICES ASSUME \A u \in Players : ~IsReader(call'[u])
                 PROVE  stream'.unread = Len(ring')
        OBVIOUS
    <3>1. stream.unread = Len(ring)
          BY <1>6 DEF UnreadExact, Reading, IsReader
    <3> QED BY <1>2, <1>3, <1>4, <3>1
  <2> QED BY <2>1, <2>2, <2>3 DEF UnreadExact, Reading, IsReader
<1>9. ASSUME ~stream.eofSeen, stream'.eofSeen
      PROVE  ring' = <<>> /\ \A u \in Players : Reading(u) => call[u].got = <<>>
  <2>1. stream.unread - n <= 0
        BY <1>5, <1>9
  <2>2. ASSUME NEW u \in Players, IsReader(call[u])
        PROVE  Len(ring') = 0 /\ Len(call[u].got) = 0
    <3>1. stream.unread = Len(ring) + Len(call[u].got) /\ Len(call[u].got) \in Nat
          BY <1>7, <2>2 DEF UnreadExact, Reading, IsReader
    <3> QED BY <1>2, <1>3, <2>1, <3>1
  <2>3. ASSUME \A u \in Players : ~IsReader(call[u])
        PROVE  Len(ring') = 0
    <3>1. stream.unread = Len(ring)
          BY <2>3 DEF UnreadExact, Reading, IsReader
    <3> QED BY <1>2, <1>3, <2>1, <3>1
  <2>4. Len(ring') = 0
        BY <2>2, <2>3
  <2>5. ring' = <<>>
        BY <1>3, <2>4, EmptySeq
  <2>6. ASSUME NEW u \in Players, IsReader(call[u])
        PROVE  call[u].got = <<>>
        BY <1>7, <2>2, <2>6, EmptySeq
  <2> QED BY <2>5, <2>6 DEF Reading, IsReader
<1> QED BY <1>8, <1>9

LEMMA FetchUnread ==
    ASSUME MovieInv, UnreadExact, NEW t \in Players, NEW m \in Mpegs, Fetch(t, m),
           MovieInv', ~IsReader(call[t]), UNCHANGED <<ring, stream>>
    PROVE  UnreadExact'
<1>1. \E c : call' = [call EXCEPT ![t] = c] /\ c.at \in {"picture", "guest", "display"}
      BY StagesMade DEF Fetch
<1>2. PICK c : call' = [call EXCEPT ![t] = c] /\ c.at \in {"picture", "guest", "display"}
      BY <1>1
<1>3. call'[t] = c /\ \A u \in Players \ {t} : call'[u] = call[u]
      BY <1>2, InvOpen
<1>4. ~IsReader(call'[t])
      BY <1>2, <1>3 DEF IsReader
<1>5. \A u \in Players : /\ IsReader(call'[u]) => IsReader(call[u]) /\ call'[u].got = call[u].got
                         /\ IsReader(call[u]) => IsReader(call'[u])
      BY <1>3, <1>4
<1> QED BY <1>5, UnreadFrom

LEMMA SoonerReads ==
    ASSUME NEW c \in Stages
    PROVE  /\ IsReader(Sooner(c)) => IsReader(c) /\ Sooner(c).got = c.got
           /\ IsReader(c) => IsReader(Sooner(c))
<1>1. CASE c.at \notin {"display", "read"}
      BY <1>1 DEF Sooner
<1>2. CASE c.at \in {"display", "read"} /\ c.wake > 1
  <2>1. Sooner(c) = [c EXCEPT !.wake = c.wake - 1]
        BY <1>2 DEF Sooner
  <2> DEFINE w == c.wake - 1
  <2> HIDE DEF w
  <2>2. [c EXCEPT !.wake = w].at = c.at /\ (c.at = "read" => [c EXCEPT !.wake = w].got = c.got)
        BY <1>2 DEF Stages, Guest
  <2> QED BY <1>2, <2>1, <2>2 DEF w, IsReader
<1>3. CASE c.at = "display" /\ c.wake = 1
  <2>1. Sooner(c) = [at |-> "fetchOn", mpeg |-> c.mpeg]
        BY <1>3 DEF Sooner
  <2>2. Sooner(c).at = "fetchOn"
        BY <2>1
  <2> QED BY <1>3, <2>2 DEF IsReader
<1>4. CASE c.at = "read" /\ c.wake = 1
  <2>1. Sooner(c) = [at |-> "readOn", wanted |-> c.wanted, got |-> c.got]
        BY <1>4 DEF Sooner
  <2>2. Sooner(c).at = "readOn" /\ Sooner(c).got = c.got
        BY <2>1
  <2> QED BY <1>4, <2>2 DEF IsReader
<1>5. c.at \in {"display", "read"} => c.wake > 1 \/ c.wake = 1
      BY StagesOpen
<1> QED BY <1>1, <1>2, <1>3, <1>4, <1>5

LEMMA UnreadStep ==
    ASSUME MovieInv, UnreadExact, [MovieNext]_movieVars
    PROVE  UnreadExact'
<1>0. MovieInv'
      BY MovieStepKeeps
<1>1. ASSUME NEW t \in Feeders, Feeder(t) PROVE UnreadExact'
  <2>1. t \in Players /\ call[t] \in Stages
        BY InvOpen DEF Players
  <2>2. ASSUME UNCHANGED <<ring, call>>, stream'.unread = stream.unread
        PROVE  UnreadExact'
        BY <2>2 DEF UnreadExact, Reading
  <2>3. CASE StInit(t) \/ StPause(t) \/ StResume(t) \/ MpegInit(t)
        BY <2>2, <2>3 DEF StInit, StPause, StResume, MpegInit
  <2>4. CASE StStart(t)
    <3>1. ring' = <<>> /\ stream'.unread = 0 /\ \A u \in Players : ~IsReader(call'[u])
          BY <2>4 DEF StStart, Reading, IsReader
    <3> QED BY <3>1 DEF UnreadExact, Reading, IsReader
  <2>5. ASSUME call[t] = Guest, EndOfStream(t), ring' = ring
        PROVE  UnreadExact'
    <3>1. ~IsReader(call[t])
          BY <2>5, StagesMade DEF IsReader
    <3> QED BY <2>1, <2>5, <3>1, EndReads, UnreadFrom
  <2>6. CASE StStop(t)
        BY <2>5, <2>6 DEF StStop
  <2>7. ASSUME NEW n \in Nat, ReadOn(t, n, <<>>), \A u \in Players : ~IsReader(call[u])
        PROVE  UnreadExact'
    <3>1. <<>> \in Seq(Nat) /\ Len(<<>>) = 0
          OBVIOUS
    <3>2. ring \in Seq(Nat) /\ stream.unread = Len(ring)
          BY <2>7, InvOpen DEF UnreadExact, Reading, IsReader
    <3>3. stream.unread = Len(ring) + Len(<<>>)
          BY <3>1, <3>2
    <3> QED BY <2>1, <2>7, <3>1, <3>3, ReadOnUnread
  <2>8. ASSUME NEW n \in Reads, StRead(t, n) PROVE UnreadExact'
    <3>1. n \in Nat
          BY MovieAssumption
    <3>2. ReadOn(t, n, <<>>) /\ \A u \in Players : ~IsReader(call[u])
          BY <2>8 DEF StRead, Reading, IsReader
    <3> QED BY <2>7, <3>1, <3>2
  <2>9. ASSUME NEW n \in Reads, StReadNow(t, n) PROVE UnreadExact'
    <3> DEFINE now == CD!Updated(cd, film.sectors)
               sectors == Min({n, film.sectors - cd.lbn, CD!Readable(now, film.sectors)})
    <3>1. call[t] = Guest /\ \A u \in Players : ~IsReader(call[u])
      <4>1. call[t] = Guest /\ ~\E u \in Players : Reading(u)
            BY <2>9 DEF StReadNow
      <4> QED BY <4>1 DEF Reading, IsReader
    <3>2. \/ sectors > 0 /\ ReadOn(t, sectors, <<>>)
          \/ EndOfStream(t) /\ UNCHANGED ring
          \/ UNCHANGED <<ring, stream, call>>
          BY <2>9 DEF StReadNow
    <3>3. sectors \in Int
      <4>1. InFilm(now) /\ CD!Readable(now, film.sectors) \in 0 .. now.buffered
            BY InvOpen, UpdatedInFilm, ReadableBuffered
      <4>2. now.buffered \in Nat
            BY <4>1, DriveConstants DEF InFilm, CD!Stream
      <4> DEFINE r == CD!Readable(now, film.sectors)
      <4>3. r \in Int
            BY <4>1, <4>2
      <4>4. n \in Int /\ film.sectors - cd.lbn \in Int
            BY MovieAssumption, InvOpen DEF InFilm, CD!Stream
      <4> HIDE DEF r
      <4>5. Min({n, film.sectors - cd.lbn, r}) \in Int
        <5>1. Min({n, film.sectors - cd.lbn, r}) \in {n, film.sectors - cd.lbn, r}
              BY <4>3, <4>4, MinOfThree
        <5> QED BY <4>3, <4>4, <5>1
      <4> QED BY <4>5 DEF r
    <3> HIDE DEF sectors
    <3>4. CASE sectors > 0 /\ ReadOn(t, sectors, <<>>)
      <4>1. sectors \in Nat
            BY <3>3, <3>4
      <4> QED BY <2>7, <3>1, <3>4, <4>1
    <3>5. CASE EndOfStream(t) /\ UNCHANGED ring
          BY <2>5, <3>1, <3>5
    <3>6. CASE UNCHANGED <<ring, stream, call>>
          BY <2>2, <3>6
    <3> QED BY <3>2, <3>4, <3>5, <3>6
  <2>10. ASSUME NEW m \in Mpegs, NEW n \in 1 .. Len(ring), Demux(t, m, n) PROVE UnreadExact'
         BY <2>1, <2>10, DemuxUnread
  <2>11. ASSUME UNCHANGED <<ring, stream>>, NEW S \in SUBSET Mpegs, call' = Woken(S)
         PROVE  UnreadExact'
         BY <2>11, WokenUnread
  <2>12. ASSUME NEW m \in Mpegs, NEW i \in DOMAIN film.packets, AddBs(t, m, i) PROVE UnreadExact'
    <3>1. UNCHANGED <<ring, stream>> /\ \E S \in SUBSET Mpegs : call' = Woken(S)
          BY <2>12 DEF AddBs
    <3> QED BY <2>11, <3>1
  <2>13. ASSUME NEW m \in Mpegs, MpegFlush(t, m) PROVE UnreadExact'
    <3>1. UNCHANGED <<ring, stream>> /\ \E S \in SUBSET Mpegs : call' = Woken(S)
          BY <2>13 DEF MpegFlush
    <3> QED BY <2>11, <3>1
  <2>14. ASSUME NEW m \in Mpegs, Create(t, m) \/ Reset(t, m) \/ Query(t, m) PROVE UnreadExact'
         BY <2>2, <2>14 DEF Create, Reset, Query
  <2>15. ASSUME NEW m \in Mpegs, Delete(t, m) PROVE UnreadExact'
    <3>1. UNCHANGED <<ring, stream>>
          /\ \A u \in Players : call'[u] = IF WaitsForPicture(u, m) THEN Guest ELSE call[u]
          BY <2>15 DEF Delete
    <3>2. \A u \in Players :
             /\ IsReader(call'[u]) => IsReader(call[u]) /\ call'[u].got = call[u].got
             /\ IsReader(call[u]) => IsReader(call'[u])
          BY <3>1, StagesMade DEF WaitsForPicture, IsReader
    <3> QED BY <3>1, <3>2, UnreadFrom
  <2> QED BY <1>1, <2>3, <2>4, <2>6, <2>8, <2>9, <2>10, <2>12, <2>13, <2>14, <2>15 DEF Feeder
<1>2. ASSUME NEW t \in Viewers, Viewer(t) PROVE UnreadExact'
  <2>1. t \in Players
        BY DEF Players
  <2>2. PICK m \in Mpegs : GetPicture(t, m)
        BY <1>2 DEF Viewer
  <2>3. ~IsReader(call[t])
        BY <2>2, StagesMade DEF GetPicture, IsReader
  <2> QED BY <1>0, <2>1, <2>2, <2>3, FetchUnread DEF GetPicture
<1>3. ASSUME NEW t \in Players, Resume(t) PROVE UnreadExact'
  <2>1. call[t] \in Stages
        BY InvOpen
  <2>2. CASE call[t].at = "fetchOn" /\ Fetch(t, call[t].mpeg) /\ UNCHANGED <<cd, ring, stream>>
    <3>1. call[t].mpeg \in Mpegs /\ ~IsReader(call[t])
          BY <2>1, <2>2, StagesOpen DEF IsReader
    <3> QED BY <1>0, <2>2, <3>1, FetchUnread
  <2>3. CASE call[t].at = "readOn" /\ ReadOn(t, call[t].wanted, call[t].got)
    <3>1. call[t].wanted \in Nat /\ call[t].got \in Seq(Nat)
          BY <2>1, <2>3, StagesOpen
    <3>2. stream.unread = Len(ring) + Len(call[t].got)
          /\ \A u \in Players \ {t} : ~IsReader(call[u])
          BY <2>3 DEF UnreadExact, Reading, IsReader
    <3> QED BY <2>3, <3>1, <3>2, ReadOnUnread
  <2> QED BY <1>3, <2>2, <2>3 DEF Resume
<1>4. CASE VSync
  <2>1. UNCHANGED <<ring, stream>> /\ \A u \in Players : call'[u] = Sooner(call[u])
        BY <1>4 DEF VSync
  <2>2. \A u \in Players : /\ IsReader(call'[u]) => IsReader(call[u]) /\ call'[u].got = call[u].got
                           /\ IsReader(call[u]) => IsReader(call'[u])
        BY <2>1, InvOpen, SoonerReads
  <2> QED BY <2>1, <2>2, UnreadFrom
<1>5. CASE UNCHANGED movieVars
      BY <1>5 DEF movieVars, UnreadExact, Reading
<1> QED BY <1>1, <1>2, <1>3, <1>4, <1>5 DEF MovieNext

LEMMA UnreadStarts ==
    ASSUME MovieInit
    PROVE  UnreadExact
<1>1. ring = <<>> /\ stream.unread = 0 /\ \A u \in Players : ~IsReader(call[u])
      BY StagesMade DEF MovieInit, IsReader
<1> QED BY <1>1 DEF UnreadExact, Reading, IsReader

\* The count of cells that the end of the film waits for is exact: what has been
\* read and not yet demultiplexed is in the program's ring, or in the hands of the
\* one thread that reads (cdStreamUnreadBytes, however reads are cut and resumed).
THEOREM UnreadCounted == MovieSpec => []UnreadExact
<1>1. MovieInit => UnreadExact
      BY UnreadStarts
<1>2. MovieInv /\ UnreadExact /\ [MovieNext]_movieVars => UnreadExact'
      BY UnreadStep
<1> QED BY <1>1, <1>2, MovieInvHolds, PTL DEF MovieSpec

\* When the demultiplexer finds the end of the film, all that was read has been
\* passed on: nothing of it is in the ring and nothing on its way there.
THEOREM EndFoundInTurn == MovieSpec => EndInTurn
<1> DEFINE Found ==
       \A t \in Feeders, m \in Mpegs : \A n \in 1 .. Len(ring) :
          Demux(t, m, n) /\ ~stream.eofSeen /\ stream'.eofSeen =>
             ring' = <<>> /\ \A u \in Players : Reading(u) => call[u].got = <<>>
<1>1. MovieInv /\ UnreadExact => Found
      BY DemuxUnread DEF Players
<1>2. MovieInv /\ UnreadExact /\ [MovieNext]_movieVars => [Found]_movieVars
      BY <1>1
<1> HIDE DEF Found
<1>3. MovieSpec => [][Found]_movieVars
      BY <1>2, MovieInvHolds, UnreadCounted, PTL DEF MovieSpec
<1> QED BY <1>3 DEF Found, EndInTurn
=============================================================================
