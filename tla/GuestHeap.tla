----------------------------- MODULE GuestHeap -----------------------------
(***************************************************************************)
(* The heap that the runtime keeps for the guest                           *)
(* (ps2xRuntime/src/lib/ps2_runtime.cpp): first fit with alignment,        *)
(* splitting, coalescing, reallocation in place or by moving, and the      *)
(* stacks that StartThread takes from it (Kernel/Syscalls/Thread.cpp).     *)
(*                                                                         *)
(* Addresses and sizes count granules of kGuestHeapDefaultAlignment bytes, *)
(* the unit to which every size is rounded.  m_guestHeapBlocks is a vector *)
(* in address order; here it is a set, "first" is lowest and "next" is the *)
(* block that begins where this one ends.  Address 0 is no block.          *)
(***************************************************************************)
EXTENDS Integers

CONSTANTS
    HardLimit,     \* kGuestHeapHardLimit
    ProgramEnd,    \* m_guestHeapSuggestedBase once the program is loaded
    Bases,         \* the arguments of SetupHeap in use
    Sizes,
    Aligns,
    Users,         \* what holds a block: a pointer of the guest or of a stub
    Threads,
    StackSize

ASSUME HeapAssumption ==
    /\ HardLimit \in Nat /\ ProgramEnd \in 1 .. HardLimit
    /\ Bases \subseteq 0 .. HardLimit
    /\ Sizes \subseteq Nat \ {0} /\ Aligns \subseteq Nat \ {0} /\ 1 \in Aligns
    /\ StackSize \in Nat \ {0}

VARIABLES
    configured,    \* m_guestHeapConfigured
    area,          \* m_guestHeapBase, ...Limit, ...End, ...SuggestedBase
    blocks,        \* m_guestHeapBlocks
    held,          \* the block that each user holds
    mem,           \* what each granule contains
    thread,        \* GuestThread: status, stack, ownsStack
    terminated     \* threads terminated since they were created

heap == <<configured, area, blocks>>
vars == <<configured, area, blocks, held, mem, thread, terminated>>

Block(addr, size, free) == [addr |-> addr, size |-> size, free |-> free]
End(b) == b.addr + b.size
Higher(x, y) == IF x < y THEN y ELSE x

Nothing == [addr |-> 0, size |-> 0]
NoThread == [status |-> "Absent", stack |-> 0, owns |-> FALSE]

\* The mark that user u leaves in the k-th granule of its block.
Mark(u, k) == <<u, k>>
Zero == <<>>

(***************************************************************************)
(* resetGuestHeapLocked: one free block from base to limit, or, where the  *)
(* arguments leave no room, from the suggested base to the hard limit.     *)
(***************************************************************************)
ResetArea(base, limit) ==
    LET lim == IF limit = 0 \/ limit > HardLimit THEN HardLimit ELSE limit
        bas == IF base = 0 THEN area.suggested ELSE base
        Of(b, l) == [base |-> b, limit |-> l, end |-> b, suggested |-> bas]
    IN  IF bas < lim THEN Of(bas, lim)
        ELSE IF bas < HardLimit THEN Of(bas, HardLimit) ELSE Of(0, 0)

AllFree(a) == IF a.base < a.limit THEN {Block(a.base, a.limit - a.base, TRUE)} ELSE {}

\* ensureGuestHeapInitializedLocked: the heap that a call finds.
Area == IF configured THEN area ELSE ResetArea(0, 0)
Blocks == IF configured THEN blocks ELSE AllFree(Area)

(***************************************************************************)
(* coalesceGuestHeapLocked: every maximal run of free blocks becomes one.  *)
(***************************************************************************)
RunStart(B, x) == x.free /\ ~\E p \in B : p.free /\ End(p) = x.addr
RunEnd(B, y) == y.free /\ ~\E n \in B : n.free /\ n.addr = End(y)
FreeBetween(B, x, y) ==
    x.addr <= y.addr /\ \A c \in B : x.addr <= c.addr /\ c.addr <= y.addr => c.free
Runs(B) ==
    {r \in B \X B : RunStart(B, r[1]) /\ RunEnd(B, r[2]) /\ FreeBetween(B, r[1], r[2])}
Coalesced(B) ==
    {b \in B : ~b.free} \cup {Block(r[1].addr, End(r[2]) - r[1].addr, TRUE) : r \in Runs(B)}

(***************************************************************************)
(* allocateGuestBlockLocked: the first free block with room for n granules *)
(* at a multiple of a; what is left before and after them stays free.      *)
(***************************************************************************)
AlignedIn(b, a) ==
    {s \in b.addr .. End(b) : s % a = 0 /\ \A r \in b.addr .. s - 1 : r % a # 0}
Fits(b, s, n, a) == b.free /\ s \in AlignedIn(b, a) /\ s + n <= End(b)
Room(B, n, a) == \E b \in B : \E s \in b.addr .. End(b) : Fits(b, s, n, a)
FirstFit(B, b, s, n, a) ==
    /\ Fits(b, s, n, a)
    /\ \A c \in B : (\E r \in c.addr .. End(c) : Fits(c, r, n, a)) => b.addr <= c.addr

Carved_NoSuffix(b, s, n) ==                  \* mutant: what is left is forgotten
    {x \in {Block(b.addr, s - b.addr, TRUE), Block(s, n, FALSE)} : x.size > 0}
Carved(b, s, n) ==
    {x \in {Block(b.addr, s - b.addr, TRUE), Block(s, n, FALSE),
            Block(s + n, End(b) - (s + n), TRUE)} : x.size > 0}

\* In B, n granules at s are taken from b.
TakeFrom(B, b, s, n) ==
    /\ configured' = TRUE
    /\ blocks' = (B \ {b}) \cup Carved(b, s, n)
    /\ area' = [Area EXCEPT !.end = Higher(@, s + n)]

\* A call that finds no room, or no such block: at most the heap is set up.
Refused ==
    /\ configured' = TRUE /\ area' = Area /\ blocks' = Blocks
    /\ UNCHANGED <<held, mem, thread, terminated>>

\* freeGuestBlockLocked.
FreeAt(B, addr) ==
    Coalesced({IF b.addr = addr THEN [b EXCEPT !.free = TRUE] ELSE b : b \in B})

\* What user u writes to the granules of its block at addr, from the k-th on.
Written(m, u, addr, k, n) ==
    [x \in DOMAIN m |-> IF x \in addr + k .. addr + n - 1 THEN Mark(u, x - addr) ELSE m[x]]

\* The contents m after a step that leaves the blocks B: those of free memory
\* are of no interest and forgotten.
Kept(m, B) ==
    [x \in DOMAIN m |-> IF \E b \in B : ~b.free /\ b.addr <= x /\ x < End(b) THEN m[x] ELSE Zero]

-----------------------------------------------------------------------------
\* SetupHeap: configureGuestHeap.  The code takes it at any time and forgets
\* what is allocated; that the program's start-up code calls it before anything
\* is taken from the heap is assumed of the program.
SetupHeap(base, limit) ==
    /\ \A u \in Users : held[u] = Nothing
    /\ \A t \in Threads : ~thread[t].owns
    /\ configured' = TRUE /\ area' = ResetArea(base, limit)
    /\ blocks' = AllFree(ResetArea(base, limit))
    /\ UNCHANGED <<held, mem, thread, terminated>>

\* guestMalloc; the user then fills its block.
Malloc(u, n, a) ==
    /\ held[u] = Nothing
    /\ \/ /\ ~Room(Blocks, n, a) /\ Refused
       \/ \E b \in Blocks : \E s \in b.addr .. End(b) :
             /\ FirstFit(Blocks, b, s, n, a)
             /\ TakeFrom(Blocks, b, s, n)
             /\ held' = [held EXCEPT ![u] = [addr |-> s, size |-> n]]
             /\ mem' = Kept(Written(mem, u, s, 0, n), blocks')
             /\ UNCHANGED <<thread, terminated>>

Free(u) ==
    /\ held[u] # Nothing
    /\ configured' = TRUE /\ area' = Area
    /\ blocks' = FreeAt(Blocks, held[u].addr)
    /\ held' = [held EXCEPT ![u] = Nothing]
    /\ mem' = Kept(mem, blocks')
    /\ UNCHANGED <<thread, terminated>>

(***************************************************************************)
(* guestRealloc of a block that grows or shrinks to n > 0 granules: in     *)
(* place if it can be, by a copy to a new block otherwise.                 *)
(***************************************************************************)
Shrink(u, n) ==
    LET h == held[u]
    IN  /\ h # Nothing /\ n <= h.size
        /\ configured' = TRUE /\ area' = Area
        /\ blocks' = Coalesced((Blocks \ {Block(h.addr, h.size, FALSE)})
                        \cup {x \in {Block(h.addr, n, FALSE),
                                     Block(h.addr + n, h.size - n, TRUE)} : x.size > 0})
        /\ held' = [held EXCEPT ![u].size = n]
        /\ mem' = Kept(mem, blocks')
        /\ UNCHANGED <<thread, terminated>>

\* The free block behind that of u, if it is large enough for u to grow to n.
Behind(u, n) ==
    {b \in Blocks : b.free /\ b.addr = held[u].addr + held[u].size
                           /\ held[u].size + b.size >= n}

GrowInPlace(u, n) ==
    LET h == held[u]
    IN  /\ h # Nothing /\ n > h.size
        /\ \E next \in Behind(u, n) :
              blocks' = (Blocks \ {Block(h.addr, h.size, FALSE), next})
                  \cup {x \in {Block(h.addr, n, FALSE),
                               Block(h.addr + n, End(next) - (h.addr + n), TRUE)} : x.size > 0}
        /\ configured' = TRUE /\ area' = [Area EXCEPT !.end = Higher(@, h.addr + n)]
        /\ held' = [held EXCEPT ![u].size = n]
        /\ mem' = Kept(Written(mem, u, h.addr, h.size, n), blocks')
        /\ UNCHANGED <<thread, terminated>>

\* memmove of n granules.
Moved_Short(m, from, to, n) ==               \* mutant: the last granule is left behind
    [x \in DOMAIN m |-> IF x \in to .. to + n - 2 THEN m[x - to + from] ELSE m[x]]
Moved(m, from, to, n) ==
    [x \in DOMAIN m |-> IF x \in to .. to + n - 1 THEN m[x - to + from] ELSE m[x]]

Move(u, n) ==
    LET h == held[u]
    IN  /\ h # Nothing /\ n > h.size /\ Behind(u, n) = {}
        /\ \/ /\ ~Room(Blocks, n, 1) /\ Refused
           \/ \E b \in Blocks : \E s \in b.addr .. End(b) :
                 /\ FirstFit(Blocks, b, s, n, 1)
                 /\ configured' = TRUE
                 /\ blocks' = FreeAt((Blocks \ {b}) \cup Carved(b, s, n), h.addr)
                 /\ area' = [Area EXCEPT !.end = Higher(@, s + n)]
                 /\ held' = [held EXCEPT ![u] = [addr |-> s, size |-> n]]
                 /\ mem' = Kept(Written(Moved(mem, h.addr, s, h.size), u, s, h.size, n), blocks')
                 /\ UNCHANGED <<thread, terminated>>

(***************************************************************************)
(* Threads: CreateThread without a stack of its own, StartThread, and the  *)
(* ways a thread ends.                                                     *)
(***************************************************************************)
CreateThread(t) ==
    /\ thread[t].status = "Absent"
    /\ thread' = [thread EXCEPT ![t].status = "Dormant"]
    /\ terminated' = terminated \ {t}
    /\ UNCHANGED <<configured, area, blocks, held, mem>>

StartThread(t) ==
    /\ thread[t].status = "Dormant"
    /\ \/ /\ thread[t].stack # 0
          /\ thread' = [thread EXCEPT ![t].status = "Live"]
          /\ UNCHANGED <<configured, area, blocks, held, mem, terminated>>
       \/ /\ thread[t].stack = 0 /\ ~Room(Blocks, StackSize, 1) /\ Refused
       \/ /\ thread[t].stack = 0
          /\ \E b \in Blocks : \E s \in b.addr .. End(b) :
                /\ FirstFit(Blocks, b, s, StackSize, 1)
                /\ TakeFrom(Blocks, b, s, StackSize)
                /\ thread' = [thread EXCEPT ![t] =
                                 [status |-> "Live", stack |-> s, owns |-> TRUE]]
          /\ UNCHANGED <<held, mem, terminated>>

\* A thread function returns, or calls ExitThread: the stack is kept.
ExitThread_NotOwner(t) ==                    \* mutant: the next start finds it disowned
    /\ thread[t].status = "Live"
    /\ thread' = [thread EXCEPT ![t].status = "Dormant", ![t].owns = FALSE]
    /\ UNCHANGED <<configured, area, blocks, held, mem, terminated>>
ExitThread(t) ==
    /\ thread[t].status = "Live"
    /\ thread' = [thread EXCEPT ![t].status = "Dormant"]
    /\ UNCHANGED <<configured, area, blocks, held, mem, terminated>>

\* The stack of t goes back to the heap, if t owns it.
StackGivenBack(t) ==
    IF thread[t].owns
    THEN configured' = TRUE /\ area' = Area /\ blocks' = FreeAt(Blocks, thread[t].stack)
    ELSE UNCHANGED heap

\* The address of the stack stays in the record.
TerminateThread_StillOwner(t) ==             \* mutant: ownsStack is not cleared
    /\ thread[t].status = "Live" /\ thread' = [thread EXCEPT ![t].status = "Dormant"]
    /\ StackGivenBack(t) /\ terminated' = terminated \cup {t} /\ UNCHANGED <<held, mem>>
TerminateThread(t) ==
    /\ thread[t].status = "Live"
    /\ thread' = [thread EXCEPT ![t].status = "Dormant", ![t].owns = FALSE]
    /\ StackGivenBack(t)
    /\ terminated' = terminated \cup {t}
    /\ UNCHANGED <<held, mem>>

\* DeleteThread of a dormant thread, ExitDeleteThread of a live one.
DeleteThread(t) ==
    /\ thread[t].status # "Absent"
    /\ thread' = [thread EXCEPT ![t] = NoThread]
    /\ StackGivenBack(t)
    /\ UNCHANGED <<held, mem, terminated>>

-----------------------------------------------------------------------------
Init ==
    /\ configured = FALSE
    /\ area = [base |-> ProgramEnd, limit |-> HardLimit, end |-> ProgramEnd,
               suggested |-> ProgramEnd]
    /\ blocks = {}
    /\ held = [u \in Users |-> Nothing]
    /\ mem = [x \in 0 .. HardLimit |-> Zero]
    /\ thread = [t \in Threads |-> NoThread]
    /\ terminated = {}

UserCall(u) ==
    \/ \E n \in Sizes, a \in Aligns : Malloc(u, n, a)
    \/ Free(u)
    \/ \E n \in Sizes : Shrink(u, n) \/ GrowInPlace(u, n) \/ Move(u, n)

ThreadCall(t) ==
    CreateThread(t) \/ StartThread(t) \/ ExitThread(t) \/ TerminateThread(t) \/ DeleteThread(t)

Next ==
    \/ \E base \in Bases, limit \in 0 .. HardLimit + 1 : SetupHeap(base, limit)
    \/ \E u \in Users : UserCall(u)
    \/ \E t \in Threads : ThreadCall(t)

Spec == Init /\ [][Next]_vars

(***************************************************************************)
(* Invariants.                                                             *)
(***************************************************************************)
\* Type correctness of the heap, its users and the threads.
TypeOK ==
    /\ configured \in BOOLEAN
    /\ area \in [base : 0 .. HardLimit, limit : 0 .. HardLimit, end : 0 .. HardLimit,
                 suggested : 1 .. HardLimit]
    /\ blocks \subseteq [addr : 0 .. HardLimit, size : 0 .. HardLimit, free : BOOLEAN]
    /\ held \in [Users -> [addr : 0 .. HardLimit, size : 0 .. HardLimit]]
    /\ mem \in [0 .. HardLimit -> (Users \X (0 .. HardLimit)) \cup {Zero}]
    /\ thread \in [Threads -> [status : {"Absent", "Dormant", "Live"},
                               stack : 0 .. HardLimit, owns : BOOLEAN]]
    /\ terminated \subseteq Threads

\* The blocks cover the heap from its base to its limit without a gap and
\* without overlapping, and m_guestHeapEnd lies behind every allocated one.
BlocksTile ==
    configured =>
        /\ \A b \in blocks : /\ b.size > 0 /\ area.base <= b.addr /\ End(b) <= area.limit
                             /\ ~b.free => End(b) <= area.end
        /\ \A x \in area.base .. area.limit - 1 : \E b \in blocks : b.addr <= x /\ x < End(b)
        /\ \A b, c \in blocks : b # c => End(b) <= c.addr \/ End(c) <= b.addr

\* What is in use: the blocks of the users and the stacks that threads own.
InUse == {Block(held[u].addr, held[u].size, FALSE) : u \in {v \in Users : held[v] # Nothing}}
    \cup {Block(thread[t].stack, StackSize, FALSE) : t \in {v \in Threads : thread[v].owns}}

\* The allocated blocks are exactly those in use, with the sizes their holders
\* were given, and no two holders have the same: nothing leaks, nothing is
\* given out twice, whatever was split, grown, moved or freed around it.
AllocationsExact ==
    /\ {b \in blocks : ~b.free} = InUse
    /\ \A u, v \in Users : held[u] # Nothing /\ held[u].addr = held[v].addr => u = v
    /\ \A t, v \in Threads : thread[t].owns /\ thread[v].owns /\ t # v
                              => thread[t].stack # thread[v].stack
    /\ \A u \in Users, t \in Threads : thread[t].owns => held[u].addr # thread[t].stack

\* An allocation is refused only if every aligned stretch of its length holds
\* memory in use: no free space is hidden by the way it is split into blocks.
NoHiddenRoom ==
    configured =>
        \A n \in Sizes, a \in Aligns, s \in area.base .. area.limit :
            /\ s + n <= area.limit /\ s % a = 0
            /\ \A b \in InUse : End(b) <= s \/ s + n <= b.addr
            => Room(blocks, n, a)

\* What a user has written to its block is there as long as it holds the
\* block, also after the block has moved.
ContentsKept ==
    \A u \in Users : \A k \in 0 .. held[u].size - 1 : mem[held[u].addr + k] = Mark(u, k)

\* A thread that runs without having been terminated since it was created has
\* a stack that the heap gives to nobody else.  (One that was terminated and
\* started again has not: its record keeps the address of the freed stack.)
LiveOwnsStack ==
    \A t \in Threads : thread[t].status = "Live" /\ t \notin terminated => thread[t].owns
=============================================================================
