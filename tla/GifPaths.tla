------------------------------ MODULE GifPaths ------------------------------
(***************************************************************************)
(* The three paths by which packets reach the GS: VU1's XGKICK (PATH1),    *)
(* DIRECT and DIRECTHL codes in VIF1's stream (PATH2), DMA to the GIF      *)
(* (PATH3).  The arbiter (ps2xRuntime/src/lib/gs/ps2_gif_arbiter.cpp), the *)
(* mask on PATH3 (ps2_memory.cpp), VIF1 (ps2_vif1_interpreter.cpp) and the *)
(* way the GS reads what it is sent (gs/gs_frontend.cpp).                  *)
(*                                                                         *)
(* A quadword is an item [op, n]: a GIF tag ("Image": n quadwords of image *)
(* follow, "Packed": n of registers), "Data" or "Reg".  VIF1's stream has  *)
(* VIF codes between them, each with the NOPs that fill its quadword.      *)
(* Contents are left out.  VIF1 reads a transfer in one go; here each code *)
(* is a step, and nothing else happens between.                            *)
(***************************************************************************)
EXTENDS Integers, SequencesExt

CONSTANTS
    GifPackets,    \* what the program sends by PATH3
    KickPackets,   \* what a VU1 program may kick, by PATH1
    Streams,       \* what it sends to VIF1: [items, owed]
    MaxCount,      \* the largest count of a tag or a code
    MaxPackets     \* bound: packets sent

ASSUME BoundAssumption == MaxCount \in Nat /\ MaxPackets \in Nat

VARIABLES
    queue,         \* GifArbiter::m_queue
    masked,        \* m_path3Masked
    fifo,          \* m_path3MaskedFifo
    pending,       \* m_vif1PendingPath2ImageQwc, m_vif1PendingPath2DirectHl
    vu,            \* vif1_regs: BASE, OFST, TOPS, TOP, DBF
    vif,           \* what is left of the transfer that VIF1 reads
    gs,            \* m_pendingGifImageBytes, and whether it has misread a quadword
    owed,          \* the quadwords of an image that the program has yet to send
    sent,          \* the packets sent by PATH3
    done,          \* the packets the GS has been given
    starts         \* 0 since a BASE, 1 once TOPS is placed, 2 once TOP is too

paths == <<queue, masked, fifo, gs, sent, done>>
vars == <<queue, masked, fifo, pending, vu, vif, gs, owed, sent, done, starts>>

Quads == {"Image", "Packed", "Data", "Reg"}
Codes == {"MskPath3", "Direct", "DirectHl", "Mscal", "Base", "Offset"}
Items == [op : Quads \cup Codes, n : 0 .. MaxCount]
Packet(id, path, hl, quads) == [id |-> id, path |-> path, hl |-> hl, quads |-> quads]
IsImage(p) == p.path = 3 /\ p.quads[1].op = "Image"
NoImage == [left |-> 0, hl |-> FALSE]
\* The quadwords of a DIRECT.
Count(code) == IF code.n = 0 THEN 65536 ELSE code.n

Least(x, y) == IF x < y THEN x ELSE y

\* What an image still lacks after the k quadwords s of a DIRECT.
Lacking_TagCounted(s, k) ==                  \* mutant: the tag is counted as image
    IF s[1].op = "Image" /\ s[1].n > k THEN s[1].n - k ELSE 0
Lacking(s, k) == IF s[1].op = "Image" /\ s[1].n > k - 1 THEN s[1].n - (k - 1) ELSE 0

(***************************************************************************)
(* What a program sends.  codes are the places of VIF codes in items; the  *)
(* quadwords of a DIRECT follow its code, those that its image lacks       *)
(* behind them, and the program owes what the transfer does not have.      *)
(***************************************************************************)
\* What a program sends behind the k quadwords s of a DIRECT: what is left of a
\* tag and its image.
ImageBehind(s, k) == IF s[1].op = "Image" /\ k =< s[1].n THEN s[1].n + 1 - k ELSE 0

GoesOn(items, owing, codes, at, lack) ==
    /\ \A i \in at + 1 .. Least(at + lack, Len(items)) : items[i].op = "Data"
    /\ IF at + lack >= Len(items) THEN owing = at + lack - Len(items)
       ELSE at + lack + 1 \in codes

CodeFits(items, owing, codes, i) ==
    /\ items[i].op \in Codes
    /\ IF items[i].op \in {"Direct", "DirectHl"}
       THEN LET k == Count(items[i])
            IN  /\ i + k =< Len(items)
                /\ GoesOn(items, owing, codes, i + k,
                          ImageBehind(SubSeq(items, i + 1, i + k), k))
       ELSE GoesOn(items, owing, codes, i, 0)

ASSUME SendAssumption ==
    /\ \A q \in GifPackets \cup KickPackets :
          q \in Seq(Items) /\ q # <<>> /\ \A i \in DOMAIN q : q[i].op \in Quads
    /\ \A s \in Streams :
          /\ s.items \in Seq(Items) /\ s.items # <<>> /\ s.owed \in 0 .. MaxCount
          /\ \E codes \in SUBSET (1 .. Len(s.items)) :
                /\ GoesOn(s.items, s.owed, codes, 0, 0)
                /\ \A i \in codes : CodeFits(s.items, s.owed, codes, i)

\* Packets are numbered in the order in which they are sent.
NextId == Len(done) + Len(queue) + Len(fifo) + 1

(***************************************************************************)
(* drain: the comparator, and stable_sort with it, which inserts each      *)
(* element in turn (the comparator is no weak order, so that it matters).  *)
(***************************************************************************)
Before_ByPath(p, q) == p.path < q.path       \* mutant: no rule for DIRECTHL
Before(p, q) ==
    \/ IsImage(p) /\ q.hl
    \/ p.path < q.path /\ ~(p.hl /\ IsImage(q))

Inserted(s, p) ==
    IF s # <<>> /\ Before(p, s[1]) THEN <<p>> \o s
    ELSE LET stays == {i \in 1 .. Len(s) :
                          \E j \in i .. Len(s) : ~Before(p, s[j])}
             k == Cardinality(stays)
         IN  SubSeq(s, 1, k) \o <<p>> \o SubSeq(s, k + 1, Len(s))
AllInserted(s) ==
    LET upTo[i \in 0 .. Len(s)] == IF i = 0 THEN <<>> ELSE Inserted(upTo[i - 1], s[i])
    IN  upTo[Len(s)]
Sorted_NotStable(s) == AllInserted(Reverse(s))   \* mutant
Sorted(s) == AllInserted(s)

(***************************************************************************)
(* GS::processGIFPacket.  A packed tag's registers end with the packet at  *)
(* the latest; an image goes on in the next one.                           *)
(***************************************************************************)
ReadQuad(st, q) ==
    IF st.image > 0 THEN [st EXCEPT !.image = @ - 1, !.misread = @ \/ q.op # "Data"]
    ELSE IF st.regs > 0 THEN [st EXCEPT !.regs = @ - 1, !.misread = @ \/ q.op # "Reg"]
    ELSE [image |-> IF q.op = "Image" THEN q.n ELSE 0,
          regs |-> IF q.op = "Packed" THEN q.n ELSE 0,
          misread |-> st.misread \/ q.op \in {"Data", "Reg"}]
ReadPacket(st, p) == [FoldLeft(ReadQuad, st, p.quads) EXCEPT !.regs = 0]

\* The arbiter drains the queue q.
Drain(q) ==
    /\ queue' = <<>>
    /\ done' = done \o Sorted(q)
    /\ gs' = FoldLeft(ReadPacket, gs, Sorted(q))

(***************************************************************************)
(* submitGifPacket.                                                        *)
(***************************************************************************)
Submit(p, drain) ==
    IF p.path = 3 /\ masked
    THEN /\ fifo' = Append(fifo, p) /\ sent' = Append(sent, p.id)
         /\ UNCHANGED <<queue, masked, gs, done>>
    ELSE LET held == IF p.path = 3 THEN fifo ELSE <<>>
             q == Append(queue \o held, p)
         IN  /\ fifo' = IF p.path = 3 THEN <<>> ELSE fifo
             /\ sent' = IF p.path = 3 THEN Append(sent, p.id) ELSE sent
             /\ IF drain THEN Drain(q) ELSE queue' = q /\ UNCHANGED <<gs, done>>
             /\ UNCHANGED masked

CanSend == NextId <= MaxPackets

-----------------------------------------------------------------------------
(***************************************************************************)
(* PATH3: processPendingTransfers submits the packet of a GIF transfer and *)
(* drains the arbiter at its end.  A caller of submitGifPacket may leave   *)
(* the draining to a later call.                                           *)
(***************************************************************************)
GifTransfer(quads) ==
    /\ vif = <<>> /\ CanSend
    /\ LET p == Packet(NextId, 3, FALSE, quads)
       IN  IF masked
           THEN /\ fifo' = Append(fifo, p) /\ Drain(queue)
                /\ sent' = Append(sent, p.id) /\ UNCHANGED masked
           ELSE Submit(p, TRUE)
    /\ UNCHANGED <<pending, vu, vif, owed, starts>>

QueuePath3(quads) ==
    /\ vif = <<>> /\ CanSend
    /\ Submit(Packet(NextId, 3, FALSE, quads), FALSE)
    /\ UNCHANGED <<pending, vu, vif, owed, starts>>

(***************************************************************************)
(* The program starts a transfer to VIF1: the rest of an image it owes, or *)
(* VIF codes with what follows them.                                       *)
(***************************************************************************)
ImageRest(k) == [i \in 1 .. k |-> [op |-> "Data", n |-> 0]]
Vif1Transfer ==
    /\ vif = <<>> /\ CanSend
    /\ \/ \E s \in Streams : owed = 0 /\ vif' = s.items /\ owed' = s.owed
       \/ \E k \in 1 .. owed : vif' = ImageRest(k) /\ owed' = owed - k
       \/ \E s \in Streams : /\ owed > 0 /\ vif' = ImageRest(owed) \o s.items
                             /\ owed' = s.owed
    /\ UNCHANGED <<paths, pending, vu, starts>>

\* VIF1_FBRST with RST: the program starts over.
Vif1Reset ==
    /\ vif = <<>>
    /\ vu' = [base |-> 0, ofst |-> 0, tops |-> 0, top |-> 0, dbf |-> FALSE]
    /\ pending' = NoImage /\ owed' = 0 /\ starts' = 1
    /\ UNCHANGED <<paths, vif>>

(***************************************************************************)
(* processVIF1Data, one turn of its loop.                                  *)
(***************************************************************************)
Code(op) == vif # <<>> /\ pending.left = 0 /\ Head(vif).op = op

\* The rest of an image becomes a packet with a tag of its own.
Continue ==
    /\ vif # <<>> /\ pending.left > 0
    /\ LET k == Least(pending.left, Len(vif))
           tag == [op |-> "Image", n |-> k]
       IN  /\ Submit(Packet(NextId, 2, pending.hl, <<tag>> \o SubSeq(vif, 1, k)), TRUE)
           /\ vif' = SubSeq(vif, k + 1, Len(vif))
           /\ pending' = IF k = pending.left THEN NoImage ELSE [pending EXCEPT !.left = @ - k]
    /\ UNCHANGED <<vu, owed, starts>>

Direct(hl) ==
    /\ Code(IF hl THEN "DirectHl" ELSE "Direct")
    /\ LET want == Count(Head(vif))
           rest == Tail(vif)
           k == Least(want, Len(rest))
           s == SubSeq(rest, 1, k)
       IN  /\ IF k = 0 THEN UNCHANGED <<paths, pending>>
              ELSE /\ Submit(Packet(NextId, 2, hl, s), TRUE)
                   /\ pending' = IF Lacking(s, k) > 0 THEN [left |-> Lacking(s, k), hl |-> hl]
                                                      ELSE pending
           /\ vif' = IF want > k THEN <<>> ELSE SubSeq(rest, k + 1, Len(rest))
    /\ UNCHANGED <<vu, owed, starts>>

\* MSKPATH3: the end of the mask lets out what was held back.
MskPath3 ==
    /\ Code("MskPath3")
    /\ masked' = (Head(vif).n = 1)
    /\ IF masked /\ ~masked' /\ fifo # <<>>
       THEN fifo' = <<>> /\ Drain(queue \o fifo)
       ELSE UNCHANGED <<fifo, queue, gs, done>>
    /\ vif' = Tail(vif)
    /\ UNCHANGED <<sent, pending, vu, owed, starts>>

\* MSCAL and MSCNT: the program gets the buffer just filled, the next one is
\* filled meanwhile; the program may kick a packet.
Swapped_NoToggle(v) ==                       \* mutant: DBF stays
    [v EXCEPT !.top = v.tops, !.tops = (v.base + v.ofst) % 1024]
Swapped(v) ==
    [v EXCEPT !.top = v.tops, !.dbf = ~@,
              !.tops = IF v.dbf THEN v.base ELSE (v.base + v.ofst) % 1024]
Mscal ==
    /\ Code("Mscal")
    /\ vu' = Swapped(vu) /\ starts' = Least(starts + 1, 2)
    /\ \/ UNCHANGED paths
       \/ \E quads \in KickPackets : CanSend /\ Submit(Packet(NextId, 1, FALSE, quads), TRUE)
    /\ vif' = Tail(vif)
    /\ UNCHANGED <<pending, owed>>

\* BASE moves no buffer until the next program is started, OFFSET places them.
SetBuffers ==
    /\ \/ Code("Base") /\ vu' = [vu EXCEPT !.base = Head(vif).n % 1024] /\ starts' = 0
       \/ /\ Code("Offset")
          /\ vu' = [vu EXCEPT !.ofst = Head(vif).n % 1024, !.tops = vu.base, !.dbf = FALSE]
          /\ starts' = 1
    /\ vif' = Tail(vif)
    /\ UNCHANGED <<paths, pending, owed>>

-----------------------------------------------------------------------------
Init ==
    /\ queue = <<>> /\ masked = FALSE /\ fifo = <<>>
    /\ pending = NoImage /\ vif = <<>> /\ owed = 0
    /\ vu = [base |-> 0, ofst |-> 0, tops |-> 0, top |-> 0, dbf |-> FALSE]
    /\ gs = [image |-> 0, regs |-> 0, misread |-> FALSE]
    /\ sent = <<>> /\ done = <<>> /\ starts = 1

VifStep == Continue \/ (\E hl \in BOOLEAN : Direct(hl)) \/ MskPath3 \/ Mscal \/ SetBuffers
Send == (\E quads \in GifPackets : GifTransfer(quads) \/ QueuePath3(quads)) \/ Vif1Transfer
Next == VifStep \/ Send \/ Vif1Reset

Spec == Init /\ [][Next]_vars

(***************************************************************************)
(* Properties.                                                             *)
(***************************************************************************)
\* Type correctness of the paths, VIF1 and the GS.
TypeOK ==
    /\ \A s \in {queue, fifo, done} : \A i \in 1 .. Len(s) :
          /\ s[i].id \in Nat /\ s[i].path \in 1 .. 3 /\ s[i].hl \in BOOLEAN
          /\ s[i].quads # <<>> /\ \A k \in 1 .. Len(s[i].quads) : s[i].quads[k] \in Items
    /\ masked \in BOOLEAN /\ starts \in 0 .. 2
    /\ pending \in [left : 0 .. MaxCount, hl : BOOLEAN] /\ owed \in 0 .. MaxCount
    /\ \A i \in 1 .. Len(vif) : vif[i] \in Items
    /\ vu \in [base : 0 .. 1023, ofst : 0 .. 1023, tops : 0 .. 1023, top : 0 .. 1023,
              dbf : BOOLEAN]
    /\ gs.image \in Nat /\ gs.regs = 0 /\ gs.misread \in BOOLEAN

\* The packets of PATH3 reach the GS once each and in the order in which they
\* were sent, whether they were masked, queued or neither: those the GS has,
\* those in the queue and those held back are together all that was sent.
Path3Of(s) ==
    LET upTo[i \in 0 .. Len(s)] ==
            IF i = 0 THEN <<>>
            ELSE IF s[i].path = 3 THEN Append(upTo[i - 1], s[i].id) ELSE upTo[i - 1]
    IN  upTo[Len(s)]
Path3InOrder == sent = Path3Of(done) \o Path3Of(queue) \o Path3Of(fifo)

\* The order in which a drain hands over what was queued.  A DIRECTHL packet
\* lets the PATH3 images pass that were queued before it, unless a PATH3 packet
\* that is no image was queued before them; every other packet of PATH1 or
\* PATH2 overtakes all of PATH3; no packet overtakes one of its own path.
DrainedInOrder ==
    [][LET new == SubSeq(done', Len(done) + 1, Len(done'))
       IN  \A i, j \in 1 .. Len(new) :
             i < j =>
               /\ new[i].path = new[j].path => new[i].id < new[j].id
               /\ new[i].path = 3 /\ new[j].path # 3 => new[j].hl
               /\ new[i].hl /\ IsImage(new[j]) /\ new[j].id < new[i].id
                  => \E k \in 1 .. Len(new) : /\ new[k].path = 3 /\ ~IsImage(new[k])
                                              /\ new[k].id < new[j].id]_vars

\* The buffer that VIF1 fills is never the one that the VU1 program started last
\* works on, from the first program after OFFSET on.  A BASE alone takes effect
\* with the next program, so that only the second one after it is safe again.
BuffersAlternate == starts = 2 /\ vu.ofst # 0 => vu.tops # vu.top

\* VIF1 and the program count the quadwords of a split image alike, over any
\* number of transfers: VIF1 reads no code as data and no data as a code.
VifInStep ==
    /\ vif = <<>> => pending.left = owed
    /\ vif # <<>> /\ pending.left = 0 => Head(vif).op \in Codes
    /\ \A i \in 1 .. Least(pending.left, Len(vif)) : vif[i].op = "Data"

\* The GS takes every quadword for what the program sent it as: a tag, the
\* registers of a tag, or a part of an image, also where the image of a DIRECT
\* goes on with the quadwords behind it.
ReadAsSent == ~gs.misread
=============================================================================
