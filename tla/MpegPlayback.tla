---------------------------- MODULE MpegPlayback ----------------------------
(***************************************************************************)
(* One MPEG handle of the runtime (MpegPlaybackState in MPEG.cpp) as a     *)
(* record, and what is done to it: the demultiplexer that finds packets in *)
(* what the program passes on, the decoder behind it, the queue of decoded *)
(* pictures, and the clock that says when the first of them is due.        *)
(*                                                                         *)
(* A film is a sequence of packets.  What a program passes on are cells of *)
(* it: a packet has one cell for its header and one for each picture or    *)
(* other portion of its payload, and a start code lies within a cell.      *)
(* Times are in portions of a VSync and relative to now, so that the clock *)
(* runs by subtracting.                                                    *)
(***************************************************************************)
EXTENDS Integers, Sequences, SequencesExt, FiniteSetsExt

CONSTANTS
    MaxAhead,  \* kMaxDecodedPicturesAhead
    Delay,     \* pictures FFmpeg keeps back while more input may come
    Field,     \* portions of a VSync
    PtsWrap,   \* kMpegPtsWrap, in the same portions
    Longest,   \* bound: no picture is shown, and no film lasts, longer
    NoTime,      \* no time, no time stamp
    Absent     \* no record, no decoder

\* A picture, with its number in the film, time stamp and repetition; a packet:
\* what it is ("end" for the program's end code, "other" for audio and headers),
\* its cells as its length field has them, the rate a sequence header in it gives
\* (0: none), whether the decoder refuses it, and its pictures.
Picture == [id : Nat, pts : Nat \cup {NoTime}, repeat : Nat]
Packets == [kind : {"video", "end", "other"}, len : Nat \ {0}, rate : Nat, bad : BOOLEAN,
            pics : Seq(Picture)]
Packet(kind, len, rate, bad, pics) ==
    [kind |-> kind, len |-> len, rate |-> rate, bad |-> bad, pics |-> pics]

\* The decoder: the pictures it keeps back, and whether it was flushed.
Decoder == [held : Seq(Picture), drained : BOOLEAN]

Time == Int \cup {NoTime}

\* MpegPlaybackState, and a history: the cells accepted, the pictures shown, and
\* whether the cells are all the input there was.
Playback ==
    [gen : Nat, sawInput : BOOLEAN, ended : BOOLEAN, waitSeq : BOOLEAN, pss : Seq(Nat),
     frames : Seq(Picture), decoder : Decoder \cup {Absent}, interval : Nat, next : Time,
     presEnd : Time, firstPts : Time, base : Int,
     fed : Seq(Nat), shown : Seq([pic : Picture, age : Int, length : Nat]), pure : BOOLEAN]

ASSUME PlaybackAssumption ==
    /\ MaxAhead \in Nat \ {0} /\ Delay \in Nat /\ Field \in Nat \ {0}
    /\ PtsWrap \in Nat \ {0} /\ Longest \in Nat
    /\ NoTime \notin Int /\ Absent \notin Decoder \cup Playback

StartOf(packets, i) == 1 + FoldLeft(LAMBDA n, p : n + p.len, 0, SubSeq(packets, 1, i - 1))
StartsAt(packets, cell) == {i \in DOMAIN packets : StartOf(packets, i) = cell}

-----------------------------------------------------------------------------
Default ==
    [gen |-> 0, sawInput |-> FALSE, ended |-> FALSE, waitSeq |-> TRUE, pss |-> <<>>,
     frames |-> <<>>, decoder |-> Absent, interval |-> 2 * Field, next |-> NoTime,
     presEnd |-> NoTime, firstPts |-> NoTime, base |-> 0,
     fed |-> <<>>, shown |-> <<>>, pure |-> TRUE]

(* makeFreshPlaybackState                                                  *)
Fresh(gen) == [Default EXCEPT !.gen = gen]

(* MpegFfmpegDecoder::feed, for packets the parser accepts.  A decoder     *)
(* that was flushed takes no more input.                                   *)
Decoded(pb, pics) ==
    IF pb.decoder.drained THEN pb
    ELSE LET all == pb.decoder.held \o pics
             out == Max({0, Len(all) - Delay})
         IN [pb EXCEPT !.frames = @ \o SubSeq(all, 1, out),
                       !.decoder.held = SubSeq(all, out + 1, Len(all))]

(* MpegFfmpegDecoder::flush                                                *)
Flushed(pb) ==
    IF pb.decoder = Absent THEN pb
    ELSE [pb EXCEPT !.frames = @ \o pb.decoder.held,
                    !.decoder = [held |-> <<>>, drained |-> TRUE]]

FlushedIfEnded(pb) == IF pb.ended THEN Flushed(pb) ELSE pb

(* feedElementaryStream: pictures `pics' of a packet.                      *)
Timed(pb, packet) ==
    IF packet.rate = 0 THEN pb ELSE [pb EXCEPT !.interval = packet.rate]
Synchronised(pb) ==
    [pb EXCEPT !.waitSeq = FALSE, !.decoder = Absent, !.frames = <<>>, !.next = NoTime,
               !.presEnd = NoTime, !.firstPts = NoTime, !.base = 0, !.shown = <<>>]
Fed(old, packet, pics) ==
    LET pb == Timed([old EXCEPT !.sawInput = TRUE], packet)
        sync == IF pb.waitSeq THEN Synchronised(pb) ELSE pb
        ready == IF sync.decoder # Absent THEN sync
                 ELSE [sync EXCEPT !.decoder = [held |-> <<>>, drained |-> FALSE]]
    IN IF pb.waitSeq /\ packet.rate = 0 THEN pb
       ELSE IF packet.bad THEN [ready EXCEPT !.decoder = Absent, !.waitSeq = TRUE]
            ELSE FlushedIfEnded(Decoded(ready, pics))

(* What processPssBuffer does with the packet that begins at the front of  *)
(* pss, of which the first `n' cells are there.                            *)
Taken(pb, packet, n, gen) ==
    CASE packet.kind = "end" ->
            Flushed([pb EXCEPT !.ended = TRUE, !.gen = gen, !.pss = <<>>])
      [] packet.kind = "video" /\ n > 1 ->
            [Fed(pb, packet, SubSeq(packet.pics, 1, Min({n - 1, Len(packet.pics)})))
                EXCEPT !.pss = SubSeq(@, n + 1, Len(@))]
      [] OTHER -> [pb EXCEPT !.pss = SubSeq(@, n + 1, Len(@))]

(* A turn of the loop of processPssBuffer.  The turn that stops changes    *)
(* nothing the second time.                                                *)
Examined(pb, packets, gen, final) ==
    LET starts == {k \in DOMAIN pb.pss : StartsAt(packets, pb.pss[k]) # {}}
        at == Min(starts)
        packet == packets[CHOOSE i \in StartsAt(packets, pb.pss[at]) : TRUE]
        here == [pb EXCEPT !.pss = SubSeq(@, at, Len(@))]
        there == Len(here.pss)
    IN IF pb.ended \/ starts = {} THEN [pb EXCEPT !.pss = <<>>]
       ELSE IF there < packet.len /\ ~final THEN here
            ELSE IF there < packet.len /\ packet.kind = "other" THEN [here EXCEPT !.pss = <<>>]
                 ELSE Taken(here, packet, Min({packet.len, there}), gen)

(* processPssBuffer: as many turns as there are cells are enough, since    *)
(* each takes one at least or is the last.                                 *)
Processed(pb, packets, gen, final) ==
    LET turns[k \in 0 .. Len(pb.pss)] ==
            IF k = 0 THEN pb ELSE Examined(turns[k - 1], packets, gen, final)
    IN turns[Len(pb.pss)]

(* appendPssBytes                                                          *)
Stale(pb, gen) == pb.gen # gen /\ (pb.sawInput \/ pb.ended)
Appended(old, cells, packets, gen) ==
    LET pb == IF Stale(old, gen) THEN Fresh(gen) ELSE old
    IN IF pb.ended THEN [pb EXCEPT !.sawInput = TRUE]
       ELSE Processed([pb EXCEPT !.gen = gen, !.sawInput = TRUE, !.pss = @ \o cells,
                                 !.fed = @ \o cells], packets, gen, FALSE)

(* Mutants: the last packet, cut off by the end of the file, is not taken; *)
(* the pictures that the decoder keeps back are not fetched.               *)
Finished_NotFinal(pb, packets, gen) ==
    Flushed([Processed(pb, packets, gen, FALSE) EXCEPT !.ended = TRUE, !.gen = gen])
Finished_NotFlushed(pb, packets, gen) ==
    [Processed(pb, packets, gen, TRUE) EXCEPT !.ended = TRUE, !.gen = gen]

(* finishPlaybackStream                                                    *)
Finished(pb, packets, gen) ==
    Flushed([Processed(pb, packets, gen, TRUE) EXCEPT !.ended = TRUE, !.gen = gen])
-----------------------------------------------------------------------------
(* The clock of sceMpegGetPicture, for the picture at the head of frames.  *)

(* mpegPtsDelta90k                                                         *)
PtsDelta(from, to) ==
    LET delta == (to - from) % PtsWrap
    IN IF 2 * delta >= PtsWrap THEN delta - PtsWrap ELSE delta

(* decodedFrameIntervalQ32                                                 *)
Interval(pb) == Max({Field, (pb.interval * (2 + Head(pb.frames).repeat) + 1) \div 2})

(* presentationTickForFrame: the clock is started by the first picture ... *)
Started(pb) ==
    CASE Head(pb.frames).pts = NoTime -> [pb EXCEPT !.next = IF @ = NoTime THEN 0 ELSE @]
      [] Head(pb.frames).pts # NoTime /\ pb.firstPts = NoTime ->
            [pb EXCEPT !.firstPts = Head(pb.frames).pts, !.base = 0]
      [] OTHER -> pb
(* ... and then says when the head is due, counted from now.               *)
Due(pb) == IF Head(pb.frames).pts = NoTime THEN pb.next
           ELSE pb.base + PtsDelta(pb.firstPts, Head(pb.frames).pts)

(* Mutant: the base of the time stamps stays.                              *)
CaughtUp_NextOnly(pb) == IF Due(pb) > -Interval(pb) THEN pb ELSE [pb EXCEPT !.next = 0]

(* A head that is late by its own length moves the clock.                  *)
CaughtUp(pb) ==
    IF Due(pb) > -Interval(pb) THEN pb
    ELSE [pb EXCEPT !.next = 0,
                    !.base = IF Head(pb.frames).pts = NoTime THEN @ ELSE @ - Due(pb)]

Presented(pb) ==
    LET end == Due(pb) + Interval(pb)
    IN [pb EXCEPT !.frames = Tail(@), !.next = end, !.presEnd = end,
                  !.shown = Append(@, [pic |-> Head(pb.frames), age |-> 0,
                                       length |-> Interval(pb)])]

(* A VSync later.  A time so far back that no sum with a time of the film  *)
(* reaches the present is as good as any other such.                       *)
Later(time, floor) == IF time = NoTime THEN NoTime ELSE Max({time - Field, floor})
Older(picture) == [picture EXCEPT !.age = Min({@ + Field, Longest})]
Aged(pb) ==
    [pb EXCEPT !.next = Later(@, -Longest), !.presEnd = Later(@, 0),
               !.base = IF pb.firstPts = NoTime THEN 0 ELSE Later(@, -2 * Longest),
               !.shown = [k \in DOMAIN @ |-> Older(@[k])]]
=============================================================================
