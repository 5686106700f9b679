---------------------------- MODULE MoviePlayback ----------------------------
(***************************************************************************)
(* A program plays a film: some of its threads read the film from the      *)
(* drive's stream into a ring (sceCdStRead) and pass the ring on to the    *)
(* demultiplexer (sceMpegDemuxPss, sceMpegDemuxPssRing); others fetch      *)
(* pictures (sceMpegGetPicture).  A read waits until sectors have arrived, *)
(* a fetch until a picture is decoded and then until it is due; what is    *)
(* left of the call is a completion that runs when the thread goes on.     *)
(* The end of the film is found by the reader and must reach whoever waits *)
(* for a picture, but only when all that was read has been passed on.      *)
(*                                                                         *)
(* A step is one library call, one completion, or one VSync.  Which thread *)
(* goes on is EeScheduler's; here any may.                                 *)
(***************************************************************************)
EXTENDS MpegPlayback, FiniteSets

CONSTANTS
    Feeders,   \* threads that read and demultiplex
    Viewers,   \* threads that fetch pictures
    Mpegs,     \* MPEG handles
    Films,     \* [packets, sectors] of each film
    Cells,     \* cells in a sector
    Capacity, Bank, Rate, Work,    \* of CdStream
    Reads,     \* numbers of sectors a read asks for
    MaxCalls   \* bound: how often the stream is started, and other calls are made that
               \* do not belong to every picture

Players == Feeders \cup Viewers

ASSUME MovieAssumption ==
    /\ Cells \in Nat \ {0} /\ Reads \subseteq Nat \ {0}
    /\ Capacity \in Nat \ {0} /\ Bank \in 1 .. Capacity
    /\ Rate \in Nat \ {0} /\ Work \in Nat \ {0}
    /\ MaxCalls \in Nat
    /\ Films \subseteq [packets : Seq(Packets), sectors : Nat]

CD == INSTANCE CdStream

VARIABLES
    film,      \* the file on the disc
    cd,        \* g_cdStreamTiming and g_cdStreamingLbn
    ring,      \* cells the program has read and not yet passed on
    stream,    \* the cdStream fields of g_mpeg_stub_state
    playback,  \* playbackByMpeg
    call,      \* what each thread waits for
    calls      \* bound: calls of the rarer kinds so far

movieVars == <<film, cd, ring, stream, playback, call, calls>>

Guest == [at |-> "guest"]

\* What a thread is at: in guest code; waiting for a picture, or to go on fetching
\* one; waiting for a picture's time; waiting for sectors, or to go on reading.
Stages ==
    {Guest} \cup [at : {"picture", "fetchOn"}, mpeg : Mpegs]
    \cup [at : {"display"}, mpeg : Mpegs, wake : Nat \ {0}]
    \cup [at : {"read"}, wake : Nat \ {0}, wanted : Nat, got : Seq(Nat)]
    \cup [at : {"readOn"}, wanted : Nat, got : Seq(Nat)]

WaitsForPicture(t, m) == call[t].at = "picture" /\ call[t].mpeg = m
Reading(t) == call[t].at \in {"read", "readOn"}

-----------------------------------------------------------------------------
At(m) == IF playback[m] = Absent THEN Default ELSE playback[m]      \* getPlaybackState

(* completeExternalWait, on every handle of `mpegs'.                       *)
Woken(mpegs) ==
    [t \in Players |-> IF \E m \in mpegs : WaitsForPicture(t, m)
                       THEN [at |-> "fetchOn", mpeg |-> call[t].mpeg] ELSE call[t]]

(* finalizeCdStreamEofUnlocked                                             *)
Completed(pbs) ==
    [m \in Mpegs |->
        IF pbs[m] = Absent THEN Absent
        ELSE IF ~pbs[m].sawInput \/ pbs[m].ended THEN pbs[m]
             ELSE Finished(pbs[m], film.packets, stream.gen)]
(* Mutant: handles without input are not told of the end.                  *)
Existing_WithInput(pbs) == {m \in Mpegs : pbs[m] # Absent /\ pbs[m].sawInput}
Existing(pbs) == {m \in Mpegs : pbs[m] # Absent}

(* notifyMpegCdStreamEof, and thread t's call returns.                     *)
EndOfStream(t) ==
    /\ stream' = [stream EXCEPT !.eofPending = FALSE, !.eofSeen = TRUE]
    /\ playback' = Completed(playback)
    /\ call' = [Woken(Existing(playback)) EXCEPT ![t] = Guest]

-----------------------------------------------------------------------------
MovieInit ==
    /\ film \in Films
    /\ cd = [active |-> FALSE, paused |-> FALSE, lbn |-> 0, buffered |-> 0,
             rest |-> 0, since |-> 0]
    /\ ring = <<>>
    /\ stream = [gen |-> 0, unread |-> 0, eofPending |-> FALSE, eofSeen |-> FALSE]
    /\ playback = [m \in Mpegs |-> Absent]
    /\ call = [t \in Players |-> Guest]
    /\ calls = 0

Rarely == calls < MaxCalls /\ calls' = calls + 1

(* sceCdStInit                                                             *)
StInit(t) ==
    /\ call[t] = Guest /\ Rarely
    /\ cd' = [CD!Restarted(cd, cd.lbn) EXCEPT !.active = FALSE, !.paused = FALSE]
    /\ UNCHANGED <<film, ring, stream, playback, call>>

(* sceCdStStart with notifyMpegCdStreamStart.  A program starts a stream   *)
(* with an empty ring and while no read of it is under way.                *)
StStart(t) ==
    /\ call[t] = Guest /\ Rarely /\ ~\E u \in Players : Reading(u)
    /\ cd' = [CD!Restarted(cd, 0) EXCEPT !.active = TRUE, !.paused = FALSE]
    /\ ring' = <<>>
    /\ stream' = [gen |-> stream.gen + 1, unread |-> 0, eofPending |-> FALSE, eofSeen |-> FALSE]
    /\ playback' = [m \in Mpegs |-> IF playback[m] = Absent THEN Absent ELSE Fresh(stream'.gen)]
    /\ UNCHANGED <<film, call>>

(* sceCdStStop                                                             *)
StStop(t) ==
    /\ call[t] = Guest /\ Rarely
    /\ cd' = [CD!Updated(cd, film.sectors) EXCEPT !.active = FALSE, !.paused = FALSE]
    /\ EndOfStream(t)
    /\ UNCHANGED <<film, ring>>

(* sceCdStPause, sceCdStResume                                             *)
StPause(t) ==
    /\ call[t] = Guest /\ ~cd.paused /\ Rarely
    /\ cd' = [CD!Updated(cd, film.sectors) EXCEPT !.paused = TRUE]
    /\ UNCHANGED <<film, ring, stream, playback, call>>
StResume(t) ==
    /\ call[t] = Guest /\ Rarely
    /\ cd' = [cd EXCEPT !.paused = FALSE, !.since = 0]
    /\ UNCHANGED <<film, ring, stream, playback, call>>

-----------------------------------------------------------------------------
CellsOf(lbn, n) == [k \in 1 .. n * Cells |-> lbn * Cells + k]

(* continueCdStRead: `wanted' sectors are still missing, `got' are there.  *)
(* What becomes readable within one call is taken at once.                 *)
ReadOn(t, wanted, got) ==
    LET now == CD!Updated(cd, film.sectors)
        remaining == Min({wanted, film.sectors - cd.lbn})
        n == Min({remaining, CD!Readable(now, film.sectors)})
        after == [now EXCEPT !.lbn = @ + n, !.buffered = @ - n]
        all == got \o CellsOf(cd.lbn, n)
        atEnd == after.lbn = film.sectors
    IN \/ /\ ~cd.active
          /\ ring' = ring \o got
          /\ call' = [call EXCEPT ![t] = Guest]
          /\ UNCHANGED <<cd, stream, playback>>
       \/ /\ cd.active /\ remaining = 0
          /\ ring' = ring \o got
          /\ EndOfStream(t)
          /\ UNCHANGED cd
       \/ /\ cd.active /\ remaining > 0
          /\ cd' = after
          /\ stream' = [stream EXCEPT !.unread = @ + n * Cells,
                                      !.eofPending = @ \/ (n > 0 /\ atEnd)]
          /\ IF n = wanted \/ (n > 0 /\ atEnd)
             THEN ring' = ring \o all /\ call' = [call EXCEPT ![t] = Guest]
             ELSE /\ call' = [call EXCEPT ![t] =
                        [at |-> "read", wake |-> CD!WakeIn(after, remaining - n),
                         wanted |-> wanted - n, got |-> all]]
                  /\ UNCHANGED ring
          /\ UNCHANGED playback

(* sceCdStRead with STMBLK.  One thread at a time reads.                   *)
StRead(t, n) ==
    /\ call[t] = Guest /\ ~\E u \in Players : Reading(u)
    /\ ReadOn(t, n, <<>>)
    /\ UNCHANGED <<film, calls>>

(* sceCdStRead without: no more than is readable.                          *)
StReadNow(t, n) ==
    LET now == CD!Updated(cd, film.sectors)
        sectors == Min({n, film.sectors - cd.lbn, CD!Readable(now, film.sectors)})
    IN /\ call[t] = Guest /\ cd.active /\ ~\E u \in Players : Reading(u)
       /\ \/ /\ sectors > 0
             /\ ReadOn(t, sectors, <<>>)
          \/ /\ sectors = 0 /\ cd.lbn = film.sectors
             /\ cd' = now
             /\ EndOfStream(t)
             /\ UNCHANGED ring
          \/ /\ sectors = 0 /\ cd.lbn < film.sectors
             /\ cd' = now
             /\ UNCHANGED <<ring, stream, playback, call>>
       /\ UNCHANGED <<film, calls>>

-----------------------------------------------------------------------------
(* mpegDemuxBackpressured                                                  *)
Backpressured(pb) == ~stream.eofSeen /\ Len(pb.frames) >= MaxAhead

(* sceMpegDemuxPss, sceMpegDemuxPssRing on the next n cells of the ring.   *)
Demux(t, m, n) ==
    /\ call[t] = Guest /\ n <= Len(ring) /\ ~Backpressured(At(m))
    /\ LET pb == Appended(At(m), SubSeq(ring, 1, n), film.packets, stream.gen)
           unread == stream.unread - n
           complete == stream.eofPending /\ unread <= 0
           pbs == [playback EXCEPT ![m] = pb]
       IN /\ stream' = [stream EXCEPT !.unread = unread, !.eofPending = @ /\ ~complete,
                                      !.eofSeen = @ \/ complete]
          /\ playback' = IF complete THEN Completed(pbs) ELSE pbs
          /\ call' = Woken(IF complete THEN Existing(pbs)
                           ELSE IF Len(pb.frames) # Len(At(m).frames) THEN {m} ELSE {})
    /\ ring' = SubSeq(ring, n + 1, Len(ring))
    /\ UNCHANGED <<film, cd, calls>>

(* sceMpegAddBs: a packet the program has demultiplexed itself.            *)
AddBs(t, m, i) ==
    /\ call[t] = Guest /\ Rarely
    /\ film.packets[i].kind = "video"
    /\ playback' = [playback EXCEPT ![m] =
            [Fed(At(m), film.packets[i], film.packets[i].pics) EXCEPT !.pure = FALSE]]
    /\ call' = Woken(IF Len(playback'[m].frames) # Len(At(m).frames) \/ playback'[m].ended
                     THEN {m} ELSE {})
    /\ UNCHANGED <<film, cd, ring, stream>>

(* sceMpegFlush                                                            *)
MpegFlush(t, m) ==
    /\ call[t] = Guest /\ Rarely
    /\ playback' = [playback EXCEPT ![m] = [Flushed(At(m)) EXCEPT !.pure = @ /\ At(m).ended]]
    /\ call' = Woken(IF Len(playback'[m].frames) # Len(At(m).frames) \/ playback'[m].ended
                     THEN {m} ELSE {})
    /\ UNCHANGED <<film, cd, ring, stream>>

(* sceMpegCreate; sceMpegDelete, which ends the waits for the handle;      *)
(* sceMpegReset, which does not reopen an ended stream.                    *)
Create(t, m) ==
    /\ call[t] = Guest /\ Rarely
    /\ playback' = [playback EXCEPT ![m] = Fresh(stream.gen)]
    /\ UNCHANGED <<film, cd, ring, stream, call>>
Delete(t, m) ==
    /\ call[t] = Guest /\ Rarely
    /\ playback' = [playback EXCEPT ![m] = Absent]
    /\ call' = [u \in Players |-> IF WaitsForPicture(u, m) THEN Guest ELSE call[u]]
    /\ UNCHANGED <<film, cd, ring, stream>>
Reset(t, m) ==
    /\ call[t] = Guest /\ Rarely
    /\ playback' = [playback EXCEPT ![m] =
            IF At(m).ended THEN [Fresh(At(m).gen) EXCEPT !.sawInput = TRUE, !.ended = TRUE]
            ELSE Fresh(stream.gen)]
    /\ UNCHANGED <<film, cd, ring, stream, call>>
(* sceMpegInit.  A program calls it while nobody waits for a picture.      *)
MpegInit(t) ==
    /\ call[t] = Guest /\ Rarely
    /\ ~\E u \in Players, m \in Mpegs : WaitsForPicture(u, m)
    /\ playback' = [m \in Mpegs |-> Absent]
    /\ UNCHANGED <<film, cd, ring, stream, call>>
(* sceMpegIsEnd, sceMpegIsRefBuffEmpty, sceMpegAddCallback ...             *)
Query(t, m) ==
    /\ call[t] = Guest /\ playback[m] = Absent
    /\ playback' = [playback EXCEPT ![m] = Default]
    /\ UNCHANGED <<film, cd, ring, stream, call, calls>>

-----------------------------------------------------------------------------
(* sceMpegGetPicture, called or gone on with.                              *)
Fetch(t, m) ==
    LET pb == CaughtUp(Started(At(m)))
    IN \/ /\ At(m).frames = <<>> /\ ~stream.eofSeen /\ ~At(m).ended
          /\ playback' = [playback EXCEPT ![m] = At(m)]
          /\ call' = [call EXCEPT ![t] = [at |-> "picture", mpeg |-> m]]
       \/ /\ At(m).frames = <<>> /\ (stream.eofSeen \/ At(m).ended)
          /\ playback' = [playback EXCEPT ![m] = At(m)]
          /\ call' = [call EXCEPT ![t] = Guest]
       \/ /\ At(m).frames # <<>> /\ Due(pb) > 0
          /\ playback' = [playback EXCEPT ![m] = pb]
          /\ call' = [call EXCEPT ![t] = [at |-> "display", mpeg |-> m,
                                          wake |-> (Due(pb) + Field - 1) \div Field]]
       \/ /\ At(m).frames # <<>> /\ Due(pb) <= 0
          /\ playback' = [playback EXCEPT ![m] = Presented(pb)]
          /\ call' = [call EXCEPT ![t] = Guest]

GetPicture(t, m) ==
    /\ call[t] = Guest
    /\ Fetch(t, m)
    /\ UNCHANGED <<film, cd, ring, stream, calls>>

(* A thread whose wait is over is dispatched and its completion runs.      *)
Resume(t) ==
    /\ \/ /\ call[t].at = "fetchOn"
          /\ Fetch(t, call[t].mpeg)
          /\ UNCHANGED <<cd, ring, stream>>
       \/ /\ call[t].at = "readOn"
          /\ ReadOn(t, call[t].wanted, call[t].got)
    /\ UNCHANGED <<film, calls>>

(* The next VSync: completeVSync, and time goes on.                        *)
Sooner(c) ==
    CASE c.at \notin {"display", "read"} -> c
      [] c.at \in {"display", "read"} /\ c.wake > 1 -> [c EXCEPT !.wake = @ - 1]
      [] c.at = "display" /\ c.wake = 1 -> [at |-> "fetchOn", mpeg |-> c.mpeg]
      [] c.at = "read" /\ c.wake = 1 ->
            [at |-> "readOn", wanted |-> c.wanted, got |-> c.got]
VSync ==
    /\ cd' = CD!Ticked(cd)
    /\ playback' = [m \in Mpegs |-> IF playback[m] = Absent THEN Absent ELSE Aged(playback[m])]
    /\ call' = [t \in Players |-> Sooner(call[t])]
    /\ UNCHANGED <<film, ring, stream, calls>>

Feeder(t) ==
    \/ StInit(t) \/ StStart(t) \/ StStop(t) \/ StPause(t) \/ StResume(t)
    \/ \E n \in Reads : StRead(t, n) \/ StReadNow(t, n)
    \/ \E m \in Mpegs :
        \/ \E n \in 1 .. Len(ring) : Demux(t, m, n)
        \/ \E i \in DOMAIN film.packets : AddBs(t, m, i)
        \/ MpegFlush(t, m) \/ Create(t, m) \/ Delete(t, m) \/ Reset(t, m) \/ Query(t, m)
    \/ MpegInit(t)
Viewer(t) == \E m \in Mpegs : GetPicture(t, m)

MovieNext ==
    \/ \E t \in Feeders : Feeder(t)
    \/ \E t \in Viewers : Viewer(t)
    \/ \E t \in Players : Resume(t)
    \/ VSync

(* VSyncs are the scheduler's deadlines, which keep their cadence; a       *)
(* reader that is ready is dispatched (the property says nothing of        *)
(* viewers).                                                               *)
Fairness == WF_movieVars(VSync) /\ \A t \in Feeders : WF_movieVars(Resume(t))
MovieSpec == MovieInit /\ [][MovieNext]_movieVars /\ Fairness

-----------------------------------------------------------------------------
\* Nothing is read beyond the end of the film.
MovieTypeOK ==
    /\ film \in Films
    /\ cd \in CD!Stream /\ cd.lbn + cd.buffered <= film.sectors
    /\ ring \in Seq(Nat)
    /\ stream \in [gen : Nat, unread : Int, eofPending : BOOLEAN, eofSeen : BOOLEAN]
    /\ playback \in [Mpegs -> Playback \cup {Absent}]
    /\ call \in [Players -> Stages]
    /\ calls \in 0 .. MaxCalls

\* Nobody waits for a picture while there is one, or after the end of the
\* stream: whoever decodes a picture or finds the end wakes those who wait.
NoForgottenWaiter ==
    \A t \in Players, m \in Mpegs :
        WaitsForPicture(t, m) => /\ playback[m] # Absent
                                 /\ playback[m].frames = <<>> /\ ~stream.eofSeen

\* The cells that the end of the film waits for are those the program has read
\* and not passed on, in its ring or in the hands of the one that reads.
UnreadExact ==
    /\ \A t, u \in Players : Reading(t) /\ Reading(u) => t = u
    /\ \A t \in Players : Reading(t) => stream.unread = Len(ring) + Len(call[t].got)
    /\ (\A t \in Players : ~Reading(t)) => stream.unread = Len(ring)

\* The demultiplexer finds the end of the film only when it has been passed all
\* that was read.
EndInTurn ==
    [][\A t \in Feeders, m \in Mpegs : \A n \in 1 .. Len(ring) :
        Demux(t, m, n) /\ ~stream.eofSeen /\ stream'.eofSeen =>
            ring' = <<>> /\ \A u \in Players : Reading(u) => call[u].got = <<>>]_movieVars

\* sceMpegIsEnd
IsEnd(m) ==
    /\ playback[m] # Absent /\ stream.eofSeen
    /\ playback[m].gen = stream.gen /\ playback[m].ended
    /\ playback[m].frames = <<>> /\ playback[m].presEnd \in {NoTime, 0}

-----------------------------------------------------------------------------
\* What is to become of the cells from `first' to `last', whatever the pieces in
\* which they were passed on: the pictures of the video packets that are there as
\* a whole, or at the end of the stream in part, from the last sequence header
\* that follows a start or a refused packet.
Pictures(first, last, ended) ==
    LET Start(i) == StartOf(film.packets, i)
        There(i) == Min({film.packets[i].len, last + 1 - Start(i)})
        In == {i \in DOMAIN film.packets :
                /\ film.packets[i].kind = "video"
                /\ Start(i) >= first /\ There(i) > 1
                /\ ended \/ There(i) = film.packets[i].len
                /\ \A j \in 1 .. i - 1 : film.packets[j].kind = "end" => Start(j) < first}
        Header(i) == film.packets[i].rate # 0
        Fine(i, j) == \A k \in In \cap i .. j : ~film.packets[k].bad
        Begins(j) == Header(j) /\ ~\E i \in In : i < j /\ Header(i) /\ Fine(i, j - 1)
        run == {j \in In : \E i \in In : /\ i <= j /\ Begins(i) /\ Fine(i, j)
                                        /\ ~\E k \in In : k > i /\ Begins(k)}
    IN FlattenSeq([i \in 1 .. Len(film.packets) |->
          IF i \notin run THEN <<>>
          ELSE SubSeq(film.packets[i].pics, 1,
                      Min({There(i) - 1, Len(film.packets[i].pics)}))])
Made(pb) == IF pb.fed = <<>> THEN <<>>
            ELSE Pictures(Head(pb.fed), Last(pb.fed), pb.ended)

\* However the film is cut into reads and calls of the demultiplexer, and
\* whichever way it ends, the pictures shown, those queued and those the decoder
\* keeps back are the film's, in order, each once; only a refused packet
\* (feedElementaryStream gives the decoder up) loses what it kept back.
PicturesExact ==
    \A m \in Mpegs : playback[m] # Absent /\ playback[m].pure =>
        LET pb == playback[m]
            all == [k \in DOMAIN pb.shown |-> pb.shown[k].pic] \o pb.frames
                      \o (IF pb.decoder = Absent THEN <<>> ELSE pb.decoder.held)
        IN IF pb.waitSeq THEN IsPrefix(all, Made(pb)) ELSE all = Made(pb)

\* Pictures are never shown faster than the film says: no two on one VSync, and
\* those between two others have had their whole time, however late, early, or
\* after whatever waits the program fetched them.
NeverTooFast ==
    \A m \in Mpegs : playback[m] # Absent /\ playback[m].pure =>
        LET shown == playback[m].shown IN
        \A j \in DOMAIN shown : \A i \in 1 .. j - 1 :
            shown[i].age < Longest =>
                shown[i].age - shown[j].age
                    > FoldLeft(LAMBDA n, p : n + p.length, 0, SubSeq(shown, i + 1, j - 1))

\* A film that was passed on as a whole is over only when all of it was shown.
WholeFilm ==
    \A m \in Mpegs :
        LET pb == playback[m] IN
        /\ IsEnd(m) /\ pb.pure /\ ~pb.waitSeq
        /\ pb.fed = CellsOf(0, film.sectors)
        => [k \in DOMAIN pb.shown |-> pb.shown[k].pic] = Pictures(1, film.sectors * Cells, TRUE)

\* A read that waits for the drive comes to an end, unless the stream is paused:
\* the VSync it waits for brings the sectors it needs, the last ones included.
ReadsReturn == \A t \in Feeders : []<>(~Reading(t) \/ cd.paused)
=============================================================================
