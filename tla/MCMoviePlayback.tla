--------------------------- MODULE MCMoviePlayback ---------------------------
(***************************************************************************)
(* Instance of MoviePlayback for TLC: a thread that reads and one that     *)
(* watches, and three films of six or eight cells.                        *)
(***************************************************************************)
EXTENDS MoviePlayback

Pic(id, pts, repeat) == [id |-> id, pts |-> pts, repeat |-> repeat]
Video(len, rate, pics) == Packet("video", len, rate, FALSE, pics)
Other(len) == Packet("other", len, 0, FALSE, <<>>)

\* Time stamps that wrap around, a repeated field, and a program end.
Stamped ==
    <<Video(3, 2, <<Pic(1, 29, 0), Pic(2, 31, 1)>>), Video(2, 0, <<Pic(3, 2, 0)>>),
      Packet("end", 1, 0, FALSE, <<>>)>>
\* No time stamps, no program end, 1.5 VSyncs a picture, the last packet cut off.
Bare ==
    <<Video(2, 3, <<Pic(1, NoTime, 0)>>), Other(1),
      Video(5, 0, <<Pic(2, NoTime, 0), Pic(3, NoTime, 0), Pic(4, NoTime, 0), Pic(5, NoTime, 0)>>)>>
\* A packet the decoder refuses, a picture without a sequence header after it, and
\* a sequence of another rate.
Damaged ==
    <<Video(2, 2, <<Pic(1, 0, 0)>>), Packet("video", 2, 0, TRUE, <<Pic(2, 2, 0)>>),
      Video(2, 0, <<Pic(3, 4, 0)>>), Video(2, 3, <<Pic(4, 6, 0)>>)>>

MCFilms == {[packets |-> Stamped, sectors |-> 3], [packets |-> Bare, sectors |-> 3],
            [packets |-> Damaged, sectors |-> 4]}
MCReads == {1, 3}
=============================================================================
