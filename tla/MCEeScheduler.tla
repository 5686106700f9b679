--------------------------- MODULE MCEeScheduler ---------------------------
(***************************************************************************)
(* Instance of EeScheduler for TLC: the main thread, one created thread    *)
(* and one dispatcher thread.                                              *)
(***************************************************************************)
EXTENDS EeScheduler

MCNone == {}
MCOne == {2}
MCDispatchers == {-1}
=============================================================================
