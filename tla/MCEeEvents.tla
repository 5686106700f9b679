---------------------------- MODULE MCEeEvents ----------------------------
(***************************************************************************)
(* Instance of EeEvents for TLC: one alarm, a VBlank of one unit every     *)
(* three, two events posted.                                               *)
(***************************************************************************)
EXTENDS EeEvents

MCAlarms == {1}
=============================================================================
