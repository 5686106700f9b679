---------------------------- MODULE MCGuestHeap ----------------------------
(***************************************************************************)
(* Instance of GuestHeap for TLC: a heap of at most eight granules, three  *)
(* users, one thread that owns a stack.                                    *)
(***************************************************************************)
EXTENDS GuestHeap, TLC

CONSTANTS u1, u2, u3, t1

MCUsers == {u1, u2, u3}
MCThreads == {t1}
MCBases == {0, 2, 9}
MCSizes == {1, 2, 3, 5}
MCAligns == {1, 4}
Symmetry == Permutations(MCUsers)
=============================================================================
