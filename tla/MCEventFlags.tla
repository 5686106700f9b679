---------------------------- MODULE MCEventFlags ----------------------------
(***************************************************************************)
(* Instance of EventFlags for TLC: three threads, one flag with two bits.  *)
(***************************************************************************)
EXTENDS EventFlags, TLC

CONSTANTS t1, t2, t3

MCThreads == {t1, t2, t3}
MCFlags == {1}
MCBits == {0, 1}
MCModes == {{}, {"Or"}, {"Clear"}, {"ClearAll"}, {"Or", "Clear"}}
Symmetry == Permutations(MCThreads)
=============================================================================
