---------------------------- MODULE MCGuestCalls ----------------------------
(***************************************************************************)
(* Instance of GuestCalls for TLC: two threads, two clients, and two       *)
(* servers of one id.                                                      *)
(***************************************************************************)
EXTENDS GuestCalls

CONSTANTS c1, c2, s1, s2, h1, h2

MCThreads == {1, 2}
MCDispatchers == {}
MCClients == {c1, c2}
MCServers == {s1, s2}
MCHandlers == {h1, h2}
MCMissing == {}
MCSids == {1}
MCNumbers == {1}
MCMaxFrames == [t \in {1, 2} |-> IF t = 1 THEN 3 ELSE 1]
MCMaxHandlers == [t \in {1, 2} |-> IF t = 1 THEN 2 ELSE 0]

Interchangeable == Permutations(MCClients) \cup Permutations(MCServers)
=============================================================================
