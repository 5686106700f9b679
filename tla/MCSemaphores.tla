---------------------------- MODULE MCSemaphores ----------------------------
(***************************************************************************)
(* Instance of SemaphoreClients for TLC: the main thread, two created ones *)
(* and one semaphore.                                                      *)
(***************************************************************************)
EXTENDS SemaphoreClients

MCNone == {}
MCTwo == {2, 3}
MCSemas == {1}
=============================================================================
