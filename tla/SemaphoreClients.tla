-------------------------- MODULE SemaphoreClients --------------------------
(***************************************************************************)
(* The semaphores of EeScheduler as the guest sees them: EeScheduler with  *)
(* a history of its last step.  "call" tells which call about a semaphore  *)
(* that step was, or that it ended the wait of another thread; any other   *)
(* step of the scheduler is no call.  The history changes nothing:         *)
(* every step here is a step of EeScheduler, and each of those is one here.*)
(***************************************************************************)
EXTENDS EeScheduler

VARIABLE call

clientVars == <<vars, call>>

\* The call op with the arguments args; turn tells it from an equal one before.
Made(op, args) == call' = [op |-> op, args |-> args, turn |-> 1 - call.turn]
NoCall == [op |-> "none", args |-> <<>>, turn |-> 0]

SemaCallMade(s) ==
    \/ /\ \E max \in 1 .. MaxCount, init \in 0 .. MaxCount : CreateSema(s, init, max)
       /\ Made("create", <<s>>)
    \/ (\E isr \in BOOLEAN : DeleteSema(s, isr)) /\ Made("delete", <<s>>)
    \/ (\E isr \in BOOLEAN : SignalSema(s, isr)) /\ Made("signal", <<s>>)
    \/ PollSema(s) /\ Made("poll", <<s>>)
    \/ WaitSema(s) /\ Made("wait", <<s, cur>>)

OtherStep ==
    \/ OtherThreadCall \/ GuestReturns \/ GuestCheckpoint \/ SliceExpires
    \/ LoopStep

ClientInit == Init /\ call = NoCall

ClientNext ==
    \/ \E s \in Semas : SemaCallMade(s)
    \/ \E t \in Guests : EndsWaitOf(t) /\ Made("leave", <<t>>)
    \/ OtherStep /\ call' = NoCall

ClientSpec == ClientInit /\ [][ClientNext]_clientVars

(***************************************************************************)
(* The contract of the semaphores, as clients see them: queue is the order *)
(* in the kernel's object, blocked what the thread records say.            *)
(***************************************************************************)
BlockedOn == [s \in Semas |-> OnSema(s)]

Contract == INSTANCE FifoSemaphore WITH
    Clients <- Tids, Counts <- 0 .. MaxCount, queue <- waiters, blocked <- BlockedOn

\* Whatever threads do to each other (suspend, release, terminate, delete the
\* semaphore), the semaphores behave as FIFO semaphores: each accepted signal
\* makes the longest waiter go on or is counted, never both and never neither,
\* and a waiter is let go by nothing else than a signal, the deletion of the
\* semaphore, or a release or termination of that very thread.
SemaphoreContract == Contract!Spec
=============================================================================
