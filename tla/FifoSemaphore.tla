--------------------------- MODULE FifoSemaphore ---------------------------
(***************************************************************************)
(* What the semaphores of the EE kernel promise to the threads: bounded    *)
(* counting semaphores with direct hand-off in FIFO order.  The calls are  *)
(* part of the contract: "call" is what the last step did at the request   *)
(* of a program, so that a signal that is lost, or a waiter that leaves    *)
(* without being told to, is not taken for something else.  Module         *)
(* SemaphoreClients shows that EeScheduler implements it.                  *)
(***************************************************************************)
EXTENDS Integers, Sequences, Functions

CONSTANTS Clients, Semas, Counts   \* Counts: the values a count may have

VARIABLES
    limit,   \* maximal count; 0 when the semaphore does not exist
    count,
    queue,   \* the waiting clients, the longest waiting first
    blocked, \* blocked[s]: the clients that are stopped until s lets them go
    call     \* the call that was the last step

vars == <<limit, count, queue, blocked, call>>

\* turn makes two equal calls one after the other two different values.
Made(op, args) == call' = [op |-> op, args |-> args, turn |-> 1 - call.turn]
NoCall == [op |-> "none", args |-> <<>>, turn |-> 0]

Init == /\ limit = [s \in Semas |-> 0]
        /\ count = [s \in Semas |-> 0]
        /\ queue = [s \in Semas |-> <<>>]
        /\ blocked = [s \in Semas |-> {}]
        /\ call = NoCall

Create(s) ==
    /\ Made("create", <<s>>) /\ limit[s] = 0
    /\ \E max, init \in Counts :
          /\ max # 0 /\ init <= max
          /\ limit' = [limit EXCEPT ![s] = max]
          /\ count' = [count EXCEPT ![s] = init]
    /\ UNCHANGED <<queue, blocked>>

\* Every waiter is released.
Delete(s) ==
    /\ Made("delete", <<s>>) /\ limit[s] # 0
    /\ limit' = [limit EXCEPT ![s] = 0]
    /\ count' = [count EXCEPT ![s] = 0]
    /\ queue' = [queue EXCEPT ![s] = <<>>]
    /\ blocked' = [blocked EXCEPT ![s] = {}]

\* The count is only taken when nobody is waiting for it.
Take(s) ==
    /\ limit[s] # 0 /\ count[s] > 0 /\ queue[s] = <<>>
    /\ count' = [count EXCEPT ![s] = @ - 1]
    /\ UNCHANGED <<limit, queue, blocked>>

Poll(s) == Made("poll", <<s>>) /\ Take(s)

\* A client that finds no count queues up; it waits for one semaphore at most.
QueueUp(s, c) ==
    /\ limit[s] # 0 /\ count[s] = 0
    /\ \A x \in Semas : c \notin Range(queue[x])
    /\ queue' = [queue EXCEPT ![s] = Append(@, c)]
    /\ blocked' = [blocked EXCEPT ![s] = @ \cup {c}]
    /\ UNCHANGED <<limit, count>>

Wait(s, c) == Made("wait", <<s, c>>) /\ (Take(s) \/ QueueUp(s, c))

HandOver(s) ==
    /\ queue[s] # <<>>
    /\ queue' = [queue EXCEPT ![s] = Tail(@)]
    /\ blocked' = [blocked EXCEPT ![s] = @ \ {Head(queue[s])}]
    /\ UNCHANGED <<limit, count>>

Count(s) ==
    /\ limit[s] # 0 /\ queue[s] = <<>> /\ count[s] < limit[s]
    /\ count' = [count EXCEPT ![s] = @ + 1]
    /\ UNCHANGED <<limit, queue, blocked>>

\* A signal lets the longest waiter go or is counted: one of the two.
Signal(s) == Made("signal", <<s>>) /\ (HandOver(s) \/ Count(s))

\* c is made to give up whatever it waits for; the others keep their order.
Leave(c) ==
    /\ Made("leave", <<c>>)
    /\ \/ /\ \A s \in Semas : c \notin Range(queue[s])
          /\ UNCHANGED <<queue, blocked>>
       \/ \E s \in Semas : \E i \in 1 .. Len(queue[s]) :
             /\ queue[s][i] = c
             /\ queue' = [queue EXCEPT ![s] = SubSeq(@, 1, i - 1) \o SubSeq(@, i + 1, Len(@))]
             /\ blocked' = [blocked EXCEPT ![s] = @ \ {c}]
    /\ UNCHANGED <<limit, count>>

\* Anything else that happens is no business of the semaphores.
OtherStep == call' = NoCall /\ UNCHANGED <<limit, count, queue, blocked>>

Next == \/ \E s \in Semas :
              \/ Create(s) \/ Delete(s) \/ Poll(s) \/ Signal(s)
              \/ \E c \in Clients : Wait(s, c)
        \/ \E c \in Clients : Leave(c)
        \/ OtherStep

Spec == Init /\ [][Next]_vars
=============================================================================
