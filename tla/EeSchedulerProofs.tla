------------------------- MODULE EeSchedulerProofs -------------------------
(***************************************************************************)
(* Types and safety of EeScheduler, for every set of threads, dispatchers  *)
(* and semaphores and every bound: every variable stays in its domain, the *)
(* ready queues list exactly the ready threads, suspensions nest, and the  *)
(* semaphores' queues list exactly their waiters.  The last three are      *)
(* proved together, because each call relies on all of them; every system  *)
(* call ends in Return, so that its own part is to show that the state it  *)
(* hands to Return is good.                                                *)
(*                                                                         *)
(* On these rest priorities, turns, sleepers and retirements, and that the *)
(* scheduler implements FifoSemaphore, in the second half.                 *)
(***************************************************************************)
EXTENDS SemaphoreClients, KernelListsProofs, FiniteSetTheorems

USE DEF NoThread, Main

(***************************************************************************)
(* The operators that actions are built from keep the state in its type.   *)
(***************************************************************************)
Queues == [Priorities -> Seq(Tids)]

SchedTyped ==
    /\ status \in [Tids -> Statuses] /\ ready \in Queues
    /\ cur \in Tids \cup {NoThread} /\ exec \in Tids \cup {NoThread}
    /\ phase \in {"guest", "leaving", "events", "dispatch"}
    /\ resched \in BOOLEAN /\ sliceExpired \in BOOLEAN

LEMMA PushTyped ==
    ASSUME NEW q \in Queues, NEW p \in Priorities, NEW t \in Tids
    PROVE  PushBack(q, p, t) \in Queues /\ PushFront(q, p, t) \in Queues
<1>1. q[p] \in Seq(Tids)
      BY DEF Queues
<1>2. Append(q[p], t) \in Seq(Tids) /\ <<t>> \o q[p] \in Seq(Tids)
      BY <1>1, AppendFacts, ConsFacts
<1> QED BY <1>2 DEF PushBack, PushFront, Queues

LEMMA UnqueuedTyped ==
    ASSUME TypeOK, NEW t \in Tids
    PROVE  Unqueued(t) \in Queues
<1>1. ready \in Queues /\ prio[t] \in Priorities
      BY DEF TypeOK, Queues
<1>2. RemoveFirst(ready[prio[t]], t) \in Seq(Tids)
      BY <1>1, RemoveFirstFacts DEF Queues
<1> QED BY <1>1, <1>2 DEF Unqueued, Queues

LEMMA UnlistedTyped ==
    ASSUME TypeOK, NEW t \in Tids
    PROVE  Unlisted(t) \in [Semas -> Seq(Tids)]
<1>1. CASE wait[t].reason = "Semaphore"
  <2>1. wait[t].arg \in Semas
        BY <1>1 DEF TypeOK, Waits
  <2>2. waiters[wait[t].arg] \in Seq(Tids)
        BY <2>1 DEF TypeOK
  <2>3. RemoveFirst(waiters[wait[t].arg], t) \in Seq(Tids)
        BY <2>2, RemoveFirstFacts
  <2> QED BY <2>3 DEF Unlisted, TypeOK
<1>2. CASE wait[t].reason # "Semaphore"
      BY <1>2 DEF Unlisted, TypeOK
<1> QED BY <1>1, <1>2

LEMMA NoWaitTyped == NoWait \in Waits
BY DEF NoWait, Waits

\* makeReady for the threads of w.
LEMMA AwakenedTyped ==
    ASSUME TypeOK, NEW w \in Seq(Tids)
    PROVE  /\ StatusAfter(w) \in [Tids -> Statuses]
           /\ WaitAfter(w) \in [Tids -> Waits]
           /\ ReadyAfter(w) \in Queues
           /\ ReschedAfter(w) \in BOOLEAN
<1>1. StatusAfter(w) \in [Tids -> Statuses]
      BY DEF StatusAfter, Awake, Statuses, TypeOK
<1>2. WaitAfter(w) \in [Tids -> Waits]
      BY NoWaitTyped DEF WaitAfter, TypeOK
<1>3. ReadyAfter(w) \in Queues
  <2>1. ASSUME NEW p \in Priorities
        PROVE  ready[p] \o Among(w, {t \in Tids : suspendCount[t] = 0 /\ prio[t] = p}) \in Seq(Tids)
    <3>1. ready[p] \in Seq(Tids)
          BY DEF TypeOK
    <3>2. Among(w, {t \in Tids : suspendCount[t] = 0 /\ prio[t] = p}) \in Seq(Tids)
          BY AmongFacts
    <3> QED BY <3>1, <3>2, ConcatFacts
  <2> QED BY <2>1 DEF ReadyAfter, Queues
<1>4. ReschedAfter(w) \in BOOLEAN
      BY DEF ReschedAfter, TypeOK
<1> QED BY <1>1, <1>2, <1>3, <1>4

\* The end of a system call.
LEMMA ReturnTyped ==
    ASSUME TypeOK, prio' \in [Tids -> Priorities],
           NEW st \in [Tids -> Statuses], NEW q \in Queues,
           NEW c \in Tids \cup {NoThread}, NEW rs \in BOOLEAN, NEW isr \in BOOLEAN,
           Return(st, q, c, rs, isr)
    PROVE  SchedTyped'
<1>1. c \in Tids => /\ PushFront(q, prio'[c], c) \in Queues
                    /\ [st EXCEPT ![c] = "Ready"] \in [Tids -> Statuses]
      BY PushTyped DEF Statuses
<1> QED BY <1>1 DEF Return, TypeOK, SchedTyped

LEMMA BlockTyped ==
    ASSUME TypeOK, cur \in Tids, NEW w \in Waits, Block(w)
    PROVE  /\ wait' \in [Tids -> Waits] /\ status' \in [Tids -> Statuses]
           /\ cur' \in Tids \cup {NoThread} /\ exec' \in Tids \cup {NoThread}
           /\ phase' \in {"guest", "leaving", "events", "dispatch"}
BY DEF Block, TypeOK, Statuses

LEMMA RetireTyped ==
    ASSUME TypeOK, NEW t \in Tids, NEW st \in Statuses, Retire(t, st)
    PROVE  /\ status' \in [Tids -> Statuses] /\ ready' \in [Priorities -> Seq(Tids)]
           /\ waiters' \in [Semas -> Seq(Tids)] /\ wait' \in [Tids -> Waits]
           /\ suspendCount' \in [Tids -> Nat] /\ wakeupCount' \in [Tids -> Nat]
           /\ frames' \in [Tids -> Seq(Kinds)] /\ returned' \in [Tids -> BOOLEAN]
<1>1. ready' \in Queues
      BY UnqueuedTyped DEF Retire
<1>2. waiters' \in [Semas -> Seq(Tids)]
      BY UnlistedTyped DEF Retire
<1>3. wait' \in [Tids -> Waits]
      BY NoWaitTyped DEF Retire, TypeOK
<1>4. frames' \in [Tids -> Seq(Kinds)]
  <2>1. <<>> \in Seq(Kinds)
        OBVIOUS
  <2> QED BY <2>1 DEF Retire, TypeOK
<1> QED BY <1>1, <1>2, <1>3, <1>4 DEF Retire, TypeOK, Queues

(***************************************************************************)
(* TypeOK is inductive.                                                    *)
(***************************************************************************)
LEMMA TypeInit == Init => TypeOK
<1> SUFFICES ASSUME Init PROVE TypeOK
    OBVIOUS
<1>1. Main \in Tids /\ 0 \in Priorities
      BY BoundsAssumption DEF Tids, Guests, Priorities
<1>2. <<>> \in Seq(Tids) /\ <<Main>> \in Seq(Tids) /\ <<>> \in Seq(Kinds)
      BY <1>1
<1>3. ready \in [Priorities -> Seq(Tids)] /\ waiters \in [Semas -> Seq(Tids)]
      BY <1>2 DEF Init
<1>4. wait \in [Tids -> Waits] /\ frames \in [Tids -> Seq(Kinds)] /\ pending \in Seq(Kinds)
      BY <1>2, NoWaitTyped DEF Init
<1> QED BY <1>1, <1>3, <1>4 DEF Init, TypeOK, Statuses

LEMMA TypeThreadCall == TypeOK /\ ThreadCall => TypeOK'
<1> SUFFICES ASSUME TypeOK, ThreadCall PROVE TypeOK'
    OBVIOUS
<1>0. Threads \subseteq Guests /\ Guests \subseteq Tids
      BY DEF Guests, Tids
<1>1. ASSUME NEW t \in Threads, NEW p \in Priorities \ {0}, CreateThread(t, p) PROVE TypeOK'
      BY <1>0, <1>1 DEF CreateThread, TypeOK, Statuses, threadVars, semaVars
<1>2. ASSUME NEW t \in Threads, DeleteThread(t) PROVE TypeOK'
  <2>1. 0 \in Priorities
        BY BoundsAssumption DEF Priorities
  <2> QED BY <1>0, <1>2, <2>1 DEF DeleteThread, TypeOK, Statuses, threadVars, semaVars
<1>3. ASSUME NEW t \in Guests, StartThread(t) PROVE TypeOK'
  <2>1. /\ t \in Tids /\ [status EXCEPT ![t] = "Ready"] \in [Tids -> Statuses]
        /\ (resched \/ Outranks(t)) \in BOOLEAN /\ prio' \in [Tids -> Priorities]
        BY <1>0, <1>3 DEF StartThread, TypeOK, Statuses
  <2>2. PushBack(ready, prio[t], t) \in Queues
        BY <2>1, PushTyped DEF TypeOK, Queues
  <2>3. SchedTyped'
        BY <1>3, <2>1, <2>2, ReturnTyped DEF StartThread, TypeOK
  <2> QED BY <1>3, <2>1, <2>3, NoWaitTyped DEF StartThread, TypeOK, SchedTyped, Queues, semaVars
<1>4. ASSUME NEW t \in Guests, TerminateThread(t) PROVE TypeOK'
  <2>1. t \in Tids /\ "Dormant" \in Statuses /\ Retire(t, "Dormant")
        BY <1>0, <1>4 DEF TerminateThread, Statuses
  <2> QED BY <1>4, <2>1, RetireTyped DEF TerminateThread, TypeOK
<1>5. ASSUME NEW t \in Guests, ResumeThread(t) PROVE TypeOK'
  <2> DEFINE released == suspendCount[t] = 1
             runnable == released /\ status[t] = "Suspended"
             st == IF runnable THEN "Ready"
                   ELSE IF released /\ status[t] = "WaitingSuspended" THEN "Waiting"
                   ELSE status[t]
             q == IF runnable THEN PushBack(ready, prio[t], t) ELSE ready
             rs == resched \/ (runnable /\ Outranks(t))
  <2>1. t \in Tids /\ prio' \in [Tids -> Priorities] /\ rs \in BOOLEAN
        BY <1>0, <1>5 DEF ResumeThread, TypeOK
  <2>2. [status EXCEPT ![t] = st] \in [Tids -> Statuses]
        BY <2>1 DEF TypeOK, Statuses
  <2>3. q \in Queues
        BY <2>1, PushTyped DEF TypeOK, Queues
  <2>4. Return([status EXCEPT ![t] = st], q, cur, rs, FALSE)
        BY <1>5 DEF ResumeThread
  <2>5. SchedTyped'
    <3>1. cur \in Tids \cup {NoThread}
          BY DEF TypeOK
    <3> DEFINE s == [status EXCEPT ![t] = st]
    <3>2. s \in [Tids -> Statuses] /\ Return(s, q, cur, rs, FALSE)
          BY <2>2, <2>4
    <3> HIDE DEF s, q, rs
    <3> QED BY <2>1, <2>3, <3>1, <3>2, ReturnTyped
  <2>6. suspendCount' \in [Tids -> Nat]
    <3>1. suspendCount[t] \in Nat \ {0}
          BY <1>5, <2>1 DEF ResumeThread, TypeOK
    <3>2. suspendCount[t] - 1 \in Nat
          BY <3>1
    <3> QED BY <1>5, <3>2 DEF ResumeThread, TypeOK
  <2> QED BY <1>5, <2>1, <2>5, <2>6 DEF ResumeThread, TypeOK, SchedTyped, Queues, semaVars
<1>6. ASSUME NEW t \in Guests \cup {cur}, SuspendThread(t) PROVE TypeOK'
  <2> DEFINE st == IF status[t] = "Waiting" THEN "WaitingSuspended"
                   ELSE IF status[t] \in {"Running", "Ready"} THEN "Suspended"
                   ELSE status[t]
             c == IF t = cur THEN NoThread ELSE cur
  <2>1. t \in Tids /\ prio' \in [Tids -> Priorities]
        /\ (resched \/ t = cur) \in BOOLEAN /\ c \in Tids \cup {NoThread}
        BY <1>0, <1>6 DEF SuspendThread, InCall, TypeOK
  <2>2. [status EXCEPT ![t] = st] \in [Tids -> Statuses]
    <3>1. st \in Statuses
          BY <2>1 DEF TypeOK, Statuses
    <3> QED BY <3>1, <2>1 DEF TypeOK
  <2>3. Unqueued(t) \in Queues
        BY <2>1, UnqueuedTyped
  <2>4. Return([status EXCEPT ![t] = st], Unqueued(t), c, resched \/ t = cur, FALSE)
        BY <1>6 DEF SuspendThread
  <2>5. SchedTyped'
    <3> DEFINE s == [status EXCEPT ![t] = st]
               rs == resched \/ t = cur
    <3>1. s \in [Tids -> Statuses] /\ rs \in BOOLEAN /\ Return(s, Unqueued(t), c, rs, FALSE)
          BY <2>1, <2>2, <2>4
    <3> HIDE DEF s, c, rs
    <3> QED BY <2>1, <2>3, <3>1, ReturnTyped
  <2>6. suspendCount' \in [Tids -> Nat]
    <3>1. suspendCount[t] + 1 \in Nat
          BY <2>1 DEF TypeOK
    <3> QED BY <1>6, <3>1 DEF SuspendThread, TypeOK
  <2> QED BY <1>6, <2>1, <2>5, <2>6 DEF SuspendThread, TypeOK, SchedTyped, Queues, semaVars
<1>7. ASSUME NEW t \in Guests \cup {cur}, CancelWakeupThread(t) PROVE TypeOK'
      BY <1>7 DEF CancelWakeupThread, TypeOK, semaVars
<1>8. ASSUME NEW delete \in BOOLEAN, ExitThread(delete) PROVE TypeOK'
  <2>1. cur \in Tids /\ (Retire(cur, "Absent") \/ Retire(cur, "Dormant"))
        BY <1>8 DEF ExitThread, InCall, TypeOK
  <2>2. prio' \in [Tids -> Priorities]
    <3>1. 0 \in Priorities
          BY BoundsAssumption DEF Priorities
    <3> QED BY <1>8, <3>1 DEF ExitThread, TypeOK
  <2>3. "Absent" \in Statuses /\ "Dormant" \in Statuses
        BY DEF Statuses
  <2>4. /\ status' \in [Tids -> Statuses] /\ ready' \in [Priorities -> Seq(Tids)]
        /\ waiters' \in [Semas -> Seq(Tids)] /\ wait' \in [Tids -> Waits]
        /\ suspendCount' \in [Tids -> Nat] /\ wakeupCount' \in [Tids -> Nat]
        /\ frames' \in [Tids -> Seq(Kinds)] /\ returned' \in [Tids -> BOOLEAN]
        BY <2>1, <2>3, RetireTyped
  <2> QED BY <1>8, <2>2, <2>4 DEF ExitThread, TypeOK
<1>9. CASE SleepThread
  <2>1. cur \in Tids /\ [reason |-> "Sleep", arg |-> 0] \in Waits
        BY <1>9 DEF SleepThread, InCall, TypeOK, Waits
  <2>2. CASE wakeupCount[cur] > 0
    <3>1. wakeupCount[cur] \in Nat /\ wakeupCount[cur] - 1 \in Nat
          BY <2>1, <2>2 DEF TypeOK
    <3>2. wakeupCount' = [wakeupCount EXCEPT ![cur] = @ - 1]
          BY <1>9, <2>2 DEF SleepThread
    <3>3. wakeupCount' \in [Tids -> Nat]
          BY <3>1, <3>2 DEF TypeOK
    <3> QED BY <1>9, <2>2, <3>3 DEF SleepThread, TypeOK, semaVars
  <2>3. CASE ~(wakeupCount[cur] > 0)
        BY <1>9, <2>1, <2>3, BlockTyped DEF SleepThread, TypeOK, semaVars
  <2> QED BY <2>2, <2>3
<1>10. ASSUME NEW isr \in BOOLEAN, NEW t \in Guests, WakeupThread(t, isr) PROVE TypeOK'
  <2>1. t \in Tids /\ <<t>> \in Seq(Tids) /\ prio' \in [Tids -> Priorities]
        BY <1>0, <1>10 DEF WakeupThread, TypeOK
  <2>2. /\ StatusAfter(<<t>>) \in [Tids -> Statuses] /\ WaitAfter(<<t>>) \in [Tids -> Waits]
        /\ ReadyAfter(<<t>>) \in Queues /\ ReschedAfter(<<t>>) \in BOOLEAN
        BY <2>1, AwakenedTyped
  <2>3. \/ Return(StatusAfter(<<t>>), ReadyAfter(<<t>>), cur, ReschedAfter(<<t>>), isr)
        \/ Return(status, ready, cur, resched, isr)
        BY <1>10 DEF WakeupThread
  <2>4. SchedTyped'
        BY <2>1, <2>2, <2>3, ReturnTyped DEF TypeOK, Queues
  <2>5. wait' \in [Tids -> Waits] /\ wakeupCount' \in [Tids -> Nat]
    <3>1. wakeupCount \in [Tids -> Nat] /\ wait \in [Tids -> Waits]
          BY DEF TypeOK
    <3>2. wakeupCount[t] + 1 \in Nat
          BY <2>1, <3>1
    <3>3. \/ wait' = WaitAfter(<<t>>) /\ UNCHANGED wakeupCount
          \/ wakeupCount' = [wakeupCount EXCEPT ![t] = wakeupCount[t] + 1] /\ UNCHANGED wait
          BY <1>10 DEF WakeupThread
    <3> QED BY ONLY <2>1, <2>2, <3>1, <3>2, <3>3
  <2> QED BY <1>10, <2>1, <2>4, <2>5 DEF WakeupThread, TypeOK, SchedTyped, Queues, semaVars
<1>11. ASSUME NEW isr \in BOOLEAN, NEW t \in Guests, ReleaseWaitThread(t, isr) PROVE TypeOK'
  <2>1. t \in Tids /\ <<t>> \in Seq(Tids) /\ prio' \in [Tids -> Priorities]
        BY <1>0, <1>11 DEF ReleaseWaitThread, TypeOK
  <2>2. /\ StatusAfter(<<t>>) \in [Tids -> Statuses] /\ WaitAfter(<<t>>) \in [Tids -> Waits]
        /\ ReadyAfter(<<t>>) \in Queues /\ ReschedAfter(<<t>>) \in BOOLEAN
        BY <2>1, AwakenedTyped
  <2>3. Return(StatusAfter(<<t>>), ReadyAfter(<<t>>), cur, ReschedAfter(<<t>>), isr)
        BY <1>11 DEF ReleaseWaitThread
  <2>4. SchedTyped'
        BY <2>1, <2>2, <2>3, ReturnTyped DEF TypeOK
  <2>5. waiters' \in [Semas -> Seq(Tids)]
        BY <1>11, <2>1, UnlistedTyped DEF ReleaseWaitThread
  <2> QED BY <1>11, <2>1, <2>2, <2>4, <2>5 DEF ReleaseWaitThread, TypeOK, SchedTyped, Queues
<1>12. ASSUME NEW isr \in BOOLEAN, NEW t \in Guests \cup {cur}, NEW p \in Priorities,
              ChangeThreadPriority(t, p, isr)
       PROVE  TypeOK'
  <2>1. t \in Tids /\ prio' \in [Tids -> Priorities]
        BY <1>0, <1>12 DEF ChangeThreadPriority, InCall, TypeOK
  <2>2. PushBack(Unqueued(t), p, t) \in Queues
        BY <2>1, UnqueuedTyped, PushTyped
  <2>3. \E q \in Queues, rs \in BOOLEAN : Return(status, q, cur, rs, isr)
    <3>1. ready \in Queues
          BY DEF TypeOK, Queues
    <3>2. /\ (resched \/ p < prio[cur]) \in BOOLEAN
          /\ (resched \/ (t = cur /\ \E q \in 0 .. p - 1 : ready[q] # <<>>)) \in BOOLEAN
          BY DEF TypeOK
    <3> QED BY <1>12, <2>2, <3>1, <3>2 DEF ChangeThreadPriority
  <2>4. SchedTyped'
        BY <2>1, <2>3, ReturnTyped DEF TypeOK
  <2> QED BY <1>12, <2>1, <2>4 DEF ChangeThreadPriority, TypeOK, SchedTyped, Queues, threadVars, semaVars
<1>13. ASSUME NEW isr \in BOOLEAN, NEW p \in Priorities, RotateThreadReadyQueue(p, isr)
       PROVE  TypeOK'
  <2> DEFINE q == IF p = 0 THEN prio[cur] ELSE p
             rotated == IF Len(ready[q]) > 1
                        THEN [ready EXCEPT ![q] = Append(Tail(@), Head(@))] ELSE ready
  <2>1. /\ cur \in Tids /\ q \in Priorities /\ prio' \in [Tids -> Priorities]
        /\ [status EXCEPT ![cur] = "Ready"] \in [Tids -> Statuses]
        BY <1>13 DEF RotateThreadReadyQueue, InCall, TypeOK, Statuses
  <2>2. ready \in Queues
        BY DEF TypeOK, Queues
  <2>3. /\ \/ Return([status EXCEPT ![cur] = "Ready"], PushBack(ready, q, cur), NoThread, TRUE, isr)
           \/ Return(status, rotated, cur, resched, isr)
        BY <1>13 DEF RotateThreadReadyQueue
  <2>4. PushBack(ready, q, cur) \in Queues
        BY <2>1, <2>2, PushTyped
  <2>5. rotated \in Queues
    <3> HIDE DEF q
    <3>1. ready[q] \in Seq(Tids)
          BY <2>1, <2>2 DEF Queues
    <3>2. CASE Len(ready[q]) > 1
      <4>1. ready[q] # <<>>
            BY <3>1, <3>2
      <4>2. Head(ready[q]) \in Tids /\ Tail(ready[q]) \in Seq(Tids)
            BY <3>1, <4>1, TailFacts
      <4>3. Append(Tail(ready[q]), Head(ready[q])) \in Seq(Tids)
            BY <4>2, AppendFacts
      <4> QED BY <2>2, <3>2, <4>3 DEF Queues
    <3> QED BY <2>2, <3>2
  <2> HIDE DEF q, rotated
  <2>6. ASSUME Return(status, rotated, cur, resched, isr)
        PROVE  SchedTyped'
    <3>1. status \in [Tids -> Statuses] /\ cur \in Tids \cup {NoThread} /\ resched \in BOOLEAN
          BY DEF TypeOK
    <3> HIDE DEF rotated
    <3> QED BY <2>1, <2>5, <2>6, <3>1, ReturnTyped
  <2>7. ASSUME Return([status EXCEPT ![cur] = "Ready"], PushBack(ready, q, cur), NoThread, TRUE, isr)
        PROVE  SchedTyped'
    <3> DEFINE s == [status EXCEPT ![cur] = "Ready"]
               r == PushBack(ready, q, cur)
               rs == TRUE
               c == NoThread
    <3>1. /\ s \in [Tids -> Statuses] /\ r \in Queues /\ c \in Tids \cup {NoThread}
          /\ rs \in BOOLEAN /\ Return(s, r, c, rs, isr)
          BY <2>1, <2>4, <2>7
    <3> HIDE DEF s, r, c, rs
    <3> QED BY <2>1, <3>1, ReturnTyped
  <2>8. SchedTyped'
        BY <2>3, <2>6, <2>7
  <2> QED BY <1>13, <2>1, <2>8 DEF RotateThreadReadyQueue, TypeOK, SchedTyped, Queues, threadVars, semaVars
<1>14. ASSUME NEW n \in 1 .. MaxTicks, WaitVSync(n) PROVE TypeOK'
  <2>1. cur \in Tids /\ [reason |-> "VSync", arg |-> n] \in Waits
    <3>1. n \in Nat \ {0}
          BY BoundsAssumption
    <3> QED BY <1>14, <3>1 DEF WaitVSync, InCall, TypeOK, Waits
  <2> QED BY <1>14, <2>1, BlockTyped DEF WaitVSync, TypeOK, semaVars
<1>15. CASE RefusedCall
  <2>1. prio' \in [Tids -> Priorities] /\ ready \in Queues
        BY <1>15 DEF RefusedCall, TypeOK, Queues
  <2>2. Return(status, ready, cur, resched, FALSE)
        BY <1>15 DEF RefusedCall
  <2>3. SchedTyped'
        BY <2>1, <2>2, ReturnTyped DEF TypeOK
  <2> QED BY <1>15, <2>3 DEF RefusedCall, TypeOK, SchedTyped, Queues, threadVars, semaVars
<1> QED BY <1>1, <1>2, <1>3, <1>4, <1>5, <1>6, <1>7, <1>8, <1>9, <1>10, <1>11, <1>12, <1>13,
           <1>14, <1>15 DEF ThreadCall, EndsWaitOf, OtherThreadCall

LEMMA TypeSemaCall == TypeOK /\ SemaCall => TypeOK'
<1> SUFFICES ASSUME TypeOK, NEW s \in Semas, NEW isr \in BOOLEAN,
                    \/ \E max \in 1 .. MaxCount, init \in 0 .. MaxCount : CreateSema(s, init, max)
                    \/ DeleteSema(s, isr)
                    \/ SignalSema(s, isr)
                    \/ PollSema(s)
                    \/ WaitSema(s)
             PROVE  TypeOK'
    BY DEF SemaCall
<1>0. /\ limit[s] \in Nat /\ count[s] \in Nat /\ waiters[s] \in Seq(Tids)
      /\ ready \in Queues /\ prio \in [Tids -> Priorities]
      BY DEF TypeOK, Queues
<1>1. ASSUME NEW max \in 1 .. MaxCount, NEW init \in 0 .. MaxCount, CreateSema(s, init, max)
      PROVE  TypeOK'
  <2>1. max \in Nat /\ init \in Nat
        BY BoundsAssumption
  <2> QED BY <1>1, <2>1 DEF CreateSema, TypeOK, threadVars
<1>2. CASE DeleteSema(s, isr)
  <2>1. /\ StatusAfter(waiters[s]) \in [Tids -> Statuses] /\ WaitAfter(waiters[s]) \in [Tids -> Waits]
        /\ ReadyAfter(waiters[s]) \in Queues /\ ReschedAfter(waiters[s]) \in BOOLEAN
        BY <1>0, AwakenedTyped
  <2>2. SchedTyped'
    <3>1. /\ Return(StatusAfter(waiters[s]), ReadyAfter(waiters[s]), cur,
                    ReschedAfter(waiters[s]), isr)
          /\ prio' = prio /\ cur \in Tids \cup {NoThread}
          BY <1>2 DEF DeleteSema, TypeOK
    <3> QED BY <1>0, <2>1, <3>1, ReturnTyped
  <2>3. <<>> \in Seq(Tids)
        OBVIOUS
  <2> QED BY <1>2, <2>1, <2>2, <2>3 DEF DeleteSema, TypeOK, SchedTyped, Queues
<1>3. CASE SignalSema(s, isr)
  <2> DEFINE w == <<Head(waiters[s])>>
  <2>1. CASE waiters[s] # <<>>
    <3>1. Tail(waiters[s]) \in Seq(Tids) /\ w \in Seq(Tids)
          BY <1>0, <2>1, TailFacts
    <3>2. /\ Return(StatusAfter(w), ReadyAfter(w), cur, ReschedAfter(w), isr)
          /\ wait' = WaitAfter(w) /\ waiters' = [waiters EXCEPT ![s] = Tail(@)]
          /\ count' = count /\ prio' = prio /\ cur \in Tids \cup {NoThread}
          BY <1>3, <2>1 DEF SignalSema, TypeOK
    <3> HIDE DEF w
    <3>3. /\ StatusAfter(w) \in [Tids -> Statuses] /\ WaitAfter(w) \in [Tids -> Waits]
          /\ ReadyAfter(w) \in Queues /\ ReschedAfter(w) \in BOOLEAN
          BY <3>1, AwakenedTyped
    <3>4. SchedTyped'
          BY <1>0, <3>2, <3>3, ReturnTyped
    <3> QED BY <1>3, <3>1, <3>2, <3>3, <3>4 DEF SignalSema, TypeOK, SchedTyped, Queues
  <2>2. CASE waiters[s] = <<>>
    <3>1. /\ Return(status, ready, cur, resched, isr) /\ prio' = prio
          /\ count' = [count EXCEPT ![s] = @ + 1] /\ waiters' = waiters /\ wait' = wait
          BY <1>3, <2>2 DEF SignalSema
    <3>2. SchedTyped'
          BY <1>0, <3>1, ReturnTyped DEF TypeOK
    <3>3. count' \in [Semas -> Nat]
          BY <1>0, <3>1, SMTT(30) DEF TypeOK
    <3> QED BY <1>3, <3>1, <3>2, <3>3 DEF SignalSema, TypeOK, SchedTyped, Queues
  <2> QED BY <2>1, <2>2
<1>4. CASE PollSema(s)
  <2>1. count[s] - 1 \in Nat
        BY <1>0, <1>4 DEF PollSema, Available
  <2> QED BY <1>4, <2>1 DEF PollSema, TypeOK, threadVars
<1>5. CASE WaitSema(s)
  <2>1. CASE Available(s)
    <3>1. count[s] - 1 \in Nat
          BY <1>0, <2>1 DEF Available
    <3> QED BY <1>5, <2>1, <3>1 DEF WaitSema, TypeOK
  <2>2. CASE ~Available(s)
    <3>1. cur \in Tids /\ Block([reason |-> "Semaphore", arg |-> s])
          BY <1>5, <2>2 DEF WaitSema, InCall, TypeOK
    <3>2. Append(waiters[s], cur) \in Seq(Tids) /\ [reason |-> "Semaphore", arg |-> s] \in Waits
          BY <1>0, <3>1, AppendFacts DEF Waits
    <3>3. waiters' \in [Semas -> Seq(Tids)]
          BY <1>5, <2>2, <3>2 DEF WaitSema, TypeOK
    <3> QED BY <1>5, <2>2, <3>1, <3>2, <3>3, BlockTyped DEF WaitSema, TypeOK
  <2> QED BY <2>1, <2>2
<1> QED BY <1>1, <1>2, <1>3, <1>4, <1>5

\* The order in which a VBlank completes its waiters exists and lists threads.
LEMMA InIdOrderTyped ==
    ASSUME NEW S \in SUBSET Tids, NEW w \in InIdOrder(S)
    PROVE  w \in Seq(Tids) /\ Range(w) = S /\ IsInjective(w)
<1>1. IsFiniteSet(Tids)
  <2>1. IsFiniteSet(-3 .. 255)
    <3> DEFINE low == -3
    <3>1. low \in Int /\ 255 \in Int
          OBVIOUS
    <3> HIDE DEF low
    <3>2. IsFiniteSet(low .. 255)
          BY <3>1, FS_Interval
    <3> QED BY <3>2 DEF low
  <2>2. Tids \subseteq -3 .. 255
        BY IdsAssumption DEF Tids, Guests
  <2> QED BY <2>1, <2>2, FS_Subset
<1>2. Cardinality(S) \in Nat
      BY <1>1, FS_Subset, FS_CardinalityType
<1> DEFINE n == Cardinality(S)
<1> HIDE DEF n
<1>3. /\ w \in [1 .. n -> S] /\ Range(w) = S
      /\ \A i, j \in DOMAIN w : i < j => w[i] < w[j]
      BY DEF InIdOrder, n
<1>4. w \in Seq(Tids)
      BY <1>2, <1>3 DEF n
<1>5. \A i \in DOMAIN w : i \in Nat /\ w[i] \in Int
  <2>1. \A t \in Tids : t \in Int
        BY IdsAssumption DEF Tids, Guests
  <2> QED BY <1>2, <1>3, <2>1 DEF n
<1>6. IsInjective(w)
  <2>1. \A i, j \in DOMAIN w : i < j \/ j < i \/ i = j
        BY <1>5
  <2>2. \A i, j \in DOMAIN w : w[i] = w[j] => i = j
        BY <1>3, <1>5, <2>1
  <2> QED BY <2>2 DEF IsInjective
<1> QED BY <1>3, <1>4, <1>6

LEMMA TypeQueue == ASSUME TypeOK, NEW h \in Seq(Kinds), Queue(h) PROVE pending' \in Seq(Kinds)
BY ConcatFacts DEF Queue, TypeOK

LEMMA TypeLoopStep == TypeOK /\ LoopStep => TypeOK'
<1> SUFFICES ASSUME TypeOK, LoopStep PROVE TypeOK'
    OBVIOUS
<1>0. /\ cur # NoThread => cur \in Tids
      /\ ready \in Queues /\ pending \in Seq(Kinds) /\ <<>> \in Seq(Kinds)
      BY DEF TypeOK, Queues
<1>1. ASSUME NEW h \in VBlankWork, VBlank(h) PROVE TypeOK'
  <2> DEFINE onVSync == {t \in Tids : status[t] \in Blocked /\ wait[t].reason = "VSync"}
             due == {t \in onVSync : wait[t].arg = 1}
  <2>1. h \in Seq(Kinds)
    <3>1. "Callback" \in Kinds /\ "Interrupt" \in Kinds
          BY DEF Kinds
    <3>2. /\ <<>> \in Seq(Kinds) /\ <<"Callback">> \in Seq(Kinds)
          /\ <<"Interrupt">> \in Seq(Kinds) /\ <<"Callback", "Interrupt">> \in Seq(Kinds)
          BY <3>1
    <3> QED BY <3>2 DEF VBlankWork
  <2>2. pending' \in Seq(Kinds)
        BY <1>1, <2>1, TypeQueue DEF VBlank
  <2>3. PICK w \in InIdOrder(due) :
           status' = StatusAfter(w) /\ ready' = ReadyAfter(w) /\ resched' = ReschedAfter(w)
        BY <1>1 DEF VBlank
  <2>4. w \in Seq(Tids)
    <3>1. due \in SUBSET Tids
          OBVIOUS
    <3> HIDE DEF due
    <3> QED BY <2>3, <3>1, InIdOrderTyped
  <2>5. status' \in [Tids -> Statuses] /\ ready' \in Queues /\ resched' \in BOOLEAN
        BY <2>3, <2>4, AwakenedTyped
  <2>6. wait' \in [Tids -> Waits]
    <3>1. wait' = [t \in Tids |->
                     IF t \in due THEN NoWait
                     ELSE IF t \in onVSync THEN [wait[t] EXCEPT !.arg = @ - 1] ELSE wait[t]]
          BY <1>1 DEF VBlank
    <3>2. ASSUME NEW t \in onVSync, t \notin due
          PROVE  [wait[t] EXCEPT !.arg = @ - 1] \in Waits
      <4>1. wait[t] \in Waits /\ wait[t].reason = "VSync" /\ wait[t].arg # 1
            BY <3>2 DEF TypeOK
      <4>2. wait[t] \in [reason : {"VSync"}, arg : Nat \ {0}]
            BY <4>1 DEF Waits
      <4>3. wait[t].arg - 1 \in Nat \ {0}
            BY <4>1, <4>2
      <4>4. [wait[t] EXCEPT !.arg = @ - 1] \in [reason : {"VSync"}, arg : Nat \ {0}]
            BY <4>2, <4>3
      <4> QED BY <4>4 DEF Waits
    <3>3. \A t \in Tids : wait[t] \in Waits
          BY DEF TypeOK
    <3> HIDE DEF due, onVSync
    <3> QED BY <3>1, <3>2, <3>3, NoWaitTyped
  <2> QED BY <1>1, <2>2, <2>5, <2>6 DEF VBlank, TypeOK, Queues, semaVars
<1>2. ASSUME NEW k \in Kinds, OtherEvent(k) PROVE TypeOK'
  <2>1. <<k>> \in Seq(Kinds)
        OBVIOUS
  <2>2. pending' \in Seq(Kinds)
        BY <1>2, <2>1, TypeQueue DEF OtherEvent
  <2> QED BY <1>2, <2>2 DEF OtherEvent, TypeOK, queueVars, threadVars, semaVars
<1>3. CASE ApplyPendingPreemption
  <2>1. CASE resched /\ cur # NoThread
    <3>1. prio[cur] \in Priorities /\ cur \in Tids
          BY <1>0, <2>1 DEF TypeOK
    <3>2. PushBack(ready, prio[cur], cur) \in Queues /\ PushFront(ready, prio[cur], cur) \in Queues
          BY <1>0, <3>1, PushTyped
    <3>3. ready' \in Queues
          BY <1>3, <2>1, <3>2 DEF ApplyPendingPreemption
    <3>4. status' \in [Tids -> Statuses]
          BY <1>3, <2>1, <3>1 DEF ApplyPendingPreemption, TypeOK, Statuses
    <3> QED BY <1>3, <2>1, <3>3, <3>4
            DEF ApplyPendingPreemption, TypeOK, Queues, threadVars, semaVars
  <2>2. CASE ~(resched /\ cur # NoThread)
        BY <1>3, <2>2 DEF ApplyPendingPreemption, TypeOK, threadVars, semaVars
  <2> QED BY <2>1, <2>2
<1>4. CASE SelectReady
  <2>1. PICK p \in Priorities :
           /\ ready[p] # <<>>
           /\ status' = [status EXCEPT ![Head(ready[p])] = "Running"]
           /\ cur' = Head(ready[p])
           /\ ready' = [ready EXCEPT ![p] = Tail(@)]
        BY <1>4 DEF SelectReady
  <2>2. Head(ready[p]) \in Tids /\ Tail(ready[p]) \in Seq(Tids)
        BY <1>0, <2>1, TailFacts DEF Queues
  <2>3. status' \in [Tids -> Statuses] /\ ready' \in Queues /\ cur' \in Tids
        BY <1>0, <2>1, <2>2 DEF TypeOK, Statuses, Queues
  <2> QED BY <1>4, <2>3 DEF SelectReady, TypeOK, Queues, threadVars, semaVars
<1>5. ASSUME NEW d \in Dispatchers, AcquireDispatcher(d) PROVE TypeOK'
  <2>1. d \in Tids
        BY DEF Tids
  <2>2. Head(pending) \in Kinds /\ Tail(pending) \in Seq(Kinds)
        BY <1>0, <1>5, TailFacts DEF AcquireDispatcher
  <2>3. <<Head(pending)>> \in Seq(Kinds)
        BY <2>2
  <2>4. frames' \in [Tids -> Seq(Kinds)] /\ status' \in [Tids -> Statuses]
        BY <1>5, <2>1, <2>3 DEF AcquireDispatcher, TypeOK, Statuses
  <2> QED BY <1>5, <2>1, <2>2, <2>4 DEF AcquireDispatcher, TypeOK, semaVars
<1>6. CASE Idle
      BY <1>6 DEF Idle, TypeOK, queueVars, threadVars, semaVars
<1>7. CASE PopFrame
  <2>1. cur \in Tids /\ frames[cur] \in Seq(Kinds) /\ frames[cur] # <<>>
        BY <1>0, <1>7 DEF PopFrame, Selected, TypeOK
  <2>2. Front(frames[cur]) \in Seq(Kinds)
    <3> DEFINE f == frames[cur]
    <3>1. f \in Seq(Kinds) /\ Len(f) \in Nat /\ \A i \in 1 .. Len(f) - 1 : f[i] \in Kinds
          BY <2>1
    <3> HIDE DEF f
    <3>2. SubSeq(f, 1, Len(f) - 1) \in Seq(Kinds)
          BY <3>1, SubSeqProperties
    <3> QED BY <3>2 DEF Front, f
  <2>3. frames' \in [Tids -> Seq(Kinds)] /\ returned' \in [Tids -> BOOLEAN]
        BY <1>7, <2>1, <2>2 DEF PopFrame, TypeOK
  <2> QED BY <1>7, <2>3 DEF PopFrame, TypeOK, queueVars, semaVars
<1>8. ASSUME cur # NoThread, RetireCurrent PROVE TypeOK'
  <2>1. "Dormant" \in Statuses /\ cur \in Tids
        BY <1>0, <1>8 DEF Statuses
  <2> QED BY <1>8, <2>1, RetireTyped DEF RetireCurrent, TypeOK
<1>9. CASE ThreadReturns
      BY <1>8, <1>9 DEF ThreadReturns, Selected
<1>10. CASE PushInvocation
  <2>1. cur \in Tids /\ frames[cur] \in Seq(Kinds) /\ pending # <<>>
        BY <1>0, <1>10 DEF PushInvocation, Selected, TypeOK
  <2>2. Head(pending) \in Kinds /\ Tail(pending) \in Seq(Kinds)
        BY <1>0, <2>1, TailFacts
  <2>3. Append(frames[cur], Head(pending)) \in Seq(Kinds)
        BY <2>1, <2>2, AppendFacts
  <2>4. frames' \in [Tids -> Seq(Kinds)]
        BY <1>10, <2>1, <2>3 DEF PushInvocation, TypeOK
  <2> QED BY <1>10, <2>2, <2>4 DEF PushInvocation, TypeOK, queueVars, semaVars
<1>11. CASE MissingFunction
  <2>1. CASE frames[cur] = <<>> /\ RetireCurrent
        BY <1>8, <1>11, <2>1 DEF MissingFunction, Runnable, Selected
  <2>2. CASE ~(frames[cur] = <<>> /\ RetireCurrent)
        BY <1>11, <2>2 DEF MissingFunction, TypeOK, queueVars, semaVars
  <2> QED BY <2>1, <2>2
<1>12. CASE DispatchCheckpoint
       BY <1>12 DEF DispatchCheckpoint, TypeOK, threadVars, semaVars
<1>13. CASE EnterGuest
       BY <1>0, <1>13 DEF EnterGuest, Runnable, Selected, TypeOK, queueVars, threadVars, semaVars
<1> QED BY <1>1, <1>2, <1>3, <1>4, <1>5, <1>6, <1>7, <1>9, <1>10, <1>11, <1>12, <1>13 DEF LoopStep

LEMMA TypeGuestStep == TypeOK /\ GuestStep => TypeOK'
<1> SUFFICES ASSUME TypeOK, GuestStep PROVE TypeOK'
    OBVIOUS
<1>1. CASE GuestReturns
      BY <1>1 DEF GuestReturns, TypeOK, queueVars, semaVars
<1>2. CASE GuestCheckpoint
      BY <1>2 DEF GuestCheckpoint, TypeOK, queueVars, threadVars, semaVars
<1>3. CASE SliceExpires
      BY <1>3 DEF SliceExpires, TypeOK, threadVars, semaVars
<1> QED BY <1>1, <1>2, <1>3, TypeThreadCall, TypeSemaCall DEF GuestStep

\* Type correctness, whatever the guest's threads, its calls and the events.
THEOREM TypeCorrect == Spec => []TypeOK
<1>1. TypeOK /\ [Next]_vars => TypeOK'
  <2>1. TypeOK /\ Next => TypeOK'
        BY TypeGuestStep, TypeLoopStep DEF Next
  <2>2. TypeOK /\ UNCHANGED vars => TypeOK'
        BY DEF vars, TypeOK
  <2> QED BY <2>1, <2>2
<1> QED BY <1>1, TypeInit, PTL DEF Spec

(***************************************************************************)
(* Queues as lists of sets.                                                *)
(***************************************************************************)
\* q lists the threads of S, each once.
Lists(q, S) == q \in Seq(Tids) /\ Range(q) = S /\ IsInjective(q)

LEMMA ListsAppend ==
    ASSUME NEW q, NEW S, Lists(q, S), NEW t \in Tids, t \notin S
    PROVE  Lists(Append(q, t), S \cup {t}) /\ Lists(<<t>> \o q, S \cup {t})
BY AppendFacts, ConsFacts DEF Lists

LEMMA ListsRemove ==
    ASSUME NEW q, NEW S, Lists(q, S), NEW t
    PROVE  Lists(RemoveFirst(q, t), S \ {t})
BY RemoveFirstFacts DEF Lists

LEMMA ListsTail ==
    ASSUME NEW q, NEW S, Lists(q, S), q # <<>>
    PROVE  /\ Head(q) \in S /\ Head(q) \in Tids
           /\ Lists(Tail(q), S \ {Head(q)})
BY TailFacts DEF Lists

LEMMA ListsConcat ==
    ASSUME NEW q, NEW S, Lists(q, S), NEW r, NEW T, Lists(r, T), S \cap T = {}
    PROVE  Lists(q \o r, S \cup T)
BY ConcatFacts DEF Lists

LEMMA ListsAmong ==
    ASSUME NEW q, NEW S, Lists(q, S), NEW T
    PROVE  Lists(Among(q, T), S \cap T)
BY AmongFacts DEF Lists

LEMMA ListsOne == ASSUME NEW t \in Tids PROVE Lists(<<t>>, {t})
<1> DEFINE q == <<t>>
<1>1. q \in Seq(Tids) /\ Len(q) = 1 /\ q[1] = t
      OBVIOUS
<1> HIDE DEF q
<1>2. Range(q) = {t} /\ IsInjective(q)
      BY <1>1, RangeOfQueue
<1> QED BY <1>1, <1>2 DEF Lists, q

LEMMA ListsNothing == Lists(<<>>, {})
<1>1. <<>> \in Seq(Tids)
      OBVIOUS
<1>2. DOMAIN <<>> = {}
      OBVIOUS
<1> QED BY <1>1, <1>2 DEF Lists, Range, IsInjective

LEMMA ListsEmpty == ASSUME NEW S, Lists(<<>>, S) PROVE S = {}
<1>1. DOMAIN <<>> = {}
      OBVIOUS
<1> QED BY <1>1 DEF Lists, Range

LEMMA ListsNobody == ASSUME NEW q, Lists(q, {}) PROVE q = <<>>
BY TailFacts DEF Lists

(***************************************************************************)
(* The three parts, of any scheduler state: statuses st, priorities pr,    *)
(* suspensions sc, waits wt, queues q, current thread c, semaphore limits  *)
(* lim, counts cnt and queues ws.                                          *)
(***************************************************************************)
Queued(st, pr, q, c) ==
    /\ \A p \in Priorities : Lists(q[p], {t \in Tids : st[t] = "Ready" /\ pr[t] = p})
    /\ \A t \in Tids : st[t] = "Running" <=> t = c

Counted(st, sc) == \A t \in Tids : sc[t] > 0 <=> st[t] \in {"Suspended", "WaitingSuspended"}

OnSemaIn(st, wt, s) ==
    {t \in Tids : st[t] \in Blocked /\ wt[t] = [reason |-> "Semaphore", arg |-> s]}

Waited(st, wt, lim, cnt, ws) ==
    /\ \A s \in Semas : /\ Lists(ws[s], OnSemaIn(st, wt, s))
                        /\ ws[s] # <<>> => lim[s] # 0 /\ cnt[s] = 0
                        /\ cnt[s] <= lim[s]
    /\ \A t \in Tids : wt[t] # NoWait => st[t] \in Blocked

\* The inductive invariant.
IInv == /\ TypeOK
        /\ Queued(status, prio, ready, cur)
        /\ Counted(status, suspendCount)
        /\ Waited(status, wait, limit, count, waiters)

LEMMA Parts == IInv <=> TypeOK /\ ReadyQueuesExact /\ SuspensionExact /\ SemaphoresExact
<1>1. TypeOK => (Queued(status, prio, ready, cur) <=> ReadyQueuesExact)
      BY DEF TypeOK, Queued, ReadyQueuesExact, Lists
<1>2. Counted(status, suspendCount) <=> SuspensionExact
      BY DEF Counted, SuspensionExact
<1>3. TypeOK => (Waited(status, wait, limit, count, waiters) <=> SemaphoresExact)
      BY DEF TypeOK, Waited, SemaphoresExact, Lists, OnSemaIn, OnSema
<1> QED BY <1>1, <1>2, <1>3 DEF IInv

LEMMA NoThreadIsNone == NoThread \notin Tids /\ Main \in Tids
<1>1. 0 \notin Threads
      BY IdsAssumption
<1>2. 0 \notin Dispatchers
      BY IdsAssumption
<1> QED BY <1>1, <1>2 DEF Tids, Guests, NoThread, Main

(***************************************************************************)
(* What the operators the actions are built from do to the three parts.    *)
(***************************************************************************)
LEMMA ReturnKeeps ==
    ASSUME NEW st \in [Tids -> Statuses], NEW q \in Queues, NEW c \in Tids \cup {NoThread},
           NEW rs, NEW isr, Return(st, q, c, rs, isr),
           prio' \in [Tids -> Priorities], suspendCount' \in [Tids -> Nat],
           Queued(st, prio', q, c), Counted(st, suspendCount'),
           Waited(st, wait', limit', count', waiters')
    PROVE  /\ Queued(status', prio', ready', cur')
           /\ Counted(status', suspendCount')
           /\ Waited(status', wait', limit', count', waiters')
<1>1. CASE status' = st /\ ready' = q /\ cur' = c
      BY <1>1
<1>2. CASE c = NoThread /\ status' = st /\ ready' = q /\ cur' = NoThread
      BY <1>2
<1>3. CASE /\ c # NoThread
           /\ status' = [st EXCEPT ![c] = "Ready"]
           /\ ready' = PushFront(q, prio'[c], c)
           /\ cur' = NoThread
  <2>1. c \in Tids /\ st[c] = "Running"
        BY <1>3 DEF Queued
  <2>2. ASSUME NEW p \in Priorities
        PROVE  Lists(ready'[p], {t \in Tids : status'[t] = "Ready" /\ prio'[t] = p})
    <3> DEFINE S == {t \in Tids : st[t] = "Ready" /\ prio'[t] = p}
    <3>1. Lists(q[p], S)
          BY DEF Queued
    <3>2. CASE p = prio'[c]
      <4>1. Lists(<<c>> \o q[p], S \cup {c})
            BY <2>1, <3>1, ListsAppend
      <4>2. ready'[p] = <<c>> \o q[p]
            BY <1>3, <3>2 DEF PushFront, Queues
      <4>3. {t \in Tids : status'[t] = "Ready" /\ prio'[t] = p} = S \cup {c}
            BY <1>3, <2>1, <3>2
      <4> QED BY <4>1, <4>2, <4>3
    <3>3. CASE p # prio'[c]
      <4>1. ready'[p] = q[p]
            BY <1>3, <3>3 DEF PushFront, Queues
      <4>2. {t \in Tids : status'[t] = "Ready" /\ prio'[t] = p} = S
            BY <1>3, <2>1, <3>3
      <4> QED BY <3>1, <4>1, <4>2
    <3> QED BY <3>2, <3>3
  <2>3. \A t \in Tids : status'[t] = "Running" <=> t = cur'
        BY <1>3, <2>1, NoThreadIsNone DEF Queued
  <2>4. Counted(status', suspendCount')
        BY <1>3, <2>1 DEF Counted
  <2>5. wait'[c] = NoWait
        BY <2>1 DEF Waited, Blocked
  <2>6. \A s \in Semas : OnSemaIn(status', wait', s) = OnSemaIn(st, wait', s)
        BY <1>3, <2>1 DEF OnSemaIn, Blocked
  <2>7. \A t \in Tids : wait'[t] # NoWait => status'[t] \in Blocked
        BY <1>3, <2>1, <2>5 DEF Waited
  <2>8. Waited(status', wait', limit', count', waiters')
        BY <2>6, <2>7 DEF Waited
  <2> QED BY <2>2, <2>3, <2>4, <2>8 DEF Queued
<1> QED BY <1>1, <1>2, <1>3 DEF Return

\* removeReady: t is in no queue any more.
LEMMA UnqueuedLists ==
    ASSUME IInv, NEW t \in Tids, NEW p \in Priorities
    PROVE  /\ Unqueued(t) \in Queues
           /\ Lists(Unqueued(t)[p], {u \in Tids \ {t} : status[u] = "Ready" /\ prio[u] = p})
<1> DEFINE S == {u \in Tids : status[u] = "Ready" /\ prio[u] = p}
           T == {u \in Tids \ {t} : status[u] = "Ready" /\ prio[u] = p}
<1>1. Lists(ready[p], S) /\ ready \in Queues
      BY DEF IInv, Queued, TypeOK, Queues
<1>2. Unqueued(t) \in Queues
      BY UnqueuedTyped DEF IInv
<1>3. CASE status[t] = "Ready" /\ prio[t] = p
  <2>1. Unqueued(t)[p] = RemoveFirst(ready[p], t)
        BY <1>1, <1>3 DEF Unqueued, Queues
  <2>2. S \ {t} = T
        OBVIOUS
  <2>3. Lists(RemoveFirst(ready[p], t), S \ {t})
    <3> HIDE DEF S
    <3> QED BY <1>1, ListsRemove
  <2> QED BY <1>2, <2>1, <2>2, <2>3
<1>4. CASE ~(status[t] = "Ready" /\ prio[t] = p)
  <2>1. Unqueued(t)[p] = ready[p]
        BY <1>1, <1>4 DEF Unqueued, Queues, IInv, TypeOK
  <2>2. S = T
        BY <1>4
  <2> QED BY <1>1, <1>2, <2>1, <2>2
<1> QED BY <1>3, <1>4

\* t, taken off the queues, gets status s.
LEMMA RemoveKeeps ==
    ASSUME IInv, NEW t \in Tids, NEW s \in Statuses \ {"Ready", "Running"},
           NEW c, c = IF t = cur THEN NoThread ELSE cur,
           NEW pr, \A u \in Tids \ {t} : pr[u] = prio[u]
    PROVE  Queued([status EXCEPT ![t] = s], pr, Unqueued(t), c)
<1> DEFINE st == [status EXCEPT ![t] = s]
<1>1. ASSUME NEW p \in Priorities
      PROVE  Lists(Unqueued(t)[p], {u \in Tids : st[u] = "Ready" /\ pr[u] = p})
  <2>1. {u \in Tids : st[u] = "Ready" /\ pr[u] = p}
          = {u \in Tids \ {t} : status[u] = "Ready" /\ prio[u] = p}
        BY DEF IInv, TypeOK
  <2> QED BY <2>1, UnqueuedLists
<1>2. \A u \in Tids : st[u] = "Running" <=> u = c
      BY NoThreadIsNone DEF IInv, Queued, TypeOK
<1> QED BY <1>1, <1>2 DEF Queued

\* t, in no queue and off the processor, joins the back of its own.
LEMMA EnqueueKeeps ==
    ASSUME IInv, NEW t \in Tids, status[t] # "Ready",
           NEW c, c = IF t = cur THEN NoThread ELSE cur
    PROVE  /\ Queued([status EXCEPT ![t] = "Ready"], prio, PushBack(ready, prio[t], t), c)
           /\ Queued([status EXCEPT ![t] = "Ready"], prio, PushFront(ready, prio[t], t), c)
<1> DEFINE st == [status EXCEPT ![t] = "Ready"]
<1>1. ASSUME NEW p \in Priorities
      PROVE  /\ Lists(PushBack(ready, prio[t], t)[p], {u \in Tids : st[u] = "Ready" /\ prio[u] = p})
             /\ Lists(PushFront(ready, prio[t], t)[p], {u \in Tids : st[u] = "Ready" /\ prio[u] = p})
  <2> DEFINE S == {u \in Tids : status[u] = "Ready" /\ prio[u] = p}
  <2>1. Lists(ready[p], S) /\ ready \in Queues
        BY DEF IInv, Queued, TypeOK, Queues
  <2>2. CASE p = prio[t]
    <3>1. Lists(Append(ready[p], t), S \cup {t}) /\ Lists(<<t>> \o ready[p], S \cup {t})
          BY <2>1, ListsAppend
    <3>2. {u \in Tids : st[u] = "Ready" /\ prio[u] = p} = S \cup {t}
          BY <2>2 DEF IInv, TypeOK
    <3>3. /\ PushBack(ready, prio[t], t)[p] = Append(ready[p], t)
          /\ PushFront(ready, prio[t], t)[p] = <<t>> \o ready[p]
          BY <2>1, <2>2 DEF PushBack, PushFront, Queues
    <3> QED BY <3>1, <3>2, <3>3
  <2>3. CASE p # prio[t]
    <3>1. {u \in Tids : st[u] = "Ready" /\ prio[u] = p} = S
          BY <2>3 DEF IInv, TypeOK
    <3>2. /\ PushBack(ready, prio[t], t)[p] = ready[p]
          /\ PushFront(ready, prio[t], t)[p] = ready[p]
          BY <2>1, <2>3 DEF PushBack, PushFront, Queues
    <3> QED BY <2>1, <3>1, <3>2
  <2> QED BY <2>2, <2>3
<1>2. \A u \in Tids : st[u] = "Running" <=> u = c
      BY NoThreadIsNone DEF IInv, Queued, TypeOK
<1> QED BY <1>1, <1>2 DEF Queued

\* removeFromWaitObject: the semaphores' queues without t.
LEMMA UnlistedLists ==
    ASSUME IInv, NEW t \in Tids, NEW s \in Semas
    PROVE  Lists(Unlisted(t)[s], OnSemaIn(status, wait, s) \ {t})
<1> DEFINE S == OnSemaIn(status, wait, s)
<1>1. Lists(waiters[s], S) /\ (waiters[s] # <<>> => limit[s] # 0)
      BY DEF IInv, Waited
<1>2. waiters \in [Semas -> Seq(Tids)] /\ wait \in [Tids -> Waits]
      BY DEF IInv, TypeOK
<1>3. CASE wait[t].reason = "Semaphore" /\ wait[t].arg = s /\ limit[s] # 0
  <2>1. Unlisted(t)[s] = RemoveFirst(waiters[s], t)
        BY <1>2, <1>3 DEF Unlisted
  <2> QED BY <1>1, <2>1, ListsRemove
<1>4. CASE ~(wait[t].reason = "Semaphore" /\ wait[t].arg = s /\ limit[s] # 0)
  <2>1. Unlisted(t)[s] = waiters[s]
        BY <1>2, <1>4 DEF Unlisted
  <2>2. t \notin S
    <3>1. SUFFICES ASSUME t \in S
                   PROVE  FALSE
          OBVIOUS
    <3>2. wait[t].reason = "Semaphore" /\ wait[t].arg = s
          BY <3>1 DEF OnSemaIn
    <3>3. waiters[s] = <<>>
          BY <1>1, <1>4, <3>2
    <3>4. S = {}
          BY <1>1, <3>3, ListsEmpty
    <3> QED BY <3>1, <3>4
  <2>3. S \ {t} = S
        BY <2>2
  <2> QED BY <1>1, <2>1, <2>3
<1> QED BY <1>3, <1>4

LEMMA UnlistedEmpty ==
    ASSUME IInv, NEW t \in Tids, NEW s \in Semas, waiters[s] = <<>>
    PROVE  Unlisted(t)[s] = <<>>
<1>1. Lists(<<>>, OnSemaIn(status, wait, s))
      BY DEF IInv, Waited
<1>2. OnSemaIn(status, wait, s) \ {t} = {}
      BY <1>1, ListsEmpty
<1> QED BY <1>2, UnlistedLists, ListsNobody

\* t, with a final status that is not blocked, leaves the semaphores' queues.
LEMMA LeaveKeeps ==
    ASSUME IInv, NEW t \in Tids, NEW s \in Statuses \ Blocked
    PROVE  Waited([status EXCEPT ![t] = s], [wait EXCEPT ![t] = NoWait], limit, count, Unlisted(t))
<1> DEFINE st == [status EXCEPT ![t] = s]
           wt == [wait EXCEPT ![t] = NoWait]
<1>1. ASSUME NEW x \in Semas
      PROVE  /\ Lists(Unlisted(t)[x], OnSemaIn(st, wt, x))
             /\ Unlisted(t)[x] # <<>> => limit[x] # 0 /\ count[x] = 0
             /\ count[x] <= limit[x]
  <2>1. OnSemaIn(st, wt, x) = OnSemaIn(status, wait, x) \ {t}
        BY DEF OnSemaIn, IInv, TypeOK, NoWait
  <2>2. Lists(Unlisted(t)[x], OnSemaIn(status, wait, x) \ {t})
        BY UnlistedLists
  <2>3. waiters[x] = <<>> => Unlisted(t)[x] = <<>>
        BY UnlistedEmpty
  <2> QED BY <2>1, <2>2, <2>3 DEF IInv, Waited
<1>2. \A u \in Tids : wt[u] # NoWait => st[u] \in Blocked
      BY DEF IInv, TypeOK, Waited
<1> QED BY <1>1, <1>2 DEF Waited

\* makeReady of the blocked threads that w lists.
LEMMA AwakenKeeps ==
    ASSUME IInv, NEW w, NEW S, Lists(w, S), \A t \in S : status[t] \in Blocked
    PROVE  /\ Queued(StatusAfter(w), prio, ReadyAfter(w), cur)
           /\ Counted(StatusAfter(w), suspendCount)
           /\ \A t \in Tids : StatusAfter(w)[t] \in Blocked <=> status[t] \in Blocked /\ t \notin S
<1> DEFINE st == StatusAfter(w)
<1>1. S \subseteq Tids /\ Range(w) = S
      BY RangeOfQueue DEF Lists
<1>2. \A t \in Tids : st[t] = IF t \in S THEN Awake(t) ELSE status[t]
      BY <1>1 DEF StatusAfter
<1> HIDE DEF st
<1>3. ASSUME NEW p \in Priorities
      PROVE  Lists(ReadyAfter(w)[p], {t \in Tids : st[t] = "Ready" /\ prio[t] = p})
  <2> DEFINE R == {t \in Tids : status[t] = "Ready" /\ prio[t] = p}
             N == {t \in Tids : suspendCount[t] = 0 /\ prio[t] = p}
  <2>1. Lists(ready[p], R)
        BY DEF IInv, Queued
  <2>2. R \cap (S \cap N) = {}
        BY DEF Blocked
  <2>3. {t \in Tids : st[t] = "Ready" /\ prio[t] = p} = R \cup (S \cap N)
        BY <1>1, <1>2 DEF Awake, Blocked
  <2>4. ReadyAfter(w)[p] = ready[p] \o Among(w, N)
        BY DEF ReadyAfter
  <2> HIDE DEF R, N
  <2>5. Lists(Among(w, N), S \cap N)
        BY ListsAmong
  <2> QED BY <2>1, <2>2, <2>3, <2>4, <2>5, ListsConcat
<1>4. \A t \in Tids : st[t] = "Running" <=> t = cur
      BY <1>2 DEF Awake, Blocked, IInv, Queued
<1>5. Counted(st, suspendCount)
  <2>1. \A t \in Tids : suspendCount[t] \in Nat /\ (suspendCount[t] > 0 <=> suspendCount[t] # 0)
        BY DEF IInv, TypeOK
  <2>2. \A t \in S : suspendCount[t] > 0 <=> st[t] \in {"Suspended", "WaitingSuspended"}
        BY <1>1, <1>2, <2>1 DEF Awake
  <2>3. \A t \in Tids \ S : suspendCount[t] > 0 <=> st[t] \in {"Suspended", "WaitingSuspended"}
        BY <1>2 DEF IInv, Counted
  <2> QED BY <2>2, <2>3 DEF Counted
<1>6. \A t \in Tids : st[t] \in Blocked <=> status[t] \in Blocked /\ t \notin S
      BY <1>2 DEF Awake, Blocked
<1> QED BY <1>3, <1>4, <1>5, <1>6 DEF Queued, st

\* The waits after makeReady, given semaphore queues without the threads of w.
LEMMA AwakenWaits ==
    ASSUME IInv, NEW w, NEW S, Lists(w, S), \A t \in S : status[t] \in Blocked,
           NEW lim, NEW cnt, NEW ws,
           \A s \in Semas : /\ Lists(ws[s], OnSemaIn(status, wait, s) \ S)
                            /\ ws[s] # <<>> => lim[s] # 0 /\ cnt[s] = 0
                            /\ cnt[s] <= lim[s]
    PROVE  Waited(StatusAfter(w), WaitAfter(w), lim, cnt, ws)
<1>1. S \subseteq Tids /\ Range(w) = S
      BY RangeOfQueue DEF Lists
<1>2. \A t \in Tids : StatusAfter(w)[t] \in Blocked <=> status[t] \in Blocked /\ t \notin S
      BY AwakenKeeps
<1>3. \A t \in Tids : WaitAfter(w)[t] = IF t \in S THEN NoWait ELSE wait[t]
      BY <1>1 DEF WaitAfter
<1>4. \A s \in Semas : OnSemaIn(StatusAfter(w), WaitAfter(w), s) = OnSemaIn(status, wait, s) \ S
      BY <1>2, <1>3 DEF OnSemaIn
<1>5. \A t \in Tids : WaitAfter(w)[t] # NoWait => StatusAfter(w)[t] \in Blocked
      BY <1>2, <1>3 DEF IInv, Waited
<1> QED BY <1>4, <1>5 DEF Waited

(***************************************************************************)
(* System calls.                                                           *)
(***************************************************************************)
\* The goal of each lemma; the types are TypeCorrect's business.
Kept == /\ Queued(status', prio', ready', cur')
        /\ Counted(status', suspendCount')
        /\ Waited(status', wait', limit', count', waiters')

LEMMA Unchanged ==
    ASSUME IInv, UNCHANGED <<status, prio, suspendCount, wait, ready, cur, semaVars>>
    PROVE  Kept
BY DEF IInv, Kept, semaVars

\* A call that hands a good state to Return.
LEMMA CallKeeps ==
    ASSUME TypeOK', NEW st \in [Tids -> Statuses], NEW q \in Queues,
           NEW c \in Tids \cup {NoThread}, NEW rs, NEW isr, Return(st, q, c, rs, isr),
           Queued(st, prio', q, c), Counted(st, suspendCount'),
           Waited(st, wait', limit', count', waiters')
    PROVE  Kept
<1>1. prio' \in [Tids -> Priorities] /\ suspendCount' \in [Tids -> Nat]
      BY DEF TypeOK
<1> QED BY <1>1, ReturnKeeps DEF Kept

\* Statuses that block the same threads leave the semaphores as they are.
LEMMA SameWaits ==
    ASSUME IInv, NEW st, \A t \in Tids : st[t] \in Blocked <=> status[t] \in Blocked
    PROVE  Waited(st, wait, limit, count, waiters)
<1>1. \A s \in Semas : OnSemaIn(st, wait, s) = OnSemaIn(status, wait, s)
      BY DEF OnSemaIn
<1> QED BY <1>1 DEF IInv, Waited

LEMMA Inactive ==
    ASSUME IInv, NEW t \in Tids, status[t] \in {"Absent", "Dormant"}
    PROVE  t # cur /\ suspendCount[t] = 0 /\ wait[t] = NoWait
<1>1. t # cur
      BY DEF IInv, Queued
<1>2. suspendCount[t] \in Nat /\ ~(suspendCount[t] > 0)
      BY DEF IInv, Counted, TypeOK
<1>3. wait[t] = NoWait
      BY DEF IInv, Waited, Blocked
<1> QED BY <1>1, <1>2, <1>3

\* A record is created or erased.
LEMMA RecordKeeps ==
    ASSUME IInv, NEW t \in Tids, NEW s \in {"Absent", "Dormant"},
           status[t] \in {"Absent", "Dormant"}, status' = [status EXCEPT ![t] = s],
           \A u \in Tids \ {t} : prio'[u] = prio[u],
           UNCHANGED <<suspendCount, wait, ready, cur, semaVars>>
    PROVE  Kept
<1> USE DEF IInv
<1>1. \A p \in Priorities : {u \in Tids : status'[u] = "Ready" /\ prio'[u] = p}
                             = {u \in Tids : status[u] = "Ready" /\ prio[u] = p}
      BY DEF TypeOK
<1>2. \A u \in Tids : status'[u] = "Running" <=> status[u] = "Running"
      BY DEF TypeOK
<1>3. Queued(status', prio', ready', cur')
      BY <1>1, <1>2 DEF Queued
<1>4. Counted(status', suspendCount')
      BY DEF Counted, TypeOK
<1>5. \A u \in Tids : status'[u] \in Blocked <=> status[u] \in Blocked
      BY DEF TypeOK, Blocked
<1>6. Waited(status', wait', limit', count', waiters')
      BY <1>5, SameWaits DEF semaVars
<1> QED BY <1>3, <1>4, <1>6 DEF Kept

LEMMA RetireKeeps ==
    ASSUME IInv, NEW t \in Tids, NEW s \in {"Absent", "Dormant"}, Retire(t, s),
           \A u \in Tids \ {t} : prio'[u] = prio[u],
           cur' = (IF t = cur THEN NoThread ELSE cur), UNCHANGED <<limit, count>>
    PROVE  Kept
<1>1. s \in Statuses \ {"Ready", "Running"} /\ s \in Statuses \ Blocked
      BY DEF Statuses, Blocked
<1>2. /\ status' = [status EXCEPT ![t] = s] /\ ready' = Unqueued(t) /\ waiters' = Unlisted(t)
      /\ wait' = [wait EXCEPT ![t] = NoWait] /\ suspendCount' = [suspendCount EXCEPT ![t] = 0]
      BY DEF Retire
<1>3. Queued(status', prio', ready', cur')
      BY <1>1, <1>2, RemoveKeeps
<1>4. Counted(status', suspendCount')
      BY <1>2 DEF IInv, Counted, TypeOK
<1>5. Waited(status', wait', limit', count', waiters')
      BY <1>1, <1>2, LeaveKeeps
<1> QED BY <1>3, <1>4, <1>5 DEF Kept

\* The current thread waits for w.
LEMMA BlockKeeps ==
    ASSUME IInv, cur \in Tids, NEW w, w # NoWait, Block(w),
           UNCHANGED <<prio, suspendCount, ready, limit, count>>,
           \A s \in Semas :
              IF w = [reason |-> "Semaphore", arg |-> s]
              THEN /\ Lists(waiters'[s], OnSemaIn(status, wait, s) \cup {cur})
                   /\ limit[s] # 0 /\ count[s] = 0
              ELSE waiters'[s] = waiters[s]
    PROVE  Kept
<1> DEFINE new == IF suspendCount[cur] = 0 THEN "Waiting" ELSE "WaitingSuspended"
<1> USE DEF IInv
<1>1. /\ status' = [status EXCEPT ![cur] = new]
      /\ wait' = [wait EXCEPT ![cur] = w] /\ cur' = NoThread
      BY DEF Block
<1>2. status[cur] = "Running" /\ suspendCount[cur] = 0
  <2>1. status[cur] = "Running"
        BY DEF Queued
  <2>2. suspendCount[cur] \in Nat /\ ~(suspendCount[cur] > 0)
        BY <2>1 DEF Counted, TypeOK
  <2> QED BY <2>1, <2>2
<1>3. new = "Waiting"
      BY <1>2
<1>4. \A p \in Priorities : {u \in Tids : status'[u] = "Ready" /\ prio'[u] = p}
                             = {u \in Tids : status[u] = "Ready" /\ prio[u] = p}
      BY <1>1, <1>2, <1>3 DEF TypeOK
<1>5. \A u \in Tids : status'[u] = "Running" <=> u = cur'
      BY <1>1, <1>3, NoThreadIsNone DEF TypeOK, Queued
<1>6. Queued(status', prio', ready', cur')
      BY <1>4, <1>5 DEF Queued
<1>7. Counted(status', suspendCount')
      BY <1>1, <1>2, <1>3 DEF Counted, TypeOK
<1>8. \A u \in Tids : status'[u] \in Blocked <=> status[u] \in Blocked \/ u = cur
      BY <1>1, <1>3 DEF TypeOK, Blocked
<1>9. \A u \in Tids : wait'[u] = IF u = cur THEN w ELSE wait[u]
      BY <1>1 DEF TypeOK
<1>10. status[cur] \notin Blocked
       BY <1>2 DEF Blocked
<1>11. ASSUME NEW s \in Semas
       PROVE  /\ Lists(waiters'[s], OnSemaIn(status', wait', s))
              /\ waiters'[s] # <<>> => limit'[s] # 0 /\ count'[s] = 0
              /\ count'[s] <= limit'[s]
  <2>1. CASE w = [reason |-> "Semaphore", arg |-> s]
    <3>1. OnSemaIn(status', wait', s) = OnSemaIn(status, wait, s) \cup {cur}
          BY <1>8, <1>9, <2>1 DEF OnSemaIn
    <3> QED BY <2>1, <3>1 DEF Waited
  <2>2. CASE w # [reason |-> "Semaphore", arg |-> s]
    <3>1. OnSemaIn(status', wait', s) = OnSemaIn(status, wait, s)
          BY <1>8, <1>9, <1>10, <2>2 DEF OnSemaIn
    <3> QED BY <2>2, <3>1 DEF Waited
  <2> QED BY <2>1, <2>2
<1>12. \A u \in Tids : wait'[u] # NoWait => status'[u] \in Blocked
       BY <1>8, <1>9 DEF Waited
<1>13. Waited(status', wait', limit', count', waiters')
       BY <1>11, <1>12 DEF Waited
<1> QED BY <1>6, <1>7, <1>13 DEF Kept

(***************************************************************************)
(* Thread calls.                                                           *)
(***************************************************************************)
LEMMA StartKeeps ==
    ASSUME IInv, TypeOK', NEW t \in Tids, StartThread(t)
    PROVE  Kept
<1> DEFINE st == [status EXCEPT ![t] = "Ready"]
           q == PushBack(ready, prio[t], t)
<1> USE DEF StartThread
<1>1. status[t] = "Dormant" /\ t # cur /\ suspendCount[t] = 0 /\ wait[t] = NoWait
      BY Inactive
<1>2. suspendCount' = suspendCount /\ wait' = wait /\ prio' = prio
      BY <1>1 DEF IInv, TypeOK
<1>3. Queued(st, prio', q, cur)
      BY <1>1, <1>2, EnqueueKeeps
<1>4. Counted(st, suspendCount')
      BY <1>1, <1>2 DEF IInv, Counted, TypeOK
<1>5. Waited(st, wait', limit', count', waiters')
  <2>1. \A u \in Tids : st[u] \in Blocked <=> status[u] \in Blocked
        BY <1>1 DEF Blocked, IInv, TypeOK
  <2> HIDE DEF st
  <2> QED BY <1>2, <2>1, SameWaits DEF semaVars
<1>6. st \in [Tids -> Statuses] /\ q \in Queues /\ cur \in Tids \cup {NoThread}
      BY PushTyped DEF IInv, TypeOK, Statuses, Queues
<1>7. Return(st, q, cur, resched \/ Outranks(t), FALSE)
      OBVIOUS
<1> HIDE DEF st, q, StartThread
<1> QED BY <1>3, <1>4, <1>5, <1>6, <1>7, CallKeeps

LEMMA ExitKeeps ==
    ASSUME IInv, NEW delete, ExitThread(delete)
    PROVE  Kept
<1>1. cur \in Tids /\ cur' = NoThread /\ UNCHANGED <<limit, count>>
      BY DEF ExitThread, InCall, IInv, TypeOK
<1>2. CASE Retire(cur, "Absent") /\ prio' = [prio EXCEPT ![cur] = 0]
  <2>1. \A u \in Tids \ {cur} : prio'[u] = prio[u]
        BY <1>2 DEF IInv, TypeOK
  <2> QED BY <1>1, <1>2, <2>1, RetireKeeps
<1>3. CASE Retire(cur, "Dormant") /\ UNCHANGED prio
      BY <1>1, <1>3, RetireKeeps
<1> QED BY <1>2, <1>3 DEF ExitThread

LEMMA SuspendKeeps ==
    ASSUME IInv, TypeOK', NEW t \in Tids, SuspendThread(t)
    PROVE  Kept
<1> DEFINE s == IF status[t] = "Waiting" THEN "WaitingSuspended"
                ELSE IF status[t] \in {"Running", "Ready"} THEN "Suspended" ELSE status[t]
           st == [status EXCEPT ![t] = s]
           c == IF t = cur THEN NoThread ELSE cur
<1>1. /\ status[t] \notin {"Absent", "Dormant"} /\ suspendCount' = [suspendCount EXCEPT ![t] = @ + 1]
      /\ UNCHANGED <<prio, wait, semaVars>>
      /\ Return(st, Unqueued(t), c, resched \/ t = cur, FALSE)
      BY DEF SuspendThread
<1>2. s \in {"Suspended", "WaitingSuspended"}
      BY <1>1 DEF IInv, TypeOK, Statuses
<1>3. s \in Statuses \ {"Ready", "Running"} /\ (s \in Blocked <=> status[t] \in Blocked)
      BY <1>1, <1>2 DEF Statuses, Blocked, IInv, TypeOK
<1>4. suspendCount[t] \in Nat /\ suspendCount'[t] > 0
      BY <1>1 DEF IInv, TypeOK
<1> HIDE DEF s
<1>5. Queued(st, prio', Unqueued(t), c)
      BY <1>1, <1>3, RemoveKeeps
<1>6. Counted(st, suspendCount')
      BY <1>1, <1>2, <1>4 DEF IInv, Counted, TypeOK
<1>7. Waited(st, wait', limit', count', waiters')
  <2>1. \A u \in Tids : st[u] \in Blocked <=> status[u] \in Blocked
        BY <1>3 DEF IInv, TypeOK
  <2> HIDE DEF st
  <2> QED BY <1>1, <2>1, SameWaits DEF semaVars
<1>8. st \in [Tids -> Statuses] /\ Unqueued(t) \in Queues /\ c \in Tids \cup {NoThread}
      BY <1>3, UnqueuedTyped DEF IInv, TypeOK
<1> HIDE DEF st, c
<1> QED BY <1>1, <1>5, <1>6, <1>7, <1>8, CallKeeps

LEMMA ResumeKeeps ==
    ASSUME IInv, TypeOK', NEW t \in Tids, ResumeThread(t)
    PROVE  Kept
<1> DEFINE released == suspendCount[t] = 1
           runnable == released /\ status[t] = "Suspended"
           s == IF runnable THEN "Ready"
                ELSE IF released /\ status[t] = "WaitingSuspended" THEN "Waiting" ELSE status[t]
           st == [status EXCEPT ![t] = s]
           q == IF runnable THEN PushBack(ready, prio[t], t) ELSE ready
<1>1. /\ suspendCount[t] > 0 /\ suspendCount' = [suspendCount EXCEPT ![t] = @ - 1]
      /\ UNCHANGED <<prio, wait, semaVars>>
      /\ Return(st, q, cur, resched \/ (runnable /\ Outranks(t)), FALSE)
      BY DEF ResumeThread
<1>2. status[t] \in {"Suspended", "WaitingSuspended"}
      BY <1>1 DEF IInv, Counted
<1>3. suspendCount[t] \in Nat /\ suspendCount'[t] = suspendCount[t] - 1
      BY <1>1 DEF IInv, TypeOK
<1>4. s \in Statuses /\ (s \in Blocked <=> status[t] \in Blocked)
      BY <1>2 DEF Statuses, Blocked
<1>5. suspendCount'[t] > 0 <=> s \in {"Suspended", "WaitingSuspended"}
  <2>1. suspendCount'[t] > 0 <=> ~released
        BY <1>1, <1>3
  <2>2. ~released <=> s \in {"Suspended", "WaitingSuspended"}
        BY <1>2
  <2> QED BY <2>1, <2>2
<1>6. Counted(st, suspendCount')
  <2>1. \A u \in Tids \ {t} : suspendCount'[u] = suspendCount[u] /\ st[u] = status[u]
        BY <1>1 DEF IInv, TypeOK
  <2>2. st[t] = s
        BY DEF IInv, TypeOK
  <2> HIDE DEF st, s
  <2> QED BY <1>5, <2>1, <2>2 DEF IInv, Counted
<1>7. Queued(st, prio', q, cur)
  <2>1. CASE runnable
    <3>1. t # cur /\ status[t] # "Ready" /\ s = "Ready" /\ q = PushBack(ready, prio[t], t)
          BY <1>2, <2>1 DEF IInv, Queued
    <3> HIDE DEF s, q
    <3> QED BY <1>1, <3>1, EnqueueKeeps
  <2>2. CASE ~runnable
    <3>1. s \in Blocked \cup {"Suspended"} /\ q = ready
          BY <1>2, <2>2 DEF Blocked
    <3> HIDE DEF s, q
    <3>2. \A p \in Priorities : {u \in Tids : st[u] = "Ready" /\ prio'[u] = p}
                                 = {u \in Tids : status[u] = "Ready" /\ prio[u] = p}
          BY <1>1, <1>2, <3>1 DEF IInv, TypeOK, Blocked
    <3>3. \A u \in Tids : st[u] = "Running" <=> status[u] = "Running"
          BY <1>2, <3>1 DEF IInv, TypeOK, Blocked
    <3> QED BY <3>1, <3>2, <3>3 DEF IInv, Queued
  <2> QED BY <2>1, <2>2
<1> HIDE DEF s
<1>8. Waited(st, wait', limit', count', waiters')
  <2>1. \A u \in Tids : st[u] \in Blocked <=> status[u] \in Blocked
        BY <1>4 DEF IInv, TypeOK
  <2> HIDE DEF st
  <2> QED BY <1>1, <2>1, SameWaits DEF semaVars
<1>9. st \in [Tids -> Statuses] /\ q \in Queues /\ cur \in Tids \cup {NoThread}
      BY <1>4, PushTyped DEF IInv, TypeOK, Queues
<1> HIDE DEF st, q, runnable
<1> QED BY <1>1, <1>6, <1>7, <1>8, <1>9, CallKeeps

\* makeReady of the threads of w as the end of a call.
LEMMA AwakenCall ==
    ASSUME IInv, TypeOK', NEW w, NEW S, Lists(w, S), \A t \in S : status[t] \in Blocked,
           NEW isr, Return(StatusAfter(w), ReadyAfter(w), cur, ReschedAfter(w), isr),
           wait' = WaitAfter(w), UNCHANGED <<prio, suspendCount>>,
           \A s \in Semas : /\ Lists(waiters'[s], OnSemaIn(status, wait, s) \ S)
                            /\ waiters'[s] # <<>> => limit'[s] # 0 /\ count'[s] = 0
                            /\ count'[s] <= limit'[s]
    PROVE  Kept
<1>1. w \in Seq(Tids) /\ TypeOK
      BY DEF Lists, IInv
<1>2. /\ StatusAfter(w) \in [Tids -> Statuses] /\ ReadyAfter(w) \in Queues
      /\ cur \in Tids \cup {NoThread}
      BY <1>1, AwakenedTyped DEF TypeOK
<1>3. Queued(StatusAfter(w), prio', ReadyAfter(w), cur) /\ Counted(StatusAfter(w), suspendCount')
      BY AwakenKeeps
<1>4. Waited(StatusAfter(w), wait', limit', count', waiters')
      BY AwakenWaits
<1> QED BY <1>2, <1>3, <1>4, CallKeeps

\* A call that does nothing but end.
LEMMA EndKeeps ==
    ASSUME IInv, TypeOK', NEW rs, NEW isr, Return(status, ready, cur, rs, isr),
           UNCHANGED <<prio, suspendCount, wait, semaVars>>
    PROVE  Kept
<1>1. status \in [Tids -> Statuses] /\ ready \in Queues /\ cur \in Tids \cup {NoThread}
      BY DEF IInv, TypeOK, Queues
<1>2. /\ Queued(status, prio', ready, cur) /\ Counted(status, suspendCount')
      /\ Waited(status, wait', limit', count', waiters')
      BY DEF IInv, semaVars
<1> QED BY <1>1, <1>2, CallKeeps

LEMMA SleepKeeps ==
    ASSUME IInv, SleepThread
    PROVE  Kept
<1>1. CASE wakeupCount[cur] > 0 /\ UNCHANGED <<status, wait, cur>>
      BY <1>1, Unchanged DEF SleepThread
<1>2. CASE Block([reason |-> "Sleep", arg |-> 0])
  <2>1. cur \in Tids
        BY DEF SleepThread, InCall, IInv, TypeOK
  <2>2. [reason |-> "Sleep", arg |-> 0] # NoWait
        BY DEF NoWait
  <2>3. UNCHANGED <<prio, suspendCount, ready, limit, count, waiters>>
        BY DEF SleepThread, semaVars
  <2>4. \A s : [reason |-> "Sleep", arg |-> 0] # [reason |-> "Semaphore", arg |-> s]
        OBVIOUS
  <2> QED BY <1>2, <2>1, <2>2, <2>3, <2>4, BlockKeeps
<1> QED BY <1>1, <1>2 DEF SleepThread

LEMMA VSyncKeeps ==
    ASSUME IInv, NEW n, WaitVSync(n)
    PROVE  Kept
<1> DEFINE w == [reason |-> "VSync", arg |-> n]
<1>1. cur \in Tids /\ Block(w)
      BY DEF WaitVSync, InCall, IInv, TypeOK
<1>2. w # NoWait
      BY DEF NoWait
<1>3. UNCHANGED <<prio, suspendCount, ready, limit, count, waiters>>
      BY DEF WaitVSync, semaVars
<1>4. \A s : w # [reason |-> "Semaphore", arg |-> s]
      OBVIOUS
<1> HIDE DEF w
<1> QED BY <1>1, <1>2, <1>3, <1>4, BlockKeeps

LEMMA WakeupKeeps ==
    ASSUME IInv, TypeOK', NEW t \in Tids, NEW isr, WakeupThread(t, isr)
    PROVE  Kept
<1>1. UNCHANGED <<prio, suspendCount, semaVars>>
      BY DEF WakeupThread
<1>2. CASE /\ Asleep(t) /\ wait' = WaitAfter(<<t>>)
           /\ Return(StatusAfter(<<t>>), ReadyAfter(<<t>>), cur, ReschedAfter(<<t>>), isr)
  <2>1. status[t] \in Blocked /\ wait[t].reason = "Sleep"
        BY <1>2 DEF Asleep
  <2>2. Lists(<<t>>, {t})
        BY ListsOne
  <2>3. \A s \in Semas : OnSemaIn(status, wait, s) \ {t} = OnSemaIn(status, wait, s)
        BY <2>1 DEF OnSemaIn
  <2>4. \A s \in Semas : /\ Lists(waiters'[s], OnSemaIn(status, wait, s) \ {t})
                         /\ waiters'[s] # <<>> => limit'[s] # 0 /\ count'[s] = 0
                         /\ count'[s] <= limit'[s]
        BY <1>1, <2>3 DEF IInv, Waited, semaVars
  <2> DEFINE w == <<t>>
  <2>5. wait' = WaitAfter(w) /\ Lists(w, {t})
        /\ Return(StatusAfter(w), ReadyAfter(w), cur, ReschedAfter(w), isr)
        BY <1>2, <2>2
  <2> HIDE DEF w
  <2> QED BY <1>1, <2>1, <2>4, <2>5, AwakenCall
<1>3. CASE UNCHANGED wait /\ Return(status, ready, cur, resched, isr)
      BY <1>1, <1>3, EndKeeps
<1> QED BY <1>2, <1>3 DEF WakeupThread

LEMMA ReleaseKeeps ==
    ASSUME IInv, TypeOK', NEW t \in Tids, NEW isr, ReleaseWaitThread(t, isr)
    PROVE  Kept
<1> DEFINE w == <<t>>
<1>1. /\ status[t] \in Blocked /\ waiters' = Unlisted(t) /\ wait' = WaitAfter(w)
      /\ UNCHANGED <<prio, suspendCount, limit, count>>
      /\ Return(StatusAfter(w), ReadyAfter(w), cur, ReschedAfter(w), isr)
      BY DEF ReleaseWaitThread
<1>2. Lists(w, {t})
      BY ListsOne
<1>3. \A s \in Semas : /\ Lists(waiters'[s], OnSemaIn(status, wait, s) \ {t})
                       /\ waiters'[s] # <<>> => limit'[s] # 0 /\ count'[s] = 0
                       /\ count'[s] <= limit'[s]
      BY <1>1, UnlistedLists, UnlistedEmpty DEF IInv, Waited
<1> HIDE DEF w
<1> QED BY <1>1, <1>2, <1>3, AwakenCall

LEMMA PriorityKeeps ==
    ASSUME IInv, TypeOK', NEW t \in Tids, NEW p \in Priorities, NEW isr,
           ChangeThreadPriority(t, p, isr)
    PROVE  Kept
<1>1. prio' = [prio EXCEPT ![t] = p] /\ UNCHANGED <<suspendCount, wait, semaVars>>
      BY DEF ChangeThreadPriority, threadVars
<1>2. status \in [Tids -> Statuses] /\ ready \in Queues /\ cur \in Tids \cup {NoThread}
      BY DEF IInv, TypeOK, Queues
<1>3. Counted(status, suspendCount') /\ Waited(status, wait', limit', count', waiters')
      BY <1>1 DEF IInv, semaVars
<1>4. \A u \in Tids : prio'[u] = IF u = t THEN p ELSE prio[u]
      BY <1>1 DEF IInv, TypeOK
<1>5. CASE status[t] = "Ready"
  <2> DEFINE q == PushBack(Unqueued(t), p, t)
  <2>1. Return(status, q, cur, resched \/ p < prio[cur], isr)
        BY <1>5 DEF ChangeThreadPriority
  <2>2. q \in Queues /\ Unqueued(t) \in Queues
        BY PushTyped, UnqueuedTyped DEF IInv
  <2>3. ASSUME NEW x \in Priorities
        PROVE  Lists(q[x], {u \in Tids : status[u] = "Ready" /\ prio'[u] = x})
    <3> DEFINE R == {u \in Tids \ {t} : status[u] = "Ready" /\ prio[u] = x}
    <3>1. Lists(Unqueued(t)[x], R) /\ t \notin R
          BY UnqueuedLists
    <3>2. CASE x = p
      <4>1. {u \in Tids : status[u] = "Ready" /\ prio'[u] = x} = R \cup {t}
            BY <1>4, <1>5, <3>2
      <4>2. q[x] = Append(Unqueued(t)[x], t)
            BY <2>2, <3>2 DEF PushBack, Queues
      <4>3. Lists(Append(Unqueued(t)[x], t), R \cup {t})
        <5> HIDE DEF R
        <5> QED BY <3>1, ListsAppend
      <4> QED BY <4>1, <4>2, <4>3
    <3>3. CASE x # p
      <4>1. {u \in Tids : status[u] = "Ready" /\ prio'[u] = x} = R
            BY <1>4, <3>3
      <4>2. q[x] = Unqueued(t)[x]
            BY <2>2, <3>3 DEF PushBack, Queues
      <4> QED BY <3>1, <4>1, <4>2
    <3> QED BY <3>2, <3>3
  <2>4. Queued(status, prio', q, cur)
        BY <2>3 DEF IInv, Queued
  <2> HIDE DEF q
  <2> QED BY <1>2, <1>3, <2>1, <2>2, <2>4, CallKeeps
<1>6. CASE status[t] # "Ready"
  <2>1. \A x \in Priorities : {u \in Tids : status[u] = "Ready" /\ prio'[u] = x}
                               = {u \in Tids : status[u] = "Ready" /\ prio[u] = x}
        BY <1>4, <1>6
  <2>2. Queued(status, prio', ready, cur)
        BY <2>1 DEF IInv, Queued
  <2>3. \E rs : Return(status, ready, cur, rs, isr)
        BY <1>6 DEF ChangeThreadPriority
  <2> QED BY <1>2, <1>3, <2>2, <2>3, CallKeeps
<1> QED BY <1>5, <1>6

LEMMA RotateKeeps ==
    ASSUME IInv, TypeOK', NEW p \in Priorities, NEW isr, RotateThreadReadyQueue(p, isr)
    PROVE  Kept
<1> DEFINE q == IF p = 0 THEN prio[cur] ELSE p
<1>1. cur \in Tids /\ UNCHANGED <<prio, suspendCount, wait, semaVars>>
      BY DEF RotateThreadReadyQueue, InCall, IInv, TypeOK, threadVars
<1>2. q \in Priorities /\ ready \in Queues /\ status \in [Tids -> Statuses]
      BY <1>1 DEF IInv, TypeOK, Queues
<1>3. CASE q = prio[cur]
  <2> DEFINE st == [status EXCEPT ![cur] = "Ready"]
             r == PushBack(ready, prio[cur], cur)
  <2>1. Return(st, r, NoThread, TRUE, isr)
        BY <1>3 DEF RotateThreadReadyQueue
  <2>2. status[cur] = "Running" /\ st \in [Tids -> Statuses] /\ r \in Queues
        BY <1>1, <1>2, <1>3, PushTyped DEF IInv, Queued, Statuses
  <2>3. Queued(st, prio', r, NoThread)
        BY <1>1, <2>2, EnqueueKeeps
  <2>4. Counted(st, suspendCount')
        BY <1>1, <2>2 DEF IInv, Counted, TypeOK
  <2>5. Waited(st, wait', limit', count', waiters')
    <3>1. \A u \in Tids : st[u] \in Blocked <=> status[u] \in Blocked
          BY <1>2, <2>2 DEF Blocked
    <3> HIDE DEF st
    <3> QED BY <1>1, <3>1, SameWaits DEF semaVars
  <2> HIDE DEF st, r
  <2> QED BY <2>1, <2>2, <2>3, <2>4, <2>5, CallKeeps
<1>4. CASE q # prio[cur]
  <2> DEFINE r == IF Len(ready[q]) > 1
                  THEN [ready EXCEPT ![q] = Append(Tail(@), Head(@))] ELSE ready
  <2>1. Return(status, r, cur, resched, isr)
        BY <1>4 DEF RotateThreadReadyQueue
  <2>2. ASSUME NEW x \in Priorities
        PROVE  Lists(r[x], {u \in Tids : status[u] = "Ready" /\ prio[u] = x})
    <3> DEFINE S == {u \in Tids : status[u] = "Ready" /\ prio[u] = x}
    <3>1. Lists(ready[x], S)
          BY DEF IInv, Queued
    <3>2. CASE x = q /\ Len(ready[q]) > 1
      <4>1. ready[x] # <<>> /\ r[x] = Append(Tail(ready[x]), Head(ready[x]))
            BY <1>2, <3>2 DEF Queues
      <4> HIDE DEF S, r, q
      <4>2. /\ Head(ready[x]) \in S /\ Head(ready[x]) \in Tids
            /\ Lists(Tail(ready[x]), S \ {Head(ready[x])})
            BY <3>1, <4>1, ListsTail
      <4>3. Lists(Append(Tail(ready[x]), Head(ready[x])), (S \ {Head(ready[x])}) \cup {Head(ready[x])})
            BY <4>2, ListsAppend
      <4>4. (S \ {Head(ready[x])}) \cup {Head(ready[x])} = S
            BY <4>2
      <4>5. Lists(r[x], S)
            BY <4>1, <4>3, <4>4
      <4> QED BY <4>5 DEF S
    <3>3. CASE ~(x = q /\ Len(ready[q]) > 1)
      <4>1. r[x] = ready[x]
            BY <1>2, <3>3 DEF Queues
      <4> QED BY <3>1, <4>1
    <3> QED BY <3>2, <3>3
  <2>3. Queued(status, prio', r, cur)
        BY <1>1, <2>2 DEF IInv, Queued
  <2>4. r \in Queues
    <3>1. \A x \in Priorities : r[x] \in Seq(Tids)
          BY <2>2 DEF Lists
    <3>2. r = [x \in Priorities |-> r[x]]
          BY <1>2 DEF Queues
    <3> HIDE DEF r
    <3> QED BY <3>1, <3>2 DEF Queues
  <2>5. Counted(status, suspendCount') /\ Waited(status, wait', limit', count', waiters')
        BY <1>1 DEF IInv, semaVars
  <2> HIDE DEF r
  <2> QED BY <1>1, <1>2, <2>1, <2>3, <2>4, <2>5, CallKeeps
<1> QED BY <1>3, <1>4

LEMMA RefusedKeeps ==
    ASSUME IInv, TypeOK', RefusedCall
    PROVE  Kept
<1>1. /\ Return(status, ready, cur, resched, FALSE)
      /\ UNCHANGED <<prio, suspendCount, wait, semaVars>>
      BY DEF RefusedCall, threadVars
<1> QED BY <1>1, EndKeeps

LEMMA CreateKeeps ==
    ASSUME IInv, NEW t \in Tids, NEW p, CreateThread(t, p)
    PROVE  Kept
<1>1. /\ status[t] = "Absent" /\ status' = [status EXCEPT ![t] = "Dormant"]
      /\ UNCHANGED <<suspendCount, wait, ready, cur, semaVars>>
      BY DEF CreateThread, threadVars
<1>2. \A u \in Tids \ {t} : prio'[u] = prio[u]
      BY DEF CreateThread, IInv, TypeOK
<1> QED BY <1>1, <1>2, RecordKeeps

LEMMA DeleteKeeps ==
    ASSUME IInv, NEW t \in Tids, DeleteThread(t)
    PROVE  Kept
<1>1. /\ status[t] = "Dormant" /\ status' = [status EXCEPT ![t] = "Absent"]
      /\ UNCHANGED <<suspendCount, wait, ready, cur, semaVars>>
      BY DEF DeleteThread, threadVars
<1>2. \A u \in Tids \ {t} : prio'[u] = prio[u]
      BY DEF DeleteThread, IInv, TypeOK
<1> QED BY <1>1, <1>2, RecordKeeps

LEMMA TerminateKeeps ==
    ASSUME IInv, NEW t \in Tids, TerminateThread(t)
    PROVE  Kept
<1>1. Retire(t, "Dormant") /\ t # cur /\ UNCHANGED <<prio, cur, limit, count>>
      BY DEF TerminateThread
<1> QED BY <1>1, RetireKeeps

LEMMA ThreadCallKeeps ==
    ASSUME IInv, TypeOK', ThreadCall
    PROVE  Kept
<1>1. Threads \subseteq Tids /\ Guests \subseteq Tids
      BY DEF Guests, Tids
<1>2. ASSUME NEW t \in Guests \cup {cur}, InCall PROVE t \in Tids
      BY <1>1, <1>2 DEF InCall, IInv, TypeOK
<1>3. ASSUME NEW t \in Threads, NEW p \in Priorities \ {0}, CreateThread(t, p) PROVE Kept
      BY <1>1, <1>3, CreateKeeps
<1>4. ASSUME NEW t \in Threads, DeleteThread(t) PROVE Kept
      BY <1>1, <1>4, DeleteKeeps
<1>5. ASSUME NEW t \in Guests, StartThread(t) PROVE Kept
      BY <1>1, <1>5, StartKeeps
<1>6. ASSUME NEW t \in Guests, TerminateThread(t) PROVE Kept
      BY <1>1, <1>6, TerminateKeeps
<1>7. ASSUME NEW t \in Guests, ResumeThread(t) PROVE Kept
      BY <1>1, <1>7, ResumeKeeps
<1>8. ASSUME NEW t \in Guests \cup {cur}, SuspendThread(t) PROVE Kept
  <2>1. t \in Tids
        BY <1>2, <1>8 DEF SuspendThread
  <2> QED BY <1>8, <2>1, SuspendKeeps
<1>9. ASSUME NEW t \in Guests \cup {cur}, CancelWakeupThread(t) PROVE Kept
      BY <1>9, Unchanged DEF CancelWakeupThread
<1>10. ASSUME NEW delete \in BOOLEAN, ExitThread(delete) PROVE Kept
       BY <1>10, ExitKeeps
<1>11. ASSUME SleepThread PROVE Kept
       BY <1>11, SleepKeeps
<1>12. ASSUME NEW isr \in BOOLEAN, NEW t \in Guests, WakeupThread(t, isr) PROVE Kept
       BY <1>1, <1>12, WakeupKeeps
<1>13. ASSUME NEW isr \in BOOLEAN, NEW t \in Guests, ReleaseWaitThread(t, isr) PROVE Kept
       BY <1>1, <1>13, ReleaseKeeps
<1>14. ASSUME NEW isr \in BOOLEAN, NEW t \in Guests \cup {cur}, NEW p \in Priorities,
              ChangeThreadPriority(t, p, isr)
       PROVE  Kept
  <2>1. t \in Tids
        BY <1>2, <1>14 DEF ChangeThreadPriority
  <2> QED BY <1>14, <2>1, PriorityKeeps
<1>15. ASSUME NEW isr \in BOOLEAN, NEW p \in Priorities, RotateThreadReadyQueue(p, isr) PROVE Kept
       BY <1>15, RotateKeeps
<1>16. ASSUME NEW n \in 1 .. MaxTicks, WaitVSync(n) PROVE Kept
       BY <1>16, VSyncKeeps
<1>17. ASSUME RefusedCall PROVE Kept
       BY <1>17, RefusedKeeps
<1> QED BY <1>3, <1>4, <1>5, <1>6, <1>7, <1>8, <1>9, <1>10, <1>11, <1>12, <1>13, <1>14,
           <1>15, <1>16, <1>17
        DEF ThreadCall, EndsWaitOf, OtherThreadCall

(***************************************************************************)
(* Semaphore calls.                                                        *)
(***************************************************************************)
\* A call that only changes what the semaphores count.
LEMMA CountKeeps ==
    ASSUME IInv, UNCHANGED <<status, prio, suspendCount, wait, ready, cur, waiters>>,
           \A s \in Semas : /\ waiters[s] # <<>> => limit'[s] # 0 /\ count'[s] = 0
                            /\ count'[s] <= limit'[s]
    PROVE  Kept
<1>1. Waited(status', wait', limit', count', waiters')
      BY DEF IInv, Waited
<1> QED BY <1>1 DEF IInv, Kept

LEMMA CreateSemaKeeps ==
    ASSUME IInv, NEW s \in Semas, NEW max \in 1 .. MaxCount, NEW init \in 0 .. MaxCount,
           CreateSema(s, init, max)
    PROVE  Kept
<1>1. limit[s] = 0 => waiters[s] = <<>>
      BY DEF IInv, Waited
<1>2. /\ limit' = [limit EXCEPT ![s] = max] /\ count' = [count EXCEPT ![s] = init]
      /\ limit[s] = 0 /\ init <= max
      /\ UNCHANGED <<status, prio, suspendCount, wait, ready, cur, waiters>>
      BY DEF CreateSema, threadVars
<1>3. \A x \in Semas : /\ waiters[x] # <<>> => limit'[x] # 0 /\ count'[x] = 0
                       /\ count'[x] <= limit'[x]
      BY <1>1, <1>2 DEF IInv, TypeOK, Waited
<1> QED BY <1>2, <1>3, CountKeeps

LEMMA TakeKeeps ==
    ASSUME IInv, NEW s \in Semas, Available(s), count' = [count EXCEPT ![s] = @ - 1],
           UNCHANGED <<status, prio, suspendCount, wait, ready, cur, waiters, limit>>
    PROVE  Kept
<1>1. waiters[s] = <<>>
      BY DEF IInv, Waited, Available
<1>2. count[s] \in Nat /\ limit[s] \in Nat /\ count[s] <= limit[s]
      BY DEF IInv, TypeOK, Waited
<1>3. \A x \in Semas : count'[x] = IF x = s THEN count[s] - 1 ELSE count[x]
      BY DEF IInv, TypeOK
<1>4. \A x \in Semas : /\ waiters[x] # <<>> => limit'[x] # 0 /\ count'[x] = 0
                       /\ count'[x] <= limit'[x]
      BY <1>1, <1>2, <1>3 DEF IInv, Waited
<1> QED BY <1>4, CountKeeps

LEMMA DeleteSemaKeeps ==
    ASSUME IInv, TypeOK', NEW s \in Semas, NEW isr, DeleteSema(s, isr)
    PROVE  Kept
<1> DEFINE w == waiters[s]
           S == OnSemaIn(status, wait, s)
<1>1. /\ limit' = [limit EXCEPT ![s] = 0] /\ count' = [count EXCEPT ![s] = 0]
      /\ waiters' = [waiters EXCEPT ![s] = <<>>] /\ wait' = WaitAfter(w)
      /\ UNCHANGED <<prio, suspendCount>>
      /\ Return(StatusAfter(w), ReadyAfter(w), cur, ReschedAfter(w), isr)
      BY DEF DeleteSema
<1>2. Lists(w, S) /\ \A t \in S : status[t] \in Blocked
      BY DEF IInv, Waited, OnSemaIn
<1>3. ASSUME NEW x \in Semas
      PROVE  /\ Lists(waiters'[x], OnSemaIn(status, wait, x) \ S)
             /\ waiters'[x] # <<>> => limit'[x] # 0 /\ count'[x] = 0
             /\ count'[x] <= limit'[x]
  <2>1. CASE x = s
    <3>1. waiters'[x] = <<>> /\ count'[x] = 0 /\ limit'[x] = 0
          BY <1>1, <2>1 DEF IInv, TypeOK
    <3>2. OnSemaIn(status, wait, x) \ S = {}
          BY <2>1
    <3>3. Lists(waiters'[x], OnSemaIn(status, wait, x) \ S)
      <4> HIDE DEF S
      <4> QED BY <3>1, <3>2, ListsNothing
    <3> QED BY <3>1, <3>3
  <2>2. CASE x # s
    <3>1. waiters'[x] = waiters[x] /\ count'[x] = count[x] /\ limit'[x] = limit[x]
          BY <1>1, <2>2 DEF IInv, TypeOK
    <3>2. OnSemaIn(status, wait, x) \ S = OnSemaIn(status, wait, x)
          BY <2>2 DEF OnSemaIn
    <3> QED BY <3>1, <3>2 DEF IInv, Waited
  <2> QED BY <2>1, <2>2
<1> HIDE DEF w, S
<1> QED BY <1>1, <1>2, <1>3, AwakenCall

LEMMA SignalKeeps ==
    ASSUME IInv, TypeOK', NEW s \in Semas, NEW isr, SignalSema(s, isr)
    PROVE  Kept
<1>1. UNCHANGED <<prio, suspendCount, limit>> /\ limit[s] # 0
      BY DEF SignalSema
<1>2. CASE waiters[s] # <<>>
  <2> DEFINE h == Head(waiters[s])
             w == <<h>>
  <2>1. /\ waiters' = [waiters EXCEPT ![s] = Tail(@)] /\ UNCHANGED count
        /\ wait' = WaitAfter(w)
        /\ Return(StatusAfter(w), ReadyAfter(w), cur, ReschedAfter(w), isr)
        BY <1>2 DEF SignalSema
  <2>2. Lists(waiters[s], OnSemaIn(status, wait, s))
        BY DEF IInv, Waited
  <2>3. /\ h \in OnSemaIn(status, wait, s) /\ h \in Tids
        /\ Lists(Tail(waiters[s]), OnSemaIn(status, wait, s) \ {h})
        BY <1>2, <2>2, ListsTail
  <2> HIDE DEF h
  <2>4. Lists(w, {h})
        BY <2>3, ListsOne
  <2>5. status[h] \in Blocked /\ wait[h] = [reason |-> "Semaphore", arg |-> s]
        BY <2>3 DEF OnSemaIn
  <2>6. ASSUME NEW x \in Semas
        PROVE  /\ Lists(waiters'[x], OnSemaIn(status, wait, x) \ {h})
               /\ waiters'[x] # <<>> => limit'[x] # 0 /\ count'[x] = 0
               /\ count'[x] <= limit'[x]
    <3>1. CASE x = s
      <4>1. waiters'[x] = Tail(waiters[s])
            BY <2>1, <3>1 DEF IInv, TypeOK
      <4> QED BY <1>1, <1>2, <2>1, <2>3, <3>1, <4>1 DEF IInv, Waited
    <3>2. CASE x # s
      <4>1. waiters'[x] = waiters[x]
            BY <2>1, <3>2 DEF IInv, TypeOK
      <4>2. [reason |-> "Semaphore", arg |-> s] # [reason |-> "Semaphore", arg |-> x]
            BY <3>2
      <4>3. OnSemaIn(status, wait, x) \ {h} = OnSemaIn(status, wait, x)
            BY <2>5, <4>2 DEF OnSemaIn
      <4> QED BY <1>1, <2>1, <4>1, <4>3 DEF IInv, Waited
    <3> QED BY <3>1, <3>2
  <2> HIDE DEF w
  <2> QED BY <1>1, <2>1, <2>4, <2>5, <2>6, AwakenCall
<1>3. CASE /\ waiters[s] = <<>> /\ count[s] < limit[s]
           /\ count' = [count EXCEPT ![s] = @ + 1] /\ UNCHANGED <<waiters, wait>>
           /\ Return(status, ready, cur, resched, isr)
  <2>1. count[s] \in Nat /\ limit[s] \in Nat
        BY DEF IInv, TypeOK
  <2>2. \A x \in Semas : count'[x] = IF x = s THEN count[s] + 1 ELSE count[x]
        BY <1>3 DEF IInv, TypeOK
  <2>3. \A x \in Semas : /\ waiters[x] # <<>> => limit[x] # 0 /\ count'[x] = 0
                         /\ count'[x] <= limit[x]
        BY <1>3, <2>1, <2>2 DEF IInv, Waited
  <2>4. Waited(status, wait', limit', count', waiters')
        BY <1>1, <1>3, <2>3 DEF IInv, Waited
  <2>5. Queued(status, prio', ready, cur) /\ Counted(status, suspendCount')
        BY <1>1 DEF IInv
  <2>6. status \in [Tids -> Statuses] /\ ready \in Queues /\ cur \in Tids \cup {NoThread}
        BY DEF IInv, TypeOK, Queues
  <2> QED BY <1>3, <2>4, <2>5, <2>6, CallKeeps
<1> QED BY <1>2, <1>3 DEF SignalSema

LEMMA WaitKeeps ==
    ASSUME IInv, NEW s \in Semas, WaitSema(s)
    PROVE  Kept
<1>1. /\ limit[s] # 0 /\ cur \in Tids
      /\ UNCHANGED <<prio, suspendCount, ready, limit>>
      BY DEF WaitSema, InCall, IInv, TypeOK
<1>2. CASE /\ Available(s) /\ count' = [count EXCEPT ![s] = @ - 1]
           /\ UNCHANGED <<status, wait, cur, exec, phase, waiters>>
      BY <1>1, <1>2, TakeKeeps
<1>3. CASE /\ ~Available(s) /\ waiters' = [waiters EXCEPT ![s] = Append(@, cur)]
           /\ Block([reason |-> "Semaphore", arg |-> s]) /\ UNCHANGED count
  <2> DEFINE w == [reason |-> "Semaphore", arg |-> s]
  <2>1. count[s] \in Nat /\ ~(count[s] > 0)
        BY <1>1, <1>3 DEF Available, IInv, TypeOK
  <2>2. count[s] = 0 /\ w # NoWait
        BY <2>1 DEF NoWait
  <2>3. status[cur] = "Running"
        BY <1>1 DEF IInv, Queued
  <2>4. cur \notin OnSemaIn(status, wait, s) /\ Lists(waiters[s], OnSemaIn(status, wait, s))
        BY <2>3 DEF OnSemaIn, Blocked, IInv, Waited
  <2>5. Lists(Append(waiters[s], cur), OnSemaIn(status, wait, s) \cup {cur})
        BY <1>1, <2>4, ListsAppend
  <2>6. ASSUME NEW x \in Semas
        PROVE  IF w = [reason |-> "Semaphore", arg |-> x]
               THEN /\ Lists(waiters'[x], OnSemaIn(status, wait, x) \cup {cur})
                    /\ limit[x] # 0 /\ count[x] = 0
               ELSE waiters'[x] = waiters[x]
    <3>1. w = [reason |-> "Semaphore", arg |-> x] <=> x = s
      <4>1. w.arg = s /\ [reason |-> "Semaphore", arg |-> x].arg = x
            OBVIOUS
      <4> QED BY <4>1
    <3>2. waiters'[x] = IF x = s THEN Append(waiters[s], cur) ELSE waiters[x]
          BY <1>3 DEF IInv, TypeOK
    <3> HIDE DEF w
    <3> QED BY <1>1, <2>2, <2>5, <3>1, <3>2
  <2>7. Block(w)
        BY <1>3
  <2> HIDE DEF w
  <2> QED BY <1>1, <1>3, <2>2, <2>6, <2>7, BlockKeeps
<1> QED BY <1>2, <1>3 DEF WaitSema

LEMMA SemaCallKeeps ==
    ASSUME IInv, TypeOK', SemaCall
    PROVE  Kept
<1>1. PICK s \in Semas :
         \/ \E max \in 1 .. MaxCount, init \in 0 .. MaxCount : CreateSema(s, init, max)
         \/ \E isr \in BOOLEAN : DeleteSema(s, isr) \/ SignalSema(s, isr)
         \/ PollSema(s)
         \/ WaitSema(s)
      BY DEF SemaCall
<1>2. ASSUME NEW max \in 1 .. MaxCount, NEW init \in 0 .. MaxCount, CreateSema(s, init, max)
      PROVE  Kept
      BY <1>2, CreateSemaKeeps
<1>3. ASSUME NEW isr \in BOOLEAN, DeleteSema(s, isr) \/ SignalSema(s, isr) PROVE Kept
      BY <1>3, DeleteSemaKeeps, SignalKeeps
<1>4. CASE PollSema(s)
      BY <1>4, TakeKeeps DEF PollSema, threadVars
<1>5. CASE WaitSema(s)
      BY <1>5, WaitKeeps
<1> QED BY <1>1, <1>2, <1>3, <1>4, <1>5

(***************************************************************************)
(* The dispatch loop.                                                      *)
(***************************************************************************)
LEMMA VBlankKeeps ==
    ASSUME IInv, NEW h, VBlank(h)
    PROVE  Kept
<1> DEFINE onVSync == {t \in Tids : status[t] \in Blocked /\ wait[t].reason = "VSync"}
           due == {t \in onVSync : wait[t].arg = 1}
           wt == [t \in Tids |->
                    IF t \in due THEN NoWait
                    ELSE IF t \in onVSync THEN [wait[t] EXCEPT !.arg = @ - 1] ELSE wait[t]]
<1>1. /\ wait' = wt /\ UNCHANGED <<prio, suspendCount, cur, semaVars>>
      /\ \E w \in InIdOrder(due) : status' = StatusAfter(w) /\ ready' = ReadyAfter(w)
      BY DEF VBlank
<1>2. PICK w \in InIdOrder(due) : status' = StatusAfter(w) /\ ready' = ReadyAfter(w)
      BY <1>1
<1>3. due \in SUBSET Tids /\ \A t \in due : status[t] \in Blocked
      OBVIOUS
<1>4. \A t \in Tids : wt[t] # NoWait => wait[t] # NoWait /\ t \notin due
  <2>1. ASSUME NEW t \in onVSync PROVE wait[t] # NoWait
        BY DEF NoWait
  <2> QED BY <2>1
<1>5. \A s \in Semas, t \in Tids :
         wt[t] = [reason |-> "Semaphore", arg |-> s]
           <=> wait[t] = [reason |-> "Semaphore", arg |-> s] /\ t \notin onVSync
  <2>1. ASSUME NEW s \in Semas, NEW t \in onVSync
        PROVE  wt[t] # [reason |-> "Semaphore", arg |-> s]
    <3>1. wait[t] \in Waits /\ wait[t].reason = "VSync"
          BY DEF IInv, TypeOK
    <3>2. wt[t].reason \in {"None", "VSync"}
          BY <3>1 DEF Waits, NoWait
    <3> QED BY <3>2
  <2>2. \A t \in Tids \ onVSync : wt[t] = wait[t]
        OBVIOUS
  <2> HIDE DEF wt
  <2> QED BY <2>1, <2>2
<1>6. \A s \in Semas, t \in onVSync : wait[t] # [reason |-> "Semaphore", arg |-> s]
      OBVIOUS
<1>7. due \subseteq onVSync
      OBVIOUS
<1> HIDE DEF due, wt, onVSync
<1>8. Lists(w, due)
      BY <1>3, InIdOrderTyped DEF Lists
<1>9. /\ Queued(status', prio', ready', cur') /\ Counted(status', suspendCount')
      /\ \A t \in Tids : status'[t] \in Blocked <=> status[t] \in Blocked /\ t \notin due
      BY <1>1, <1>2, <1>3, <1>8, AwakenKeeps
<1>10. \A s \in Semas : OnSemaIn(status', wait', s) = OnSemaIn(status, wait, s)
       BY <1>1, <1>5, <1>6, <1>7, <1>9 DEF OnSemaIn
<1>11. \A t \in Tids : wait'[t] # NoWait => status'[t] \in Blocked
       BY <1>1, <1>4, <1>9 DEF IInv, Waited
<1>12. Waited(status', wait', limit', count', waiters')
       BY <1>1, <1>10, <1>11 DEF IInv, Waited, semaVars
<1> QED BY <1>9, <1>12 DEF Kept

LEMMA PreemptionKeeps ==
    ASSUME IInv, ApplyPendingPreemption
    PROVE  Kept
<1>1. UNCHANGED <<prio, suspendCount, wait, semaVars>>
      BY DEF ApplyPendingPreemption, threadVars
<1>2. CASE /\ cur # NoThread /\ status' = [status EXCEPT ![cur] = "Ready"]
           /\ ready' = IF sliceExpired THEN PushBack(ready, prio[cur], cur)
                                       ELSE PushFront(ready, prio[cur], cur)
           /\ cur' = NoThread
  <2>1. cur \in Tids /\ status[cur] = "Running"
        BY <1>2 DEF IInv, TypeOK, Queued
  <2>2. Queued(status', prio', ready', cur')
        BY <1>1, <1>2, <2>1, EnqueueKeeps
  <2>3. Counted(status', suspendCount')
        BY <1>1, <1>2, <2>1 DEF IInv, Counted, TypeOK
  <2>4. \A t \in Tids : status'[t] \in Blocked <=> status[t] \in Blocked
        BY <1>2, <2>1 DEF IInv, TypeOK, Blocked
  <2>5. Waited(status', wait', limit', count', waiters')
        BY <1>1, <2>4, SameWaits DEF semaVars
  <2> QED BY <2>2, <2>3, <2>5 DEF Kept
<1>3. CASE UNCHANGED <<status, ready, cur>>
      BY <1>1, <1>3, Unchanged
<1> QED BY <1>2, <1>3 DEF ApplyPendingPreemption

\* A thread that is neither blocked nor suspended starts to run.
LEMMA RunningKeeps ==
    ASSUME IInv, NEW t \in Tids, status[t] \in {"Ready", "Dormant", "Absent"},
           status' = [status EXCEPT ![t] = "Running"],
           UNCHANGED <<suspendCount, wait, semaVars>>
    PROVE  Counted(status', suspendCount') /\ Waited(status', wait', limit', count', waiters')
<1>1. Counted(status', suspendCount')
      BY DEF IInv, Counted, TypeOK
<1>2. \A u \in Tids : status'[u] \in Blocked <=> status[u] \in Blocked
      BY DEF IInv, TypeOK, Blocked
<1> QED BY <1>1, <1>2, SameWaits DEF semaVars

LEMMA SelectKeeps ==
    ASSUME IInv, SelectReady
    PROVE  Kept
<1>1. PICK p \in Priorities :
         /\ ready[p] # <<>>
         /\ status' = [status EXCEPT ![Head(ready[p])] = "Running"]
         /\ cur' = Head(ready[p]) /\ ready' = [ready EXCEPT ![p] = Tail(@)]
      BY DEF SelectReady
<1>2. cur = NoThread /\ UNCHANGED <<prio, suspendCount, wait, semaVars>>
      BY DEF SelectReady, threadVars
<1> DEFINE h == Head(ready[p])
           S == {t \in Tids : status[t] = "Ready" /\ prio[t] = p}
<1>3. Lists(ready[p], S)
      BY DEF IInv, Queued
<1>4. h \in S /\ h \in Tids /\ Lists(Tail(ready[p]), S \ {h})
  <2> HIDE DEF S
  <2> QED BY <1>1, <1>3, ListsTail
<1>5. status[h] = "Ready" /\ prio[h] = p
      BY <1>4
<1>6. status' = [status EXCEPT ![h] = "Running"] /\ cur' = h
      BY <1>1
<1>7. Counted(status', suspendCount') /\ Waited(status', wait', limit', count', waiters')
      BY <1>2, <1>4, <1>5, <1>6, RunningKeeps
<1> HIDE DEF h
<1>8. ASSUME NEW x \in Priorities
      PROVE  Lists(ready'[x], {t \in Tids : status'[t] = "Ready" /\ prio'[t] = x})
  <2>1. CASE x = p
    <3>1. {t \in Tids : status'[t] = "Ready" /\ prio'[t] = x} = S \ {h}
          BY <1>2, <1>6, <2>1 DEF IInv, TypeOK
    <3>2. ready'[x] = Tail(ready[p])
          BY <1>1, <2>1 DEF IInv, TypeOK
    <3> QED BY <1>4, <3>1, <3>2
  <2>2. CASE x # p
    <3>1. {t \in Tids : status'[t] = "Ready" /\ prio'[t] = x}
            = {t \in Tids : status[t] = "Ready" /\ prio[t] = x}
          BY <1>2, <1>5, <1>6, <2>2 DEF IInv, TypeOK
    <3>2. ready'[x] = ready[x]
          BY <1>1, <2>2 DEF IInv, TypeOK
    <3> QED BY <3>1, <3>2 DEF IInv, Queued
  <2> QED BY <2>1, <2>2
<1>9. \A t \in Tids : status'[t] = "Running" <=> t = cur'
      BY <1>2, <1>4, <1>6, NoThreadIsNone DEF IInv, Queued, TypeOK
<1> QED BY <1>7, <1>8, <1>9 DEF Kept, Queued

LEMMA AcquireKeeps ==
    ASSUME IInv, NEW d \in Dispatchers, AcquireDispatcher(d)
    PROVE  Kept
<1>1. /\ d \in Tids /\ cur = NoThread /\ cur' = d
      /\ status[d] \in {"Dormant", "Absent"} /\ status' = [status EXCEPT ![d] = "Running"]
      /\ UNCHANGED <<prio, suspendCount, wait, ready, semaVars>>
      BY DEF AcquireDispatcher, Tids
<1>2. Counted(status', suspendCount') /\ Waited(status', wait', limit', count', waiters')
      BY <1>1, RunningKeeps
<1>3. \A p \in Priorities : {t \in Tids : status'[t] = "Ready" /\ prio'[t] = p}
                             = {t \in Tids : status[t] = "Ready" /\ prio[t] = p}
      BY <1>1 DEF IInv, TypeOK
<1>4. \A t \in Tids : status'[t] = "Running" <=> t = cur'
      BY <1>1, NoThreadIsNone DEF IInv, Queued, TypeOK
<1>5. Queued(status', prio', ready', cur')
      BY <1>1, <1>3, <1>4 DEF IInv, Queued
<1> QED BY <1>2, <1>5 DEF Kept

LEMMA RetireCurrentKeeps ==
    ASSUME IInv, cur # NoThread, RetireCurrent
    PROVE  Kept
<1>1. cur \in Tids
      BY DEF IInv, TypeOK
<1>2. Retire(cur, "Dormant") /\ cur' = NoThread /\ UNCHANGED <<prio, limit, count>>
      BY DEF RetireCurrent
<1> QED BY <1>1, <1>2, RetireKeeps

LEMMA LoopStepKeeps ==
    ASSUME IInv, LoopStep
    PROVE  Kept
<1>1. ASSUME NEW h \in VBlankWork, VBlank(h) PROVE Kept
      BY <1>1, VBlankKeeps
<1>2. ASSUME NEW k \in Kinds, OtherEvent(k) PROVE Kept
      BY <1>2, Unchanged DEF OtherEvent, queueVars, threadVars
<1>3. CASE ApplyPendingPreemption
      BY <1>3, PreemptionKeeps
<1>4. CASE SelectReady
      BY <1>4, SelectKeeps
<1>5. ASSUME NEW d \in Dispatchers, AcquireDispatcher(d) PROVE Kept
      BY <1>5, AcquireKeeps
<1>6. CASE Idle
      BY <1>6, Unchanged DEF Idle, queueVars, threadVars
<1>7. CASE PopFrame
      BY <1>7, Unchanged DEF PopFrame, queueVars
<1>8. CASE ThreadReturns
      BY <1>8, RetireCurrentKeeps DEF ThreadReturns, Selected
<1>9. CASE PushInvocation
      BY <1>9, Unchanged DEF PushInvocation, queueVars
<1>10. CASE MissingFunction
  <2>1. CASE RetireCurrent
        BY <1>10, <2>1, RetireCurrentKeeps DEF MissingFunction, Runnable, Selected
  <2>2. CASE UNCHANGED <<queueVars, prio, suspendCount, wait, semaVars>>
        BY <2>2, Unchanged DEF queueVars
  <2> QED BY <1>10, <2>1, <2>2 DEF MissingFunction
<1>11. CASE DispatchCheckpoint
       BY <1>11, Unchanged DEF DispatchCheckpoint, threadVars
<1>12. CASE EnterGuest
       BY <1>12, Unchanged DEF EnterGuest, queueVars, threadVars
<1> QED BY <1>1, <1>2, <1>3, <1>4, <1>5, <1>6, <1>7, <1>8, <1>9, <1>10, <1>11, <1>12 DEF LoopStep

LEMMA GuestStepKeeps ==
    ASSUME IInv, TypeOK', GuestStep
    PROVE  Kept
<1>1. CASE GuestReturns
      BY <1>1, Unchanged DEF GuestReturns, queueVars
<1>2. CASE GuestCheckpoint
      BY <1>2, Unchanged DEF GuestCheckpoint, queueVars, threadVars
<1>3. CASE SliceExpires
      BY <1>3, Unchanged DEF SliceExpires, threadVars
<1> QED BY <1>1, <1>2, <1>3, ThreadCallKeeps, SemaCallKeeps DEF GuestStep

(***************************************************************************)
(* The three invariants.                                                   *)
(***************************************************************************)
LEMMA InitGood == Init => IInv
<1> SUFFICES ASSUME Init PROVE IInv
    OBVIOUS
<1>1. Main \in Tids /\ NoThread \notin Tids /\ TypeOK
      BY NoThreadIsNone, TypeInit
<1>2. ASSUME NEW p \in Priorities
      PROVE  Lists(ready[p], {t \in Tids : status[t] = "Ready" /\ prio[t] = p})
  <2>1. CASE p = 0
    <3>1. ready[p] = <<Main>> /\ {t \in Tids : status[t] = "Ready" /\ prio[t] = p} = {Main}
          BY <1>1, <2>1 DEF Init
    <3> QED BY <1>1, <3>1, ListsOne
  <2>2. CASE p # 0
    <3>1. ready[p] = <<>> /\ {t \in Tids : status[t] = "Ready" /\ prio[t] = p} = {}
          BY <2>2 DEF Init
    <3> QED BY <3>1, ListsNothing
  <2> QED BY <2>1, <2>2
<1>3. Queued(status, prio, ready, cur)
      BY <1>1, <1>2 DEF Init, Queued
<1>4. Counted(status, suspendCount)
      BY DEF Init, Counted
<1>5. ASSUME NEW s \in Semas
      PROVE  /\ Lists(waiters[s], OnSemaIn(status, wait, s))
             /\ waiters[s] = <<>> /\ count[s] <= limit[s]
  <2>1. OnSemaIn(status, wait, s) = {}
        BY DEF OnSemaIn, Init, Blocked
  <2>2. waiters[s] = <<>> /\ count[s] = 0 /\ limit[s] = 0
        BY DEF Init
  <2> QED BY <2>1, <2>2, ListsNothing
<1>6. \A t \in Tids : wait[t] = NoWait
      BY DEF Init
<1>7. Waited(status, wait, limit, count, waiters)
      BY <1>5, <1>6 DEF Waited
<1> QED BY <1>1, <1>3, <1>4, <1>7 DEF IInv

LEMMA NextGood == IInv /\ [Next]_vars => IInv'
<1> SUFFICES ASSUME IInv, [Next]_vars PROVE IInv'
    OBVIOUS
<1>1. CASE Next
  <2>1. TypeOK'
        BY <1>1, TypeGuestStep, TypeLoopStep DEF Next, IInv
  <2>2. Kept
        BY <1>1, <2>1, GuestStepKeeps, LoopStepKeeps DEF Next
  <2> QED BY <2>1, <2>2 DEF IInv, Kept
<1>2. CASE UNCHANGED vars
      BY <1>2 DEF vars, IInv, TypeOK
<1> QED BY <1>1, <1>2

\* The inductive invariant holds throughout: types, queues, suspensions and
\* semaphores together.
THEOREM Safety == Spec => []IInv
BY InitGood, NextGood, PTL DEF Spec

\* makeReady, removeReady, selectReady and the preemption paths never lose a
\* ready thread, never queue one twice or under a stale priority, and never
\* leave a second thread Running, however many threads and priorities exist.
THEOREM ReadyQueues == Spec => []ReadyQueuesExact
<1>1. IInv => ReadyQueuesExact
      BY Parts
<1> QED BY <1>1, Safety, PTL

\* SuspendThread and ResumeThread nest: a thread is in a suspended status
\* exactly while its suspendCount is positive, whatever wakes it meanwhile.
THEOREM Suspensions == Spec => []SuspensionExact
<1>1. IInv => SuspensionExact
      BY Parts
<1> QED BY <1>1, Safety, PTL

\* A semaphore's waiters are exactly the threads blocked on it, and there are
\* none while a count could be taken, through every way a wait can end
\* (signal, delete, release, terminate) and any number of threads.
THEOREM Semaphores == Spec => []SemaphoresExact
<1>1. IInv => SemaphoresExact
      BY Parts
<1> QED BY <1>1, Safety, PTL

-----------------------------------------------------------------------------
(***************************************************************************)
(* What EeScheduler promises to the guest, for every set of threads,       *)
(* dispatchers and semaphores and every bound: its semaphores are FIFO     *)
(* semaphores, its priorities are strict, a preempted thread keeps its     *)
(* turn.  The proofs rest on the inductive invariant above.                *)
(***************************************************************************)
HIDE DEF NoThread, Main

(***************************************************************************)
(* The semaphores implement FifoSemaphore, with waiters for its queue and  *)
(* the thread records for who is blocked: every step is the step of the    *)
(* abstract specification that its call asks for, or leaves it alone.      *)
(* What the records say of the waiters follows, before and after a step,   *)
(* from the invariant: they are the threads in the queues.                 *)
(***************************************************************************)
Listed == \A s \in Semas : waiters[s] \in Seq(Tids) /\ IsInjective(waiters[s])

LEMMA BlockedAreListed ==
    ASSUME IInv, IInv'
    PROVE  /\ Listed
           /\ BlockedOn = [s \in Semas |-> Range(waiters[s])]
           /\ BlockedOn' = [s \in Semas |-> Range(waiters'[s])]
<1>1. Listed /\ \A s \in Semas : OnSema(s) = Range(waiters[s])
      BY DEF IInv, Waited, Lists, OnSemaIn, OnSema, Listed
<1>2. \A s \in Semas : OnSema(s)' = Range(waiters'[s])
      BY DEF IInv, Waited, Lists, OnSemaIn, OnSema
<1> QED BY <1>1, <1>2 DEF BlockedOn

LEMMA SameWaiters ==
    ASSUME IInv, IInv', UNCHANGED waiters
    PROVE  UNCHANGED BlockedOn
BY BlockedAreListed

\* A thread is listed at most once, and only where its record says it waits.
LEMMA ListedWaits ==
    ASSUME IInv, NEW t \in Tids, NEW s \in Semas, t \in Range(waiters[s])
    PROVE  /\ status[t] \in Blocked /\ limit[s] # 0
           /\ wait[t] = [reason |-> "Semaphore", arg |-> s]
<1>1. t \in OnSemaIn(status, wait, s) /\ waiters[s] # <<>>
      BY DEF IInv, Waited, Lists, Range
<1> QED BY <1>1 DEF IInv, Waited, OnSemaIn

\* The current thread runs, so it waits for nothing.
LEMMA CurrentUnlisted ==
    ASSUME IInv, cur \in Tids
    PROVE  /\ \A s \in Semas : cur \notin Range(waiters[s])
           /\ wait[cur] = NoWait /\ Unlisted(cur) = waiters
<1>1. status[cur] \notin Blocked
      BY DEF IInv, Queued, Blocked
<1>2. \A s \in Semas : cur \notin Range(waiters[s])
      BY <1>1, ListedWaits
<1>3. wait[cur] = NoWait
      BY <1>1 DEF IInv, Waited
<1> QED BY <1>2, <1>3 DEF Unlisted, NoWait

LEMMA SignalContract ==
    ASSUME IInv, IInv', NEW s \in Semas, NEW isr \in BOOLEAN, SignalSema(s, isr),
           Made("signal", <<s>>)
    PROVE  Contract!Signal(s)
<1>1. Contract!Made("signal", <<s>>)
      BY DEF Made, Contract!Made
<1>2. CASE waiters[s] = <<>>
  <2>1. UNCHANGED BlockedOn
        BY <1>2, SameWaiters DEF SignalSema
  <2> QED BY <1>1, <1>2, <2>1 DEF SignalSema, Contract!Signal, Contract!Count
<1>3. CASE waiters[s] # <<>>
  <2> DEFINE q == waiters[s]
  <2>1. /\ waiters' = [waiters EXCEPT ![s] = Tail(q)]
        /\ UNCHANGED <<limit, count>>
        BY <1>3 DEF SignalSema
  <2>2. Range(Tail(q)) = Range(q) \ {Head(q)}
        BY <1>3, BlockedAreListed, TailFacts DEF Listed
  <2>3. waiters \in [Semas -> Seq(Tids)]
        BY DEF IInv, TypeOK
  <2>4. BlockedOn' = [BlockedOn EXCEPT ![s] = @ \ {Head(q)}]
        BY <2>1, <2>2, <2>3, BlockedAreListed
  <2> QED BY <1>1, <1>3, <2>1, <2>4 DEF Contract!Signal, Contract!HandOver
<1> QED BY <1>2, <1>3

LEMMA DeleteContract ==
    ASSUME IInv, IInv', NEW s \in Semas, NEW isr \in BOOLEAN, DeleteSema(s, isr),
           Made("delete", <<s>>)
    PROVE  Contract!Delete(s)
<1>1. waiters' = [waiters EXCEPT ![s] = <<>>] /\ waiters \in [Semas -> Seq(Tids)]
      BY DEF DeleteSema, IInv, TypeOK
<1>2. Range(<<>>) = {}
      BY DEF Range
<1>3. BlockedOn' = [BlockedOn EXCEPT ![s] = {}]
      BY <1>1, <1>2, BlockedAreListed
<1> QED BY <1>1, <1>3 DEF DeleteSema, Made, Contract!Made, Contract!Delete

LEMMA TakeContract ==
    ASSUME IInv, IInv', NEW s \in Semas, Available(s),
           count' = [count EXCEPT ![s] = @ - 1], UNCHANGED <<limit, waiters>>
    PROVE  Contract!Take(s)
<1>1. limit[s] # 0 /\ count[s] > 0 /\ waiters[s] = <<>>
      BY DEF Available, IInv, Waited
<1> QED BY <1>1, SameWaiters DEF Contract!Take

LEMMA WaitContract ==
    ASSUME IInv, IInv', NEW s \in Semas, WaitSema(s), Made("wait", <<s, cur>>)
    PROVE  \E c \in Tids : Contract!Wait(s, c)
<1>1. cur \in Tids /\ Contract!Made("wait", <<s, cur>>)
      BY DEF WaitSema, InCall, IInv, TypeOK, Made, Contract!Made
<1>2. CASE Available(s)
      BY <1>1, <1>2, TakeContract DEF WaitSema, Contract!Wait
<1>3. CASE ~Available(s)
  <2>1. /\ limit[s] # 0 /\ waiters' = [waiters EXCEPT ![s] = Append(@, cur)]
        /\ UNCHANGED <<limit, count>>
        BY <1>3 DEF WaitSema
  <2>2. count[s] = 0 /\ waiters \in [Semas -> Seq(Tids)]
        BY <1>3, <2>1 DEF Available, IInv, TypeOK
  <2>3. \A x \in Semas : cur \notin Contract!Range(waiters[x])
        BY <1>1, CurrentUnlisted DEF Range, Contract!Range
  <2>4. Range(Append(waiters[s], cur)) = Range(waiters[s]) \cup {cur}
        BY <1>1, <2>2, AppendFacts
  <2>5. BlockedOn' = [BlockedOn EXCEPT ![s] = @ \cup {cur}]
        BY <2>1, <2>2, <2>4, BlockedAreListed
  <2> QED BY <1>1, <2>1, <2>2, <2>3, <2>5 DEF Contract!Wait, Contract!QueueUp
<1> QED BY <1>2, <1>3

LEMMA SemaCallContract ==
    ASSUME IInv, IInv', NEW s \in Semas, SemaCallMade(s)
    PROVE  Contract!Next
<1>1. SUFFICES \/ Contract!Create(s) \/ Contract!Delete(s) \/ Contract!Poll(s)
               \/ Contract!Signal(s) \/ \E c \in Tids : Contract!Wait(s, c)
      BY DEF Contract!Next
<1>2. ASSUME NEW max \in 1 .. MaxCount, NEW init \in 0 .. MaxCount, CreateSema(s, init, max),
             Made("create", <<s>>)
      PROVE  Contract!Create(s)
  <2>1. max \in 0 .. MaxCount /\ max # 0
        BY BoundsAssumption
  <2>2. UNCHANGED BlockedOn
        BY <1>2, SameWaiters DEF CreateSema
  <2> QED BY <1>2, <2>1, <2>2 DEF CreateSema, Made, Contract!Made, Contract!Create
<1>3. CASE PollSema(s) /\ Made("poll", <<s>>)
      BY <1>3, TakeContract DEF PollSema, Made, Contract!Made, Contract!Poll
<1> QED BY <1>2, <1>3, SignalContract, DeleteContract, WaitContract DEF SemaCallMade

LEMMA LeaveContract ==
    ASSUME IInv, IInv', NEW t \in Tids, waiters' = Unlisted(t), UNCHANGED <<limit, count>>,
           Made("leave", <<t>>)
    PROVE  Contract!Leave(t)
<1>1. waiters \in [Semas -> Seq(Tids)] /\ wait[t] \in Waits /\ Contract!Made("leave", <<t>>)
      BY DEF IInv, TypeOK, Made, Contract!Made
<1>2. ASSUME NEW s \in Semas, t \in Range(waiters[s]) PROVE Contract!Leave(t)
  <2> DEFINE q == waiters[s]
  <2>0. wait[t] = [reason |-> "Semaphore", arg |-> s] /\ limit[s] # 0
        BY <1>2, ListedWaits
  <2>1. q \in Seq(Tids) /\ IsInjective(q) /\ waiters' = [waiters EXCEPT ![s] = RemoveFirst(q, t)]
        BY <2>0, BlockedAreListed DEF Unlisted, Listed
  <2>2. PICK i \in 1 .. Len(q) : q[i] = t /\ RemoveFirst(q, t) = RemoveAt(q, i)
        BY <1>2, <2>1, RemoveFirstFacts
  <2>3. waiters' = [waiters EXCEPT ![s] = SubSeq(@, 1, i - 1) \o SubSeq(@, i + 1, Len(@))]
        BY <2>1, <2>2 DEF RemoveAt
  <2>4. Range(RemoveFirst(q, t)) = Range(q) \ {t}
        BY <2>1, RemoveFirstFacts
  <2>5. BlockedOn' = [BlockedOn EXCEPT ![s] = @ \ {t}]
        BY <1>1, <2>1, <2>4, BlockedAreListed
  <2> QED BY <1>1, <2>2, <2>3, <2>5 DEF Contract!Leave
<1>3. CASE \A s \in Semas : t \notin Range(waiters[s])
  <2>1. ASSUME wait[t].reason = "Semaphore", limit[wait[t].arg] # 0 PROVE UNCHANGED waiters
    <3> DEFINE s == wait[t].arg
    <3>1. s \in Semas /\ waiters[s] \in Seq(Tids)
          BY <1>1, <2>1 DEF Waits
    <3>2. RemoveFirst(waiters[s], t) = waiters[s]
          BY <1>3, <3>1, RemoveFirstFacts
    <3> QED BY <1>1, <2>1, <3>1, <3>2 DEF Unlisted
  <2>2. UNCHANGED waiters
        BY <2>1 DEF Unlisted
  <2>3. \A s \in Semas : t \notin Contract!Range(waiters[s])
        BY <1>3 DEF Range, Contract!Range
  <2> QED BY <1>1, <2>2, <2>3, SameWaiters DEF Contract!Leave
<1> QED BY <1>2, <1>3

LEMMA EndsWaitContract ==
    ASSUME IInv, IInv', NEW t \in Guests, EndsWaitOf(t), Made("leave", <<t>>)
    PROVE  Contract!Next
<1>1. t \in Tids
      BY DEF Guests, Tids
<1>2. waiters' = Unlisted(t) /\ UNCHANGED <<limit, count>>
      BY DEF EndsWaitOf, TerminateThread, ReleaseWaitThread, Retire
<1> QED BY <1>1, <1>2, LeaveContract DEF Contract!Next

\* No other step touches a semaphore.
LEMMA OtherThreadCallAside ==
    ASSUME IInv, OtherThreadCall
    PROVE  UNCHANGED semaVars
<1>1. ASSUME NEW delete \in BOOLEAN, ExitThread(delete) PROVE UNCHANGED semaVars
  <2>1. cur \in Tids /\ UNCHANGED <<limit, count>> /\ waiters' = Unlisted(cur)
        BY <1>1 DEF ExitThread, InCall, IInv, TypeOK, Retire
  <2> QED BY <2>1, CurrentUnlisted DEF semaVars
<1>2. ASSUME NEW t \in Guests \cup {cur}, SuspendThread(t) \/ CancelWakeupThread(t)
      PROVE  UNCHANGED semaVars
      BY <1>2 DEF SuspendThread, CancelWakeupThread
<1>3. ASSUME NEW t \in Threads, NEW p \in Priorities \ {0}, CreateThread(t, p)
      PROVE  UNCHANGED semaVars
      BY <1>3 DEF CreateThread
<1>4. ASSUME NEW t \in Threads, DeleteThread(t) PROVE UNCHANGED semaVars
      BY <1>4 DEF DeleteThread
<1>5. ASSUME NEW t \in Guests, StartThread(t) \/ ResumeThread(t) PROVE UNCHANGED semaVars
      BY <1>5 DEF StartThread, ResumeThread
<1>6. ASSUME NEW isr \in BOOLEAN, NEW t \in Guests, WakeupThread(t, isr)
      PROVE  UNCHANGED semaVars
      BY <1>6 DEF WakeupThread
<1>7. ASSUME NEW isr \in BOOLEAN, NEW t \in Guests \cup {cur}, NEW p \in Priorities,
             ChangeThreadPriority(t, p, isr)
      PROVE  UNCHANGED semaVars
      BY <1>7 DEF ChangeThreadPriority
<1>8. ASSUME NEW isr \in BOOLEAN, NEW p \in Priorities, RotateThreadReadyQueue(p, isr)
      PROVE  UNCHANGED semaVars
      BY <1>8 DEF RotateThreadReadyQueue
<1>9. ASSUME NEW n \in 1 .. MaxTicks, WaitVSync(n) PROVE UNCHANGED semaVars
      BY <1>9 DEF WaitVSync
<1>10. ASSUME SleepThread \/ RefusedCall PROVE UNCHANGED semaVars
       BY <1>10 DEF SleepThread, RefusedCall
<1> QED BY <1>1, <1>2, <1>3, <1>4, <1>5, <1>6, <1>7, <1>8, <1>9, <1>10 DEF OtherThreadCall

LEMMA LoopAside ==
    ASSUME IInv, LoopStep
    PROVE  UNCHANGED semaVars
<1>1. ASSUME cur # NoThread, RetireCurrent PROVE UNCHANGED semaVars
  <2>1. cur \in Tids /\ UNCHANGED <<limit, count>> /\ waiters' = Unlisted(cur)
        BY <1>1 DEF IInv, TypeOK, RetireCurrent, Retire
  <2> QED BY <2>1, CurrentUnlisted DEF semaVars
<1>2. CASE ThreadReturns
      BY <1>1, <1>2 DEF ThreadReturns, Selected
<1>3. CASE MissingFunction
      BY <1>1, <1>3 DEF MissingFunction, Runnable, Selected
<1>4. ASSUME NEW h \in VBlankWork, VBlank(h) PROVE UNCHANGED semaVars
      BY <1>4 DEF VBlank
<1>5. ASSUME NEW k \in Kinds, OtherEvent(k) PROVE UNCHANGED semaVars
      BY <1>5 DEF OtherEvent
<1>6. CASE ApplyPendingPreemption \/ SelectReady \/ Idle
      BY <1>6 DEF ApplyPendingPreemption, SelectReady, Idle
<1>7. ASSUME NEW d \in Dispatchers, AcquireDispatcher(d) PROVE UNCHANGED semaVars
      BY <1>7 DEF AcquireDispatcher
<1>8. CASE PopFrame \/ PushInvocation \/ DispatchCheckpoint \/ EnterGuest
      BY <1>8 DEF PopFrame, PushInvocation, DispatchCheckpoint, EnterGuest
<1> QED BY <1>2, <1>3, <1>4, <1>5, <1>6, <1>7, <1>8 DEF LoopStep

LEMMA OtherContract ==
    ASSUME IInv, IInv', OtherStep, call' = NoCall
    PROVE  Contract!Next
<1>1. ASSUME GuestReturns \/ GuestCheckpoint \/ SliceExpires PROVE UNCHANGED semaVars
      BY <1>1 DEF GuestReturns, GuestCheckpoint, SliceExpires
<1>2. UNCHANGED semaVars
      BY <1>1, OtherThreadCallAside, LoopAside DEF OtherStep
<1>3. UNCHANGED <<limit, count, waiters, BlockedOn>> /\ call' = Contract!NoCall
      BY <1>2, SameWaiters DEF semaVars, NoCall, Contract!NoCall
<1> QED BY <1>3 DEF Contract!OtherStep, Contract!Next

\* The history asks nothing of the scheduler.
LEMMA ClientStepIsStep ==
    ASSUME [ClientNext]_clientVars
    PROVE  [Next]_vars
<1>1. ASSUME NEW s \in Semas, SemaCallMade(s) PROVE SemaCall
      BY <1>1 DEF SemaCallMade, SemaCall
<1>2. CASE ClientNext
      BY <1>1, <1>2 DEF ClientNext, OtherStep, Next, GuestStep, ThreadCall
<1>3. CASE UNCHANGED clientVars
      BY <1>3 DEF clientVars
<1> QED BY <1>2, <1>3

\* EeScheduler implements FifoSemaphore: createSemaphore to waitSemaphore,
\* removeFromWaitObject and makeDormant together are a FIFO semaphore.  Every
\* signalSema that is accepted lets the longest waiter go or is counted, and
\* no waiter goes otherwise, but by DeleteSema or by a call that ends its own
\* wait.
THEOREM Implements == ClientSpec => SemaphoreContract
<1>1. ClientInit => Contract!Init
  <2> SUFFICES ASSUME ClientInit PROVE Contract!Init
      OBVIOUS
  <2>1. \A s \in Semas : OnSema(s) = {}
        BY DEF ClientInit, Init, OnSema, Blocked, Main
  <2>2. BlockedOn = [s \in Semas |-> {}]
        BY <2>1 DEF BlockedOn
  <2> QED BY <2>2 DEF ClientInit, Init, NoCall, Contract!Init, Contract!NoCall
<1>2. IInv /\ [ClientNext]_clientVars => IInv'
      BY ClientStepIsStep, NextGood
<1>3. IInv /\ IInv' /\ [ClientNext]_clientVars => [Contract!Next]_Contract!vars
  <2> SUFFICES ASSUME IInv, IInv', [ClientNext]_clientVars
               PROVE  [Contract!Next]_Contract!vars
      OBVIOUS
  <2>1. CASE ClientNext
        BY <2>1, SemaCallContract, EndsWaitContract, OtherContract DEF ClientNext
  <2>2. CASE UNCHANGED clientVars
    <3>1. UNCHANGED <<limit, count, waiters, call, BlockedOn>>
          BY <2>2, SameWaiters DEF clientVars, vars
    <3> QED BY <3>1 DEF Contract!vars
  <2> QED BY <2>1, <2>2
<1>4. ClientInit => IInv
      BY InitGood DEF ClientInit
<1> QED BY <1>1, <1>2, <1>3, <1>4, PTL DEF ClientSpec, SemaphoreContract, Contract!Spec

(***************************************************************************)
(* Strict priorities, and the turn of a preempted thread.                  *)
(***************************************************************************)
\* Of any state: current thread c, priorities pr, queues q, request rs.
Strict(c, pr, q, rs) == c # NoThread /\ (\E p \in 0 .. pr[c] - 1 : q[p] # <<>>) => rs

\* Holds in every phase, not only in guest code: a request that is not yet
\* there when run() selects a thread could not be made up for later.
OInv == IInv /\ Strict(cur, prio, ready, resched)

Preempted == cur # NoThread /\ cur' = NoThread /\ status'[cur] = "Ready" /\ ~sliceExpired
Ordered == /\ Strict(cur', prio', ready', resched')
           /\ Preempted => Head(ready'[prio'[cur]]) = cur

LEMMA HigherTyped ==
    ASSUME IInv, cur # NoThread
    PROVE  /\ cur \in Tids /\ prio[cur] \in Nat /\ status[cur] = "Running"
           /\ 0 .. prio[cur] - 1 \subseteq Priorities
<1>1. cur \in Tids /\ prio[cur] \in Priorities /\ status[cur] = "Running"
      BY DEF IInv, TypeOK, Queued
<1> QED BY <1>1, BoundsAssumption DEF Priorities

LEMMA StillOrdered ==
    ASSUME OInv, UNCHANGED <<cur, ready>>, cur # NoThread => prio'[cur] = prio[cur],
           resched => resched'
    PROVE  Ordered
BY DEF OInv, Ordered, Strict, Preempted

LEMMA GoneOrdered ==
    ASSUME cur' = NoThread, status'[cur] # "Ready"
    PROVE  Ordered
BY DEF Ordered, Strict, Preempted

LEMMA HeadOfCons == ASSUME NEW T, NEW q \in Seq(T), NEW t \in T PROVE Head(<<t>> \o q) = t
<1> DEFINE one == <<t>>
<1>1. one \in Seq(T) /\ Len(one) = 1 /\ one[1] = t
      OBVIOUS
<1> HIDE DEF one
<1>2. one \o q \in Seq(T) /\ Len(one \o q) = 1 + Len(q) /\ Len(q) \in Nat /\ (one \o q)[1] = t
      BY <1>1, ConcatProperties, SMTT(30)
<1>3. one \o q # <<>>
      BY <1>2
<1>4. Head(one \o q) = t
      BY <1>2, <1>3
<1> QED BY <1>4 DEF one

\* What Return does: the thread it preempts is the head of its queue.
LEMMA CallOrdered ==
    ASSUME IInv, TypeOK', NEW st, NEW q \in Queues, NEW c, NEW rs, NEW isr,
           Return(st, q, c, rs, isr), Strict(c, prio', q, rs),
           c = cur \/ (c = NoThread /\ st[cur] # "Ready")
    PROVE  Ordered
<1>1. CASE status' = st /\ ready' = q /\ cur' = c /\ resched' = rs
      BY <1>1 DEF Ordered, Preempted, Strict
<1>2. CASE cur' = NoThread /\ c = NoThread /\ status' = st /\ c # cur
      BY <1>2 DEF Ordered, Preempted, Strict
<1>3. CASE cur' = NoThread /\ c = cur
  <2>1. Strict(cur', prio', ready', resched')
        BY <1>3 DEF Strict
  <2>2. ASSUME Preempted PROVE Head(ready'[prio'[cur]]) = cur
    <3>1. ready' = PushFront(q, prio'[cur], cur)
          BY <1>1, <1>3, <2>2 DEF Return, Preempted
    <3>2. cur \in Tids /\ prio'[cur] \in Priorities
          BY <2>2 DEF Preempted, IInv, TypeOK
    <3>3. q[prio'[cur]] \in Seq(Tids) /\ ready'[prio'[cur]] = <<cur>> \o q[prio'[cur]]
          BY <3>1, <3>2 DEF Queues, PushFront
    <3> QED BY <3>2, <3>3, HeadOfCons
  <2> QED BY <2>1, <2>2 DEF Ordered
<1> QED BY <1>1, <1>2, <1>3 DEF Return

\* enqueueReady with requestPreemptionIfHigher.
LEMMA PushStrict ==
    ASSUME OInv, NEW t \in Tids
    PROVE  Strict(cur, prio, PushBack(ready, prio[t], t), resched \/ Outranks(t))
<1> SUFFICES ASSUME cur # NoThread, NEW p \in 0 .. prio[cur] - 1,
                    PushBack(ready, prio[t], t)[p] # <<>>, ~resched
             PROVE  Outranks(t)
    BY DEF Strict
<1>1. p \in Priorities /\ p < prio[cur]
      BY HigherTyped DEF OInv
<1>2. ready[p] = <<>>
      BY DEF OInv, Strict
<1>3. p = prio[t]
      BY <1>1, <1>2 DEF PushBack, OInv, IInv, TypeOK
<1> QED BY <1>1, <1>3 DEF Outranks

LEMMA UnqueuedEmpty ==
    ASSUME IInv, NEW t \in Tids, NEW p \in Priorities, ready[p] = <<>>
    PROVE  Unqueued(t)[p] = <<>>
<1>1. Lists(<<>>, {u \in Tids : status[u] = "Ready" /\ prio[u] = p})
      BY DEF IInv, Queued
<1>2. {u \in Tids : status[u] = "Ready" /\ prio[u] = p} = {}
      BY <1>1, ListsEmpty
<1>3. {u \in Tids \ {t} : status[u] = "Ready" /\ prio[u] = p} = {}
      BY <1>2
<1>4. Lists(Unqueued(t)[p], {})
      BY <1>3, UnqueuedLists
<1> QED BY <1>4, ListsNobody

LEMMA UnqueuedStrict ==
    ASSUME OInv, NEW t \in Tids
    PROVE  Strict(cur, prio, Unqueued(t), resched)
<1> SUFFICES ASSUME cur # NoThread, NEW p \in 0 .. prio[cur] - 1, Unqueued(t)[p] # <<>>
             PROVE  resched
    BY DEF Strict
<1>1. p \in Priorities
      BY HigherTyped DEF OInv
<1>2. ready[p] # <<>>
      BY <1>1, UnqueuedEmpty DEF OInv
<1> QED BY <1>2 DEF OInv, Strict

LEMMA AwakenStrict ==
    ASSUME OInv, NEW w \in Seq(Tids)
    PROVE  Strict(cur, prio, ReadyAfter(w), ReschedAfter(w))
<1> SUFFICES ASSUME cur # NoThread, NEW p \in 0 .. prio[cur] - 1, ReadyAfter(w)[p] # <<>>,
                    ~resched
             PROVE  ReschedAfter(w)
    BY DEF Strict, ReschedAfter
<1> DEFINE N == {t \in Tids : suspendCount[t] = 0 /\ prio[t] = p}
<1>1. p \in Priorities /\ p < prio[cur]
      BY HigherTyped DEF OInv
<1>2. ready[p] = <<>>
      BY DEF OInv, Strict
<1>3. ReadyAfter(w)[p] = ready[p] \o Among(w, N)
      BY <1>1 DEF ReadyAfter
<1>4. Among(w, N) \in Seq(Tids) /\ Range(Among(w, N)) = Range(w) \cap N
  <2> HIDE DEF N
  <2> QED BY AmongFacts
<1>5. Among(w, N) # <<>>
  <2>1. SUFFICES ASSUME Among(w, N) = <<>> PROVE ReadyAfter(w)[p] = <<>>
        OBVIOUS
  <2>2. <<>> \o <<>> = <<>>
        OBVIOUS
  <2> QED BY <1>2, <1>3, <2>1, <2>2
<1>6. PICK t : t \in Range(w) \cap N
  <2> HIDE DEF N
  <2>1. Head(Among(w, N)) \in Range(w) \cap N
        BY <1>4, <1>5, TailFacts
  <2> QED BY <2>1
<1>7. t \in Range(w) /\ suspendCount[t] = 0 /\ Outranks(t)
      BY <1>1, <1>6 DEF Outranks
<1> QED BY <1>7 DEF ReschedAfter

LEMMA AwakenOrdered ==
    ASSUME OInv, TypeOK', NEW w \in Seq(Tids), NEW isr, prio' = prio,
           Return(StatusAfter(w), ReadyAfter(w), cur, ReschedAfter(w), isr)
    PROVE  Ordered
<1>1. ReadyAfter(w) \in Queues
      BY AwakenedTyped DEF OInv, IInv
<1>2. Strict(cur, prio', ReadyAfter(w), ReschedAfter(w))
      BY AwakenStrict
<1> HIDE DEF OInv
<1> QED BY <1>1, <1>2, CallOrdered DEF OInv

\* A call that leaves the queues and the current thread's priority alone.
LEMMA EndOrdered ==
    ASSUME OInv, TypeOK', NEW st, NEW rs, NEW isr, Return(st, ready, cur, rs, isr),
           cur # NoThread => prio'[cur] = prio[cur], resched => rs
    PROVE  Ordered
<1>1. ready \in Queues /\ IInv
      BY DEF OInv, IInv, TypeOK, Queues
<1>2. Strict(cur, prio', ready, rs)
      BY DEF OInv, Strict
<1> QED BY <1>1, <1>2, CallOrdered

LEMMA StartOrdered ==
    ASSUME OInv, TypeOK', NEW t \in Tids, StartThread(t)
    PROVE  Ordered
<1> DEFINE q == PushBack(ready, prio[t], t)
<1>1. Return([status EXCEPT ![t] = "Ready"], q, cur, resched \/ Outranks(t), FALSE)
      BY DEF StartThread
<1>2. q \in Queues /\ IInv
      BY PushTyped DEF OInv, IInv, TypeOK, Queues
<1>3. Strict(cur, prio', q, resched \/ Outranks(t))
      BY PushStrict DEF StartThread
<1> HIDE DEF q
<1> QED BY <1>1, <1>2, <1>3, CallOrdered

LEMMA SuspendOrdered ==
    ASSUME OInv, TypeOK', NEW t \in Tids, SuspendThread(t)
    PROVE  Ordered
<1> DEFINE s == IF status[t] = "Waiting" THEN "WaitingSuspended"
                ELSE IF status[t] \in {"Running", "Ready"} THEN "Suspended" ELSE status[t]
           st == [status EXCEPT ![t] = s]
           c == IF t = cur THEN NoThread ELSE cur
<1>1. Return(st, Unqueued(t), c, resched \/ t = cur, FALSE) /\ prio' = prio /\ cur # NoThread
      BY DEF SuspendThread, InCall
<1>2. Unqueued(t) \in Queues /\ IInv
      BY UnqueuedTyped DEF OInv, IInv
<1>3. Strict(c, prio', Unqueued(t), resched \/ t = cur)
      BY <1>1, UnqueuedStrict DEF Strict
<1>4. c = cur \/ (c = NoThread /\ st[cur] # "Ready")
      BY <1>1, HigherTyped DEF OInv, IInv, TypeOK
<1> HIDE DEF st, c
<1> QED BY <1>1, <1>2, <1>3, <1>4, CallOrdered

LEMMA ResumeOrdered ==
    ASSUME OInv, TypeOK', NEW t \in Tids, ResumeThread(t)
    PROVE  Ordered
<1> DEFINE runnable == suspendCount[t] = 1 /\ status[t] = "Suspended"
           q == IF runnable THEN PushBack(ready, prio[t], t) ELSE ready
           rs == resched \/ (runnable /\ Outranks(t))
<1>1. \E st : Return(st, q, cur, rs, FALSE)
      BY DEF ResumeThread
<1>2. q \in Queues /\ IInv /\ prio' = prio
      BY PushTyped DEF OInv, IInv, TypeOK, Queues, ResumeThread
<1>3. Strict(cur, prio, q, rs)
  <2>1. CASE runnable
        BY <2>1, PushStrict
  <2>2. CASE ~runnable
        BY <2>2 DEF OInv, Strict
  <2> QED BY <2>1, <2>2
<1> HIDE DEF q, rs
<1> QED BY <1>1, <1>2, <1>3, CallOrdered

LEMMA PriorityOrdered ==
    ASSUME OInv, TypeOK', NEW t \in Tids, NEW p \in Priorities, NEW isr,
           ChangeThreadPriority(t, p, isr)
    PROVE  Ordered
<1>1. /\ cur # NoThread /\ IInv
      /\ \A u \in Tids : prio'[u] = IF u = t THEN p ELSE prio[u]
      BY DEF ChangeThreadPriority, InCall, OInv, IInv, TypeOK
<1>2. /\ cur \in Tids /\ prio[cur] \in Nat /\ status[cur] = "Running"
      /\ 0 .. prio[cur] - 1 \subseteq Priorities
      BY <1>1, HigherTyped
<1>3. CASE status[t] = "Ready"
  <2> DEFINE q == PushBack(Unqueued(t), p, t)
  <2>1. Return(status, q, cur, resched \/ p < prio[cur], isr)
        BY <1>3 DEF ChangeThreadPriority
  <2>2. q \in Queues /\ Unqueued(t) \in Queues
        BY PushTyped, UnqueuedTyped DEF OInv, IInv
  <2>3. prio'[cur] = prio[cur]
        BY <1>1, <1>2, <1>3
  <2>4. ASSUME NEW x \in 0 .. prio[cur] - 1, q[x] # <<>> PROVE resched \/ p < prio[cur]
    <3>1. x \in Priorities /\ x < prio[cur]
          BY <1>2
    <3>2. CASE x = p
          BY <3>1, <3>2
    <3>3. CASE x # p
      <4>1. q[x] = Unqueued(t)[x]
            BY <2>2, <3>1, <3>3 DEF PushBack, Queues
      <4> QED BY <1>1, <2>4, <4>1, UnqueuedStrict DEF Strict
    <3> QED BY <3>2, <3>3
  <2> HIDE DEF q
  <2>5. Strict(cur, prio', q, resched \/ p < prio[cur])
        BY <2>3, <2>4 DEF Strict
  <2> QED BY <1>1, <2>1, <2>2, <2>5, CallOrdered
<1>4. CASE status[t] # "Ready"
  <2> DEFINE rs == resched \/ (t = cur /\ \E q \in 0 .. p - 1 : ready[q] # <<>>)
  <2>1. Return(status, ready, cur, rs, isr)
        BY <1>4 DEF ChangeThreadPriority
  <2>2. Strict(cur, prio', ready, rs)
    <3>1. CASE t = cur
          BY <1>1, <1>2, <3>1 DEF Strict
    <3>2. CASE t # cur
          BY <1>1, <1>2, <3>2 DEF OInv, Strict
    <3> QED BY <3>1, <3>2
  <2>3. ready \in Queues
        BY DEF OInv, IInv, TypeOK, Queues
  <2> HIDE DEF rs
  <2> QED BY <1>1, <2>1, <2>2, <2>3, CallOrdered
<1> QED BY <1>3, <1>4

\* Rotating the caller's own priority gives up the caller's turn on purpose.
LEMMA RotateOrdered ==
    ASSUME OInv, NEW p \in Priorities, NEW isr, RotateThreadReadyQueue(p, isr)
    PROVE  Strict(cur', prio', ready', resched')
<1> DEFINE q == IF p = 0 THEN prio[cur] ELSE p
<1>1. cur # NoThread /\ prio' = prio /\ IInv /\ ready \in Queues
      BY DEF RotateThreadReadyQueue, InCall, OInv, IInv, TypeOK, Queues
<1>2. CASE \E st, r, rs : Return(st, r, NoThread, rs, isr)
      BY <1>2 DEF Return, Strict
<1>3. CASE q # prio[cur]
  <2> DEFINE r == IF Len(ready[q]) > 1
                  THEN [ready EXCEPT ![q] = Append(Tail(@), Head(@))] ELSE ready
  <2>1. Return(status, r, cur, resched, isr)
        BY <1>3 DEF RotateThreadReadyQueue
  <2>2. ASSUME NEW x \in Priorities, ready[x] = <<>> PROVE r[x] = <<>>
    <3>1. Len(ready[x]) = 0
          BY <2>2
    <3> QED BY <1>1, <2>2, <3>1 DEF Queues
  <2> HIDE DEF r
  <2>3. Strict(cur, prio', r, resched)
        BY <1>1, <2>2, HigherTyped DEF OInv, Strict
  <2> QED BY <2>1, <2>3 DEF Return, Strict
<1> QED BY <1>2, <1>3 DEF RotateThreadReadyQueue

LEMMA BlockedOrdered ==
    ASSUME IInv, cur \in Tids, NEW w, Block(w)
    PROVE  Ordered
<1>1. status'[cur] \in Blocked /\ cur' = NoThread
      BY DEF Block, Blocked, IInv, TypeOK
<1> QED BY <1>1, GoneOrdered DEF Blocked

LEMMA RetiredOrdered ==
    ASSUME IInv, cur \in Tids, NEW st \in {"Absent", "Dormant"}, Retire(cur, st), cur' = NoThread
    PROVE  Ordered
<1>1. status'[cur] = st
      BY DEF Retire, IInv, TypeOK
<1> QED BY <1>1, GoneOrdered

LEMMA TerminateOrdered ==
    ASSUME OInv, NEW t \in Tids, TerminateThread(t)
    PROVE  Ordered
<1>1. ready' = Unqueued(t) /\ UNCHANGED <<prio, cur, resched>>
      BY DEF TerminateThread, Retire
<1>2. Strict(cur, prio, Unqueued(t), resched)
      BY UnqueuedStrict
<1> QED BY <1>1, <1>2 DEF Ordered, Strict, Preempted

\* The record of a thread that is not the current one changes.
LEMMA RecordOrdered ==
    ASSUME OInv, NEW t \in Tids, status[t] # "Running", \A u \in Tids \ {t} : prio'[u] = prio[u],
           UNCHANGED <<cur, ready, resched>>
    PROVE  Ordered
<1>1. cur # NoThread => prio'[cur] = prio[cur]
      BY HigherTyped DEF OInv
<1> QED BY <1>1, StillOrdered

LEMMA ThreadCallOrdered ==
    ASSUME OInv, TypeOK', ThreadCall
    PROVE  \/ Ordered
           \/ /\ \E p \in Priorities, isr \in BOOLEAN : RotateThreadReadyQueue(p, isr)
              /\ Strict(cur', prio', ready', resched')
<1>1. Threads \subseteq Tids /\ Guests \subseteq Tids /\ IInv
      BY DEF Guests, Tids, OInv
<1>2. InCall => cur \in Tids
      BY <1>1, HigherTyped DEF InCall
<1>3. ASSUME NEW t \in Threads, NEW p \in Priorities \ {0}, CreateThread(t, p) PROVE Ordered
      BY <1>1, <1>3, RecordOrdered DEF CreateThread, IInv, TypeOK
<1>4. ASSUME NEW t \in Threads, DeleteThread(t) PROVE Ordered
      BY <1>1, <1>4, RecordOrdered DEF DeleteThread, IInv, TypeOK
<1>5. ASSUME NEW t \in Guests, StartThread(t) PROVE Ordered
      BY <1>1, <1>5, StartOrdered
<1>6. ASSUME NEW t \in Guests, TerminateThread(t) PROVE Ordered
      BY <1>1, <1>6, TerminateOrdered
<1>7. ASSUME NEW t \in Guests, ResumeThread(t) PROVE Ordered
      BY <1>1, <1>7, ResumeOrdered
<1>8. ASSUME NEW t \in Guests \cup {cur}, SuspendThread(t) PROVE Ordered
      BY <1>1, <1>2, <1>8, SuspendOrdered DEF SuspendThread
<1>9. ASSUME NEW t \in Guests \cup {cur}, CancelWakeupThread(t) PROVE Ordered
      BY <1>9, StillOrdered DEF CancelWakeupThread
<1>10. ASSUME NEW delete \in BOOLEAN, ExitThread(delete) PROVE Ordered
  <2>1. cur \in Tids /\ cur' = NoThread /\ \E st \in {"Absent", "Dormant"} : Retire(cur, st)
        BY <1>2, <1>10 DEF ExitThread
  <2> QED BY <1>1, <2>1, RetiredOrdered
<1>11. ASSUME SleepThread PROVE Ordered
  <2>1. CASE UNCHANGED <<status, wait, cur, exec, phase>>
        BY <1>11, <2>1, StillOrdered DEF SleepThread
  <2>2. CASE Block([reason |-> "Sleep", arg |-> 0])
        BY <1>1, <1>2, <1>11, <2>2, BlockedOrdered DEF SleepThread
  <2> QED BY <1>11, <2>1, <2>2 DEF SleepThread
<1>12. ASSUME NEW isr \in BOOLEAN, NEW t \in Guests, WakeupThread(t, isr) PROVE Ordered
  <2>1. t \in Tids /\ prio' = prio
        BY <1>1, <1>12 DEF WakeupThread
  <2> DEFINE w == <<t>>
  <2>2. w \in Seq(Tids)
        BY <2>1
  <2> HIDE DEF w
  <2>3. CASE Return(StatusAfter(w), ReadyAfter(w), cur, ReschedAfter(w), isr)
        BY <2>1, <2>2, <2>3, AwakenOrdered
  <2>4. CASE Return(status, ready, cur, resched, isr)
        BY <2>1, <2>4, EndOrdered
  <2> QED BY <1>12, <2>3, <2>4 DEF WakeupThread, w
<1>13. ASSUME NEW isr \in BOOLEAN, NEW t \in Guests, ReleaseWaitThread(t, isr) PROVE Ordered
  <2> DEFINE w == <<t>>
  <2>1. /\ prio' = prio /\ w \in Seq(Tids)
        /\ Return(StatusAfter(w), ReadyAfter(w), cur, ReschedAfter(w), isr)
        BY <1>1, <1>13 DEF ReleaseWaitThread
  <2> HIDE DEF w
  <2> QED BY <2>1, AwakenOrdered
<1>14. ASSUME NEW isr \in BOOLEAN, NEW t \in Guests \cup {cur}, NEW p \in Priorities,
              ChangeThreadPriority(t, p, isr)
       PROVE  Ordered
       BY <1>1, <1>2, <1>14, PriorityOrdered DEF ChangeThreadPriority
<1>15. ASSUME NEW isr \in BOOLEAN, NEW p \in Priorities, RotateThreadReadyQueue(p, isr)
       PROVE  Strict(cur', prio', ready', resched')
       BY <1>15, RotateOrdered
<1>16. ASSUME NEW n \in 1 .. MaxTicks, WaitVSync(n) PROVE Ordered
       BY <1>1, <1>2, <1>16, BlockedOrdered DEF WaitVSync
<1>17. ASSUME RefusedCall PROVE Ordered
  <2>1. Return(status, ready, cur, resched, FALSE) /\ prio' = prio
        BY <1>17 DEF RefusedCall
  <2> QED BY <2>1, EndOrdered
<1> QED BY <1>3, <1>4, <1>5, <1>6, <1>7, <1>8, <1>9, <1>10, <1>11, <1>12, <1>13, <1>14,
           <1>15, <1>16, <1>17
        DEF ThreadCall, EndsWaitOf, OtherThreadCall

LEMMA SemaCallOrdered ==
    ASSUME OInv, TypeOK', SemaCall
    PROVE  Ordered
<1>1. PICK s \in Semas :
         \/ \E max \in 1 .. MaxCount, init \in 0 .. MaxCount : CreateSema(s, init, max)
         \/ \E isr \in BOOLEAN : DeleteSema(s, isr) \/ SignalSema(s, isr)
         \/ PollSema(s)
         \/ WaitSema(s)
      BY DEF SemaCall
<1>2. waiters[s] \in Seq(Tids) /\ IInv
      BY DEF OInv, IInv, TypeOK
<1>3. ASSUME NEW max, NEW init, CreateSema(s, init, max) PROVE Ordered
      BY <1>3, StillOrdered DEF CreateSema
<1>4. ASSUME NEW isr \in BOOLEAN, DeleteSema(s, isr) PROVE Ordered
      BY <1>2, <1>4, AwakenOrdered DEF DeleteSema
<1>5. ASSUME NEW isr \in BOOLEAN, SignalSema(s, isr) PROVE Ordered
  <2> DEFINE w == <<Head(waiters[s])>>
  <2>1. prio' = prio
        BY <1>5 DEF SignalSema
  <2>2. CASE waiters[s] # <<>> /\ Return(StatusAfter(w), ReadyAfter(w), cur, ReschedAfter(w), isr)
    <3>1. Head(waiters[s]) \in Tids
          BY <1>2, <2>2, TailFacts
    <3>2. w \in Seq(Tids)
          BY <3>1
    <3> HIDE DEF w
    <3> QED BY <2>1, <2>2, <3>2, AwakenOrdered
  <2>3. CASE Return(status, ready, cur, resched, isr)
        BY <2>1, <2>3, EndOrdered
  <2> QED BY <1>5, <2>2, <2>3 DEF SignalSema
<1>6. CASE PollSema(s)
      BY <1>6, StillOrdered DEF PollSema
<1>7. CASE WaitSema(s)
  <2>1. cur \in Tids
        BY <1>2, <1>7, HigherTyped DEF WaitSema, InCall
  <2>2. CASE UNCHANGED <<status, wait, cur, exec, phase, waiters>>
        BY <1>7, <2>2, StillOrdered DEF WaitSema
  <2>3. CASE Block([reason |-> "Semaphore", arg |-> s])
        BY <1>2, <2>1, <2>3, BlockedOrdered
  <2> QED BY <1>7, <2>2, <2>3 DEF WaitSema
<1> QED BY <1>1, <1>3, <1>4, <1>5, <1>6, <1>7

LEMMA PendingOrdered ==
    ASSUME OInv, ApplyPendingPreemption
    PROVE  Ordered
<1>1. prio' = prio /\ resched' = FALSE /\ IInv
      BY DEF ApplyPendingPreemption, OInv
<1>2. CASE /\ cur # NoThread /\ cur' = NoThread
           /\ ready' = IF sliceExpired THEN PushBack(ready, prio[cur], cur)
                                       ELSE PushFront(ready, prio[cur], cur)
  <2>1. cur \in Tids /\ prio[cur] \in Priorities /\ ready[prio[cur]] \in Seq(Tids)
        BY <1>2, HigherTyped DEF OInv, IInv, TypeOK
  <2>2. ~sliceExpired => ready'[prio[cur]] = <<cur>> \o ready[prio[cur]]
        BY <1>2, <2>1 DEF PushFront, OInv, IInv, TypeOK
  <2>3. ~sliceExpired => Head(ready'[prio[cur]]) = cur
        BY <2>1, <2>2, HeadOfCons
  <2> QED BY <1>1, <1>2, <2>3 DEF Ordered, Strict, Preempted
<1>3. CASE ~(resched /\ cur # NoThread) /\ UNCHANGED <<status, ready, cur>>
      BY <1>1, <1>3 DEF OInv, Ordered, Strict, Preempted
<1> QED BY <1>2, <1>3 DEF ApplyPendingPreemption

LEMMA SelectOrdered ==
    ASSUME OInv, SelectReady
    PROVE  Ordered
<1>1. PICK p \in Priorities :
         /\ ready[p] # <<>> /\ \A q \in 0 .. p - 1 : ready[q] = <<>>
         /\ cur' = Head(ready[p]) /\ ready' = [ready EXCEPT ![p] = Tail(@)]
      BY DEF SelectReady
<1>2. cur = NoThread /\ prio' = prio
      BY DEF SelectReady
<1> DEFINE S == {t \in Tids : status[t] = "Ready" /\ prio[t] = p}
<1>3. Lists(ready[p], S)
      BY DEF OInv, IInv, Queued
<1>4. Head(ready[p]) \in S
  <2> HIDE DEF S
  <2> QED BY <1>1, <1>3, ListsTail
<1>5. prio'[cur'] = p
      BY <1>1, <1>2, <1>4
<1>6. \A q \in 0 .. p - 1 : ready'[q] = <<>>
  <2>1. \A q \in 0 .. p - 1 : q # p /\ q \in Priorities
        BY BoundsAssumption DEF Priorities
  <2> QED BY <1>1, <2>1 DEF OInv, IInv, TypeOK
<1> QED BY <1>2, <1>5, <1>6 DEF Ordered, Strict, Preempted

LEMMA AcquireOrdered ==
    ASSUME OInv, NEW d \in Dispatchers, AcquireDispatcher(d)
    PROVE  Ordered
<1>1. /\ cur = NoThread /\ cur' = d /\ d \in Tids /\ NoneReady
      /\ UNCHANGED <<prio, ready>>
      BY DEF AcquireDispatcher, Tids
<1>2. 0 .. prio[d] - 1 \subseteq Priorities
      BY <1>1, BoundsAssumption DEF OInv, IInv, TypeOK, Priorities
<1> QED BY <1>1, <1>2 DEF Ordered, Strict, Preempted, NoneReady

LEMMA VBlankOrdered ==
    ASSUME OInv, NEW h, VBlank(h)
    PROVE  Ordered
<1> DEFINE due == {t \in {u \in Tids : status[u] \in Blocked /\ wait[u].reason = "VSync"} :
                      wait[t].arg = 1}
<1>1. cur' = cur /\ prio' = prio
      BY DEF VBlank
<1>2. PICK w \in InIdOrder(due) : ready' = ReadyAfter(w) /\ resched' = ReschedAfter(w)
      BY DEF VBlank
<1>3. due \in SUBSET Tids
      OBVIOUS
<1> HIDE DEF due
<1>4. w \in Seq(Tids)
      BY <1>3, InIdOrderTyped
<1>5. Strict(cur, prio, ReadyAfter(w), ReschedAfter(w))
      BY <1>4, AwakenStrict
<1> QED BY <1>1, <1>2, <1>5 DEF Ordered, Strict, Preempted

LEMMA LoopStepOrdered ==
    ASSUME OInv, LoopStep
    PROVE  Ordered
<1>1. ASSUME NEW h \in VBlankWork, VBlank(h) PROVE Ordered
      BY <1>1, VBlankOrdered
<1>2. ASSUME NEW k \in Kinds, OtherEvent(k) PROVE Ordered
      BY <1>2, StillOrdered DEF OtherEvent, queueVars
<1>3. CASE ApplyPendingPreemption
      BY <1>3, PendingOrdered
<1>4. CASE SelectReady
      BY <1>4, SelectOrdered
<1>5. ASSUME NEW d \in Dispatchers, AcquireDispatcher(d) PROVE Ordered
      BY <1>5, AcquireOrdered
<1>6. CASE Idle \/ PopFrame \/ PushInvocation \/ EnterGuest
      BY <1>6, StillOrdered DEF Idle, PopFrame, PushInvocation, EnterGuest, queueVars
<1>7. ASSUME cur # NoThread, RetireCurrent PROVE Ordered
      BY <1>7, HigherTyped, RetiredOrdered DEF RetireCurrent, OInv
<1>8. CASE ThreadReturns
      BY <1>7, <1>8 DEF ThreadReturns, Selected
<1>9. CASE MissingFunction
      BY <1>7, <1>9, StillOrdered DEF MissingFunction, Runnable, Selected, queueVars
<1>10. CASE DispatchCheckpoint
       BY <1>10, StillOrdered DEF DispatchCheckpoint
<1> QED BY <1>1, <1>2, <1>3, <1>4, <1>5, <1>6, <1>8, <1>9, <1>10 DEF LoopStep

LEMMA GuestStepOrdered ==
    ASSUME OInv, TypeOK', GuestStep
    PROVE  \/ Ordered
           \/ /\ \E p \in Priorities, isr \in BOOLEAN : RotateThreadReadyQueue(p, isr)
              /\ Strict(cur', prio', ready', resched')
<1>1. CASE GuestReturns
      BY <1>1, StillOrdered DEF GuestReturns, queueVars
<1>2. CASE GuestCheckpoint
      BY <1>2, StillOrdered DEF GuestCheckpoint, queueVars
<1>3. CASE SliceExpires
      BY <1>3, StillOrdered DEF SliceExpires
<1> QED BY <1>1, <1>2, <1>3, ThreadCallOrdered, SemaCallOrdered DEF GuestStep

LEMMA NextOrdered ==
    ASSUME OInv, [Next]_vars
    PROVE  /\ OInv'
           /\ \/ Ordered
              \/ \E p \in Priorities, isr \in BOOLEAN : RotateThreadReadyQueue(p, isr)
<1>1. IInv'
      BY NextGood DEF OInv
<1>2. TypeOK'
      BY <1>1 DEF IInv
<1>3. CASE Next
      BY <1>1, <1>2, <1>3, GuestStepOrdered, LoopStepOrdered DEF Next, Ordered, OInv
<1>4. CASE UNCHANGED vars
      BY <1>1, <1>4, StillOrdered DEF vars, Ordered, OInv
<1> QED BY <1>3, <1>4

LEMMA OrderInvariant == Spec => []OInv
<1>1. Init => OInv
  <2>1. Init => Strict(cur, prio, ready, resched)
        BY DEF Init, Strict
  <2> QED BY <2>1, InitGood DEF OInv
<1>2. OInv /\ [Next]_vars => OInv'
      BY NextOrdered
<1> QED BY <1>1, <1>2, PTL DEF Spec

\* requestPreemptionIfHigher is called wherever a thread becomes ready or a
\* priority changes: guest code never runs below a ready thread unless the
\* preemption is already requested.
THEOREM Priority == Spec => []StrictPriority
<1>1. OInv => StrictPriority
      BY DEF OInv, Strict, StrictPriority
<1> QED BY <1>1, OrderInvariant, PTL

\* transferIfRequested and applyPendingPreemption put a preempted thread at
\* the head of its queue; only a used-up slice or a rotation costs its turn.
THEOREM Turn == Spec => PreemptedKeepsItsTurn
<1> DEFINE A == cur # NoThread /\ cur' = NoThread /\ status'[cur] = "Ready" /\ ~sliceExpired
                  /\ ~(\E p \in Priorities, isr \in BOOLEAN : RotateThreadReadyQueue(p, isr))
                => Head(ready'[prio'[cur]]) = cur
<1>1. OInv /\ [Next]_vars => [A]_vars
      BY NextOrdered DEF Ordered, Preempted
<1> QED BY <1>1, OrderInvariant, PTL DEF Spec, PreemptedKeepsItsTurn

(***************************************************************************)
(* Sleepers and retired threads.                                           *)
(***************************************************************************)
Retired == {"Dormant", "Absent"}

\* A thread's status s, wait w, wake-ups k, frames f and return r agree.
Sound(s, w, k, f, r) == /\ s \in Blocked /\ w.reason = "Sleep" => k = 0
                        /\ s \in Retired => k = 0 /\ f = <<>> /\ ~r

Life(st, wt, wk, fr, rt) == \A t \in Tids : Sound(st[t], wt[t], wk[t], fr[t], rt[t])

\* Guest code runs on a thread that is not retired.
Guested(st, c, x, ph) ==
    ph = "guest" => x \in Tids /\ st[x] \notin Retired /\ (c # NoThread => c = x)

LInv == /\ IInv
        /\ Life(status, wait, wakeupCount, frames, returned)
        /\ Guested(status, cur, exec, phase)

Lived == /\ Life(status', wait', wakeupCount', frames', returned')
         /\ Guested(status', cur', exec', phase')

LEMMA RunningOne ==
    ASSUME LInv, cur # NoThread
    PROVE  cur \in Tids /\ status[cur] = "Running" /\ (phase = "guest" => exec = cur)
BY HigherTyped DEF LInv, Guested

\* The statuses and the place of the executor may change; whoever is blocked
\* or retired then was so before.
LEMMA StatusLives ==
    ASSUME LInv, UNCHANGED <<wait, wakeupCount, frames, returned>>,
           \A t \in Tids : /\ status'[t] \in Blocked => status[t] \in Blocked
                           /\ status'[t] \in Retired => status[t] \in Retired,
           Guested(status', cur', exec', phase')
    PROVE  Lived
BY DEF LInv, Life, Sound, Lived

\* One thread changes in other ways, and is sound afterwards.
LEMMA ThreadLives ==
    ASSUME LInv, NEW t \in Tids, Sound(status'[t], wait'[t], wakeupCount'[t], frames'[t], returned'[t]),
           \A u \in Tids \ {t} : /\ status'[u] = status[u] /\ wait'[u] = wait[u]
                                 /\ wakeupCount'[u] = wakeupCount[u]
                                 /\ frames'[u] = frames[u] /\ returned'[u] = returned[u],
           Guested(status', cur', exec', phase')
    PROVE  Lived
BY DEF LInv, Life, Lived

\* A call that has made statuses st, sound with the new waits and counts, and
\* has kept the executing thread out of retirement.
LEMMA CallLives ==
    ASSUME LInv, InCall, NEW st \in [Tids -> Statuses], NEW q, NEW c, NEW rs, NEW isr,
           Return(st, q, c, rs, isr), c = cur \/ c = NoThread, st[cur] \notin Retired,
           Life(st, wait', wakeupCount', frames', returned')
    PROVE  Lived
<1>1. cur \in Tids /\ exec = cur
      BY RunningOne DEF InCall
<1>2. \A t \in Tids : status'[t] = st[t] \/ status'[t] = "Ready"
      BY <1>1 DEF Return
<1>3. Life(status', wait', wakeupCount', frames', returned')
      BY <1>2 DEF Life, Sound, Blocked, Retired
<1>4. Guested(status', cur', exec', phase')
      BY <1>1 DEF Return, Guested
<1> QED BY <1>3, <1>4 DEF Lived

\* A call that changes no wait, count or frame.
LEMMA QuietCallLives ==
    ASSUME LInv, InCall, NEW st \in [Tids -> Statuses], NEW q, NEW c, NEW rs, NEW isr,
           Return(st, q, c, rs, isr), c = cur \/ c = NoThread,
           UNCHANGED <<wait, wakeupCount, frames, returned>>,
           \A t \in Tids : /\ st[t] \in Blocked => status[t] \in Blocked
                           /\ st[t] \in Retired => status[t] \in Retired
    PROVE  Lived
<1>1. Life(st, wait', wakeupCount', frames', returned')
      BY DEF LInv, Life, Sound
<1>2. st[cur] \notin Retired
      BY RunningOne DEF InCall, Retired
<1> QED BY <1>1, <1>2, CallLives

LEMMA AwakenLives ==
    ASSUME LInv, InCall, NEW w \in Seq(Tids), NEW isr,
           Return(StatusAfter(w), ReadyAfter(w), cur, ReschedAfter(w), isr),
           \A t \in Range(w) : status[t] \in Blocked,
           wait' = WaitAfter(w), UNCHANGED <<wakeupCount, frames, returned>>
    PROVE  Lived
<1>1. StatusAfter(w) \in [Tids -> Statuses]
      BY AwakenedTyped DEF LInv, IInv
<1>2. \A t \in Tids : /\ StatusAfter(w)[t] = IF t \in Range(w) THEN Awake(t) ELSE status[t]
                      /\ wait'[t] = IF t \in Range(w) THEN NoWait ELSE wait[t]
      BY DEF StatusAfter, WaitAfter
<1>3. Life(StatusAfter(w), wait', wakeupCount', frames', returned')
      BY <1>2 DEF LInv, Life, Sound, Awake, Blocked, Retired
<1>4. StatusAfter(w)[cur] \notin Retired
      BY <1>2, RunningOne DEF InCall, Awake, Retired
<1> QED BY <1>1, <1>3, <1>4, CallLives

LEMMA RetireLives ==
    ASSUME LInv, NEW t \in Tids, NEW s \in Statuses, Retire(t, s), s \notin Blocked,
           Guested(status', cur', exec', phase')
    PROVE  Lived
BY ThreadLives DEF Retire, Sound, LInv, IInv, TypeOK

\* The current thread waits, and sleeps only without a wake-up.
LEMMA BlockLives ==
    ASSUME LInv, cur \in Tids, NEW w, Block(w), w.reason = "Sleep" => wakeupCount[cur] = 0,
           UNCHANGED <<wakeupCount, frames, returned>>
    PROVE  Lived
<1>1. Guested(status', cur', exec', phase')
      BY DEF Block, Guested
<1>2. status'[cur] \in Blocked /\ wait'[cur] = w
      BY DEF Block, Blocked, LInv, IInv, TypeOK
<1>3. Sound(status'[cur], wait'[cur], wakeupCount'[cur], frames'[cur], returned'[cur])
      BY <1>2 DEF Sound, Blocked, Retired
<1>4. \A u \in Tids \ {cur} : status'[u] = status[u] /\ wait'[u] = wait[u]
      BY DEF Block, LInv, IInv, TypeOK
<1> QED BY <1>1, <1>3, <1>4, ThreadLives

LEMMA ExitLives ==
    ASSUME LInv, NEW delete, ExitThread(delete)
    PROVE  Lived
<1>1. cur \in Tids /\ \E s \in {"Absent", "Dormant"} : Retire(cur, s)
      BY RunningOne DEF ExitThread, InCall
<1>2. Guested(status', cur', exec', phase')
      BY DEF ExitThread, Guested
<1>3. {"Absent", "Dormant"} \subseteq Statuses \ Blocked
      BY DEF Statuses, Blocked
<1> QED BY <1>1, <1>2, <1>3, RetireLives

LEMMA TerminateLives ==
    ASSUME LInv, NEW t \in Tids, TerminateThread(t)
    PROVE  Lived
<1>1. InCall /\ t # cur /\ Retire(t, "Dormant") /\ UNCHANGED <<cur, exec, phase>>
      BY DEF TerminateThread
<1>2. cur \in Tids /\ exec = cur
      BY <1>1, RunningOne DEF InCall
<1>3. status'[cur] = status[cur]
      BY <1>1, <1>2 DEF Retire, LInv, IInv, TypeOK
<1>4. Guested(status', cur', exec', phase')
      BY <1>1, <1>2, <1>3 DEF LInv, Guested
<1>5. "Dormant" \in Statuses /\ "Dormant" \notin Blocked
      BY DEF Statuses, Blocked
<1> QED BY <1>1, <1>4, <1>5, RetireLives

LEMMA StartLives ==
    ASSUME LInv, NEW t \in Tids, StartThread(t)
    PROVE  Lived
<1> DEFINE st == [status EXCEPT ![t] = "Ready"]
<1>1. /\ InCall /\ status[t] = "Dormant"
      /\ Return(st, PushBack(ready, prio[t], t), cur, resched \/ Outranks(t), FALSE)
      BY DEF StartThread
<1>2. st \in [Tids -> Statuses]
      BY DEF LInv, IInv, TypeOK, Statuses
<1>3. \A u \in Tids : Sound(st[u], wait'[u], wakeupCount'[u], frames'[u], returned'[u])
  <2>1. Sound(st[t], wait'[t], wakeupCount'[t], frames'[t], returned'[t])
        BY DEF Sound, Blocked, Retired, LInv, IInv, TypeOK
  <2>2. \A u \in Tids \ {t} : /\ st[u] = status[u] /\ wait'[u] = wait[u]
                              /\ wakeupCount'[u] = wakeupCount[u]
                              /\ frames'[u] = frames[u] /\ returned'[u] = returned[u]
        BY DEF StartThread, LInv, IInv, TypeOK
  <2> HIDE DEF st
  <2> QED BY <2>1, <2>2 DEF LInv, Life
<1>4. st[cur] \notin Retired
      BY <1>1, RunningOne DEF InCall, Retired, LInv, IInv, TypeOK
<1> HIDE DEF st
<1> QED BY <1>1, <1>2, <1>3, <1>4, CallLives DEF Life

LEMMA WakeupLives ==
    ASSUME LInv, NEW t \in Tids, NEW isr, WakeupThread(t, isr)
    PROVE  Lived
<1> DEFINE w == <<t>>
<1>1. InCall /\ UNCHANGED <<frames, returned>> /\ status[t] \notin Retired
      BY DEF WakeupThread, Retired
<1>2. w \in Seq(Tids) /\ Range(w) = {t}
      BY ListsOne DEF Lists
<1>3. CASE /\ Asleep(t) /\ wait' = WaitAfter(w) /\ UNCHANGED wakeupCount
           /\ Return(StatusAfter(w), ReadyAfter(w), cur, ReschedAfter(w), isr)
  <2>1. \A u \in Range(w) : status[u] \in Blocked
        BY <1>2, <1>3 DEF Asleep
  <2> HIDE DEF w
  <2> QED BY <1>1, <1>2, <1>3, <2>1, AwakenLives
<1>4. CASE /\ ~Asleep(t) /\ wakeupCount' = [wakeupCount EXCEPT ![t] = @ + 1]
           /\ UNCHANGED wait /\ Return(status, ready, cur, resched, isr)
  <2>1. \A u \in Tids \ {t} : wakeupCount'[u] = wakeupCount[u]
        BY <1>4 DEF LInv, IInv, TypeOK
  <2>2. Life(status, wait', wakeupCount', frames', returned')
        BY <1>1, <1>4, <2>1 DEF LInv, Life, Sound, Asleep
  <2>3. status \in [Tids -> Statuses] /\ status[cur] \notin Retired
        BY <1>1, RunningOne DEF LInv, IInv, TypeOK, InCall, Retired
  <2> QED BY <1>1, <1>4, <2>2, <2>3, CallLives
<1> QED BY <1>3, <1>4 DEF WakeupThread

LEMMA SleepLives ==
    ASSUME LInv, SleepThread
    PROVE  Lived
<1>1. cur \in Tids /\ status[cur] = "Running" /\ UNCHANGED <<frames, returned>>
      BY RunningOne DEF SleepThread, InCall
<1>2. CASE /\ wakeupCount' = [wakeupCount EXCEPT ![cur] = @ - 1]
           /\ UNCHANGED <<status, wait, cur, exec, phase>>
  <2>1. Sound(status'[cur], wait'[cur], wakeupCount'[cur], frames'[cur], returned'[cur])
        BY <1>1, <1>2 DEF Sound, Blocked, Retired
  <2>2. \A u \in Tids \ {cur} : wakeupCount'[u] = wakeupCount[u]
        BY <1>2 DEF LInv, IInv, TypeOK
  <2>3. Guested(status', cur', exec', phase')
        BY <1>2 DEF LInv
  <2> QED BY <1>1, <1>2, <2>1, <2>2, <2>3, ThreadLives
<1>3. CASE /\ wakeupCount[cur] = 0 /\ Block([reason |-> "Sleep", arg |-> 0])
           /\ UNCHANGED wakeupCount
      BY <1>1, <1>3, BlockLives
<1> QED BY <1>2, <1>3 DEF SleepThread

LEMMA RecordLives ==
    ASSUME LInv, NEW t \in Tids, NEW s \in Retired, status[t] \in Retired,
           status' = [status EXCEPT ![t] = s],
           UNCHANGED <<wait, wakeupCount, frames, returned, cur, exec, phase>>
    PROVE  Lived
<1>1. \A u \in Tids : /\ status'[u] \in Blocked => status[u] \in Blocked
                      /\ status'[u] \in Retired => status[u] \in Retired
                      /\ status[u] \notin Retired => status'[u] = status[u]
      BY DEF LInv, IInv, TypeOK, Blocked, Retired
<1>2. Guested(status', cur', exec', phase')
      BY <1>1 DEF LInv, Guested
<1> QED BY <1>1, <1>2, StatusLives

LEMMA SuspendLives ==
    ASSUME LInv, NEW t \in Tids, SuspendThread(t)
    PROVE  Lived
<1> DEFINE s == IF status[t] = "Waiting" THEN "WaitingSuspended"
                ELSE IF status[t] \in {"Running", "Ready"} THEN "Suspended" ELSE status[t]
           st == [status EXCEPT ![t] = s]
           c == IF t = cur THEN NoThread ELSE cur
<1>1. /\ InCall /\ UNCHANGED <<wait, wakeupCount, frames, returned>>
      /\ Return(st, Unqueued(t), c, resched \/ t = cur, FALSE)
      BY DEF SuspendThread
<1>2. /\ st \in [Tids -> Statuses]
      /\ \A u \in Tids : /\ st[u] \in Blocked => status[u] \in Blocked
                         /\ st[u] \in Retired => status[u] \in Retired
      BY DEF LInv, IInv, TypeOK, Statuses, Blocked, Retired
<1>3. c = cur \/ c = NoThread
      OBVIOUS
<1> HIDE DEF st, c
<1> QED BY <1>1, <1>2, <1>3, QuietCallLives

LEMMA ResumeLives ==
    ASSUME LInv, NEW t \in Tids, ResumeThread(t)
    PROVE  Lived
<1> DEFINE runnable == suspendCount[t] = 1 /\ status[t] = "Suspended"
           s == IF runnable THEN "Ready"
                ELSE IF suspendCount[t] = 1 /\ status[t] = "WaitingSuspended" THEN "Waiting"
                ELSE status[t]
           st == [status EXCEPT ![t] = s]
           q == IF runnable THEN PushBack(ready, prio[t], t) ELSE ready
<1>1. /\ InCall /\ UNCHANGED <<wait, wakeupCount, frames, returned>>
      /\ \E rs : Return(st, q, cur, rs, FALSE)
      BY DEF ResumeThread
<1>2. /\ st \in [Tids -> Statuses]
      /\ \A u \in Tids : /\ st[u] \in Blocked => status[u] \in Blocked
                         /\ st[u] \in Retired => status[u] \in Retired
      BY DEF LInv, IInv, TypeOK, Statuses, Blocked, Retired
<1> HIDE DEF st, q
<1> QED BY <1>1, <1>2, QuietCallLives

LEMMA ThreadCallLives ==
    ASSUME LInv, ThreadCall
    PROVE  Lived
<1>1. Threads \subseteq Tids /\ Guests \subseteq Tids /\ status \in [Tids -> Statuses]
      BY DEF Guests, Tids, LInv, IInv, TypeOK
<1>2. InCall => cur \in Tids /\ status[cur] = "Running"
      BY RunningOne DEF InCall
<1>3. ASSUME NEW t \in Threads, NEW p \in Priorities \ {0}, CreateThread(t, p) PROVE Lived
      BY <1>1, <1>3, RecordLives DEF CreateThread, Retired, threadVars
<1>4. ASSUME NEW t \in Threads, DeleteThread(t) PROVE Lived
      BY <1>1, <1>4, RecordLives DEF DeleteThread, Retired, threadVars
<1>5. ASSUME NEW t \in Guests, StartThread(t) PROVE Lived
      BY <1>1, <1>5, StartLives
<1>6. ASSUME NEW t \in Guests, TerminateThread(t) PROVE Lived
      BY <1>1, <1>6, TerminateLives
<1>7. ASSUME NEW t \in Guests, ResumeThread(t) PROVE Lived
      BY <1>1, <1>7, ResumeLives
<1>8. ASSUME NEW t \in Guests \cup {cur}, SuspendThread(t) PROVE Lived
      BY <1>1, <1>2, <1>8, SuspendLives DEF SuspendThread
<1>9. ASSUME NEW t \in Guests \cup {cur}, CancelWakeupThread(t) PROVE Lived
  <2>1. /\ wakeupCount' = [wakeupCount EXCEPT ![t] = 0] /\ t \in Tids
        /\ UNCHANGED <<status, wait, frames, returned, cur, exec, phase>>
        BY <1>1, <1>2, <1>9 DEF CancelWakeupThread
  <2>2. wakeupCount'[t] = 0 /\ \A u \in Tids \ {t} : wakeupCount'[u] = wakeupCount[u]
        BY <2>1 DEF LInv, IInv, TypeOK
  <2>3. Sound(status'[t], wait'[t], wakeupCount'[t], frames'[t], returned'[t])
        BY <2>1, <2>2 DEF LInv, Life, Sound
  <2> QED BY <2>1, <2>2, <2>3, ThreadLives DEF LInv
<1>10. ASSUME NEW delete \in BOOLEAN, ExitThread(delete) PROVE Lived
       BY <1>10, ExitLives
<1>11. ASSUME SleepThread PROVE Lived
       BY <1>11, SleepLives
<1>12. ASSUME NEW isr \in BOOLEAN, NEW t \in Guests, WakeupThread(t, isr) PROVE Lived
       BY <1>1, <1>12, WakeupLives
<1>13. ASSUME NEW isr \in BOOLEAN, NEW t \in Guests, ReleaseWaitThread(t, isr) PROVE Lived
  <2> DEFINE w == <<t>>
  <2>1. w \in Seq(Tids) /\ Range(w) = {t}
        BY <1>1, ListsOne DEF Lists
  <2>2. /\ InCall /\ \A u \in Range(w) : status[u] \in Blocked
        /\ Return(StatusAfter(w), ReadyAfter(w), cur, ReschedAfter(w), isr)
        /\ wait' = WaitAfter(w) /\ UNCHANGED <<wakeupCount, frames, returned>>
        BY <1>13, <2>1 DEF ReleaseWaitThread
  <2> HIDE DEF w
  <2> QED BY <2>1, <2>2, AwakenLives
<1>14. ASSUME NEW isr \in BOOLEAN, NEW t \in Guests \cup {cur}, NEW p \in Priorities,
              ChangeThreadPriority(t, p, isr)
       PROVE  Lived
  <2>1. /\ InCall /\ UNCHANGED <<wait, wakeupCount, frames, returned>>
        /\ \E q, rs : Return(status, q, cur, rs, isr)
        BY <1>14 DEF ChangeThreadPriority, threadVars
  <2> QED BY <1>1, <2>1, QuietCallLives
<1>15. ASSUME NEW isr \in BOOLEAN, NEW p \in Priorities, RotateThreadReadyQueue(p, isr) PROVE Lived
  <2> DEFINE st == [status EXCEPT ![cur] = "Ready"]
  <2>1. InCall /\ UNCHANGED <<wait, wakeupCount, frames, returned>>
        BY <1>15 DEF RotateThreadReadyQueue, threadVars
  <2>2. (\E q, rs : Return(st, q, NoThread, rs, isr)) \/ (\E q, rs : Return(status, q, cur, rs, isr))
        BY <1>15 DEF RotateThreadReadyQueue
  <2>3. /\ st \in [Tids -> Statuses]
        /\ \A u \in Tids : /\ st[u] \in Blocked => status[u] \in Blocked
                           /\ st[u] \in Retired => status[u] \in Retired
        BY <1>1, <1>2, <2>1 DEF Statuses, Blocked, Retired
  <2> HIDE DEF st
  <2> QED BY <1>1, <2>1, <2>2, <2>3, QuietCallLives
<1>16. ASSUME NEW n \in 1 .. MaxTicks, WaitVSync(n) PROVE Lived
       BY <1>2, <1>16, BlockLives DEF WaitVSync
<1>17. ASSUME RefusedCall PROVE Lived
       BY <1>1, <1>17, QuietCallLives DEF RefusedCall, threadVars
<1> QED BY <1>3, <1>4, <1>5, <1>6, <1>7, <1>8, <1>9, <1>10, <1>11, <1>12, <1>13, <1>14,
           <1>15, <1>16, <1>17
        DEF ThreadCall, EndsWaitOf, OtherThreadCall

\* Nothing about threads changes.
LEMMA SameLives ==
    ASSUME LInv, UNCHANGED <<status, wait, wakeupCount, frames, returned, cur, exec, phase>>
    PROVE  Lived
BY DEF LInv, Lived

LEMMA SemaCallLives ==
    ASSUME LInv, SemaCall
    PROVE  Lived
<1>1. PICK s \in Semas :
         \/ \E max \in 1 .. MaxCount, init \in 0 .. MaxCount : CreateSema(s, init, max)
         \/ \E isr \in BOOLEAN : DeleteSema(s, isr) \/ SignalSema(s, isr)
         \/ PollSema(s)
         \/ WaitSema(s)
      BY DEF SemaCall
<1>2. waiters[s] \in Seq(Tids) /\ \A t \in Range(waiters[s]) : status[t] \in Blocked
      BY DEF LInv, IInv, Waited, Lists, OnSemaIn
<1>3. ASSUME NEW max, NEW init, CreateSema(s, init, max) PROVE Lived
      BY <1>3, SameLives DEF CreateSema, threadVars
<1>4. ASSUME NEW isr \in BOOLEAN, DeleteSema(s, isr) PROVE Lived
      BY <1>2, <1>4, AwakenLives DEF DeleteSema
<1>5. ASSUME NEW isr \in BOOLEAN, SignalSema(s, isr) PROVE Lived
  <2> DEFINE w == <<Head(waiters[s])>>
  <2>1. InCall /\ UNCHANGED <<wakeupCount, frames, returned>>
        BY <1>5 DEF SignalSema
  <2>2. CASE /\ waiters[s] # <<>> /\ wait' = WaitAfter(w)
             /\ Return(StatusAfter(w), ReadyAfter(w), cur, ReschedAfter(w), isr)
    <3>1. Head(waiters[s]) \in Tids /\ status[Head(waiters[s])] \in Blocked
          BY <1>2, <2>2, TailFacts
    <3>2. w \in Seq(Tids) /\ Range(w) = {Head(waiters[s])}
          BY <3>1, ListsOne DEF Lists
    <3> HIDE DEF w
    <3> QED BY <2>1, <2>2, <3>1, <3>2, AwakenLives
  <2>3. CASE UNCHANGED wait /\ Return(status, ready, cur, resched, isr)
    <3>1. status \in [Tids -> Statuses]
          BY DEF LInv, IInv, TypeOK
    <3> QED BY <2>1, <2>3, <3>1, QuietCallLives
  <2> QED BY <1>5, <2>2, <2>3 DEF SignalSema
<1>6. CASE PollSema(s)
      BY <1>6, SameLives DEF PollSema, threadVars
<1>7. CASE WaitSema(s)
  <2>1. cur \in Tids /\ UNCHANGED <<wakeupCount, frames, returned>>
        BY <1>7, RunningOne DEF WaitSema, InCall
  <2>2. CASE UNCHANGED <<status, wait, cur, exec, phase, waiters>>
        BY <2>1, <2>2, SameLives
  <2>3. CASE Block([reason |-> "Semaphore", arg |-> s])
        BY <2>1, <2>3, BlockLives
  <2> QED BY <1>7, <2>2, <2>3 DEF WaitSema
<1> QED BY <1>1, <1>3, <1>4, <1>5, <1>6, <1>7

LEMMA GuestStepLives ==
    ASSUME LInv, GuestStep
    PROVE  Lived
<1>1. CASE GuestReturns
  <2>1. /\ exec \in Tids /\ status[exec] \notin Retired
        /\ returned' = [returned EXCEPT ![exec] = TRUE]
        /\ UNCHANGED <<status, wait, wakeupCount, frames>>
        BY <1>1 DEF GuestReturns, LInv, Guested, queueVars
  <2>2. \A u \in Tids \ {exec} : returned'[u] = returned[u]
        BY <2>1 DEF LInv, IInv, TypeOK
  <2>3. Sound(status'[exec], wait'[exec], wakeupCount'[exec], frames'[exec], returned'[exec])
        BY <2>1 DEF LInv, Life, Sound
  <2>4. Guested(status', cur', exec', phase')
        BY <1>1 DEF GuestReturns, Guested
  <2> QED BY <2>1, <2>2, <2>3, <2>4, ThreadLives
<1>2. CASE GuestCheckpoint \/ SliceExpires
  <2>1. UNCHANGED <<status, wait, wakeupCount, frames, returned>> /\ phase' = "leaving"
        BY <1>2 DEF GuestCheckpoint, SliceExpires, queueVars, threadVars
  <2>2. Guested(status', cur', exec', phase')
        BY <2>1 DEF Guested
  <2> QED BY <2>1, <2>2, StatusLives
<1> QED BY <1>1, <1>2, ThreadCallLives, SemaCallLives DEF GuestStep

LEMMA VBlankLives ==
    ASSUME LInv, NEW h, VBlank(h)
    PROVE  Lived
<1> DEFINE onVSync == {t \in Tids : status[t] \in Blocked /\ wait[t].reason = "VSync"}
           due == {t \in onVSync : wait[t].arg = 1}
<1>1. /\ phase \in {"leaving", "events"} /\ UNCHANGED <<wakeupCount, frames, returned, phase>>
      /\ wait' = [t \in Tids |->
                    IF t \in due THEN NoWait
                    ELSE IF t \in onVSync THEN [wait[t] EXCEPT !.arg = @ - 1] ELSE wait[t]]
      BY DEF VBlank
<1>2. PICK w \in InIdOrder(due) : status' = StatusAfter(w)
      BY DEF VBlank
<1>3. \A t \in due : status[t] \in Blocked
      OBVIOUS
<1>4. \A t \in Tids : wait'[t].reason = "Sleep" => wait[t].reason = "Sleep"
  <2>1. \A t \in onVSync \ due : wait'[t].reason = wait[t].reason
    <3>1. ASSUME NEW t \in onVSync \ due PROVE wait'[t].reason = wait[t].reason
      <4>1. wait[t] \in Waits
            BY DEF LInv, IInv, TypeOK
      <4>2. wait'[t] = [wait[t] EXCEPT !.arg = @ - 1]
            BY <1>1
      <4> QED BY <4>1, <4>2 DEF Waits, NoWait
    <3> QED BY <3>1
  <2>2. \A t \in due : wait'[t].reason = "None"
        BY <1>1 DEF NoWait
  <2>3. \A t \in Tids \ onVSync : wait'[t] = wait[t]
        BY <1>1
  <2> HIDE DEF due
  <2> QED BY <2>1, <2>2, <2>3
<1>5. due \in SUBSET Tids
      OBVIOUS
<1> HIDE DEF due, onVSync
<1>6. Range(w) = due
      BY <1>5, InIdOrderTyped
<1>7. \A t \in Tids : status'[t] = IF t \in due THEN Awake(t) ELSE status[t]
      BY <1>2, <1>6 DEF StatusAfter
<1>8. Life(status', wait', wakeupCount', frames', returned')
      BY <1>1, <1>4, <1>7 DEF LInv, Life, Sound, Awake, Blocked, Retired
<1>9. Guested(status', cur', exec', phase')
      BY <1>1 DEF Guested
<1> QED BY <1>8, <1>9 DEF Lived

LEMMA LoopStepLives ==
    ASSUME LInv, LoopStep
    PROVE  Lived
<1>1. ASSUME NEW h \in VBlankWork, VBlank(h) PROVE Lived
      BY <1>1, VBlankLives
<1>2. ASSUME phase' # "guest", UNCHANGED <<status, wait, wakeupCount, frames, returned>>
      PROVE  Lived
      BY <1>2, StatusLives DEF Guested
<1>3. ASSUME NEW k \in Kinds, OtherEvent(k) PROVE Lived
      BY <1>2, <1>3 DEF OtherEvent, queueVars, threadVars
<1>4. CASE ApplyPendingPreemption
  <2>1. UNCHANGED <<wait, wakeupCount, frames, returned>> /\ phase' # "guest"
        BY <1>4 DEF ApplyPendingPreemption, threadVars
  <2>2. \A t \in Tids : status'[t] \in {status[t], "Ready"}
        BY <1>4 DEF ApplyPendingPreemption, LInv, IInv, TypeOK
  <2>3. \A t \in Tids : /\ status'[t] \in Blocked => status[t] \in Blocked
                        /\ status'[t] \in Retired => status[t] \in Retired
        BY <2>2 DEF Blocked, Retired
  <2>4. Guested(status', cur', exec', phase')
        BY <2>1 DEF Guested
  <2> QED BY <2>1, <2>3, <2>4, StatusLives
<1>5. CASE SelectReady
  <2>1. UNCHANGED <<wait, wakeupCount, frames, returned>> /\ phase' # "guest"
        BY <1>5 DEF SelectReady, threadVars
  <2>2. \A t \in Tids : status'[t] \in {status[t], "Running"}
        BY <1>5 DEF SelectReady, LInv, IInv, TypeOK
  <2>3. \A t \in Tids : /\ status'[t] \in Blocked => status[t] \in Blocked
                        /\ status'[t] \in Retired => status[t] \in Retired
        BY <2>2 DEF Blocked, Retired
  <2>4. Guested(status', cur', exec', phase')
        BY <2>1 DEF Guested
  <2> QED BY <2>1, <2>3, <2>4, StatusLives
<1>6. ASSUME NEW d \in Dispatchers, AcquireDispatcher(d) PROVE Lived
  <2>1. d \in Tids /\ phase' # "guest" /\ UNCHANGED <<wait, wakeupCount, returned>>
        BY <1>6 DEF AcquireDispatcher, Tids
  <2>2. /\ status'[d] = "Running"
        /\ \A u \in Tids \ {d} : status'[u] = status[u] /\ frames'[u] = frames[u]
        BY <1>6, <2>1 DEF AcquireDispatcher, LInv, IInv, TypeOK
  <2>3. Sound(status'[d], wait'[d], wakeupCount'[d], frames'[d], returned'[d])
        BY <2>2 DEF Sound, Blocked, Retired
  <2>4. Guested(status', cur', exec', phase')
        BY <2>1 DEF Guested
  <2> QED BY <2>1, <2>2, <2>3, <2>4, ThreadLives
<1>7. CASE Idle \/ DispatchCheckpoint
      BY <1>2, <1>7 DEF Idle, DispatchCheckpoint, queueVars, threadVars
<1>8. ASSUME Selected, phase' # "guest", UNCHANGED <<status, wait, wakeupCount>>,
             \A u \in Tids \ {cur} : frames'[u] = frames[u] /\ returned'[u] = returned[u]
      PROVE  Lived
  <2>1. cur \in Tids /\ status'[cur] = "Running"
        BY <1>8, RunningOne DEF Selected
  <2>2. Sound(status'[cur], wait'[cur], wakeupCount'[cur], frames'[cur], returned'[cur])
        BY <2>1 DEF Sound, Blocked, Retired
  <2>3. Guested(status', cur', exec', phase')
        BY <1>8 DEF Guested
  <2> QED BY <1>8, <2>1, <2>2, <2>3, ThreadLives
<1>9. CASE PopFrame
      BY <1>8, <1>9 DEF PopFrame, queueVars, LInv, IInv, TypeOK
<1>10. CASE PushInvocation
       BY <1>8, <1>10 DEF PushInvocation, queueVars, LInv, IInv, TypeOK
<1>11. ASSUME Selected, RetireCurrent PROVE Lived
  <2>1. cur \in Tids /\ Retire(cur, "Dormant") /\ Guested(status', cur', exec', phase')
        BY <1>11, RunningOne DEF Selected, RetireCurrent, Guested
  <2>2. "Dormant" \in Statuses /\ "Dormant" \notin Blocked
        BY DEF Statuses, Blocked
  <2> QED BY <2>1, <2>2, RetireLives
<1>12. CASE ThreadReturns
       BY <1>11, <1>12 DEF ThreadReturns
<1>13. CASE MissingFunction
       BY <1>8, <1>11, <1>13 DEF MissingFunction, Runnable, queueVars, LInv, IInv, TypeOK
<1>14. CASE EnterGuest
  <2>1. /\ cur \in Tids /\ status[cur] = "Running" /\ exec' = cur /\ cur' = cur
        /\ UNCHANGED <<status, wait, wakeupCount, frames, returned>>
        BY <1>14, RunningOne DEF EnterGuest, Runnable, Selected, queueVars, threadVars
  <2>2. Guested(status', cur', exec', phase')
        BY <2>1 DEF Guested, Retired
  <2> QED BY <2>1, <2>2, StatusLives
<1> QED BY <1>1, <1>3, <1>4, <1>5, <1>6, <1>7, <1>9, <1>10, <1>12, <1>13, <1>14 DEF LoopStep

LEMMA LifeInvariant == Spec => []LInv
<1>1. Init => LInv
  <2>1. Init => /\ Life(status, wait, wakeupCount, frames, returned)
                /\ Guested(status, cur, exec, phase)
        BY DEF Init, Life, Sound, Guested, Blocked
  <2> QED BY <2>1, InitGood DEF LInv
<1>2. LInv /\ [Next]_vars => LInv'
  <2> SUFFICES ASSUME LInv, [Next]_vars PROVE LInv'
      OBVIOUS
  <2>1. IInv'
        BY NextGood DEF LInv
  <2>2. CASE Next
        BY <2>1, <2>2, GuestStepLives, LoopStepLives DEF Next, Lived, LInv
  <2>3. CASE UNCHANGED vars
        BY <2>1, <2>3, SameLives DEF vars, Lived, LInv
  <2> QED BY <2>2, <2>3
<1> QED BY <1>1, <1>2, PTL DEF Spec

\* sleepCurrent, wakeupThread and cancelWakeup: no thread sleeps while a
\* wake-up is remembered for it, in whatever order the calls come.
THEOREM Sleepers == Spec => []SleeperHasNoWakeup
<1>1. LInv => SleeperHasNoWakeup
      BY DEF LInv, Life, Sound, SleeperHasNoWakeup
<1> QED BY <1>1, LifeInvariant, PTL

\* makeDormant and exitCurrent leave no wait, suspension, wake-up or stacked
\* invocation to the next thread started with the same id.
THEOREM CleanRetirement == Spec => []RetiredIsClean
<1>1. LInv => RetiredIsClean
  <2> SUFFICES ASSUME LInv, NEW t \in Tids, status[t] \in {"Dormant", "Absent"}
               PROVE  /\ wait[t] = NoWait /\ suspendCount[t] = 0 /\ wakeupCount[t] = 0
                      /\ frames[t] = <<>> /\ ~returned[t]
      BY DEF RetiredIsClean
  <2>1. suspendCount[t] = 0 /\ wait[t] = NoWait
        BY Inactive DEF LInv
  <2> QED BY <2>1 DEF LInv, Life, Sound, Retired
<1> QED BY <1>1, LifeInvariant, PTL
=============================================================================
