---------------------------- MODULE EeScheduler ----------------------------
(***************************************************************************)
(* The EE thread scheduler of the runtime                                  *)
(* (ps2xRuntime/src/lib/Kernel/EeScheduler.cpp) together with the thread   *)
(* and semaphore system calls that drive it (Kernel/Syscalls/Thread.cpp,   *)
(* Kernel/Syscalls/Sync.cpp).                                              *)
(*                                                                         *)
(* One host thread, the executor, alternates between the dispatch loop     *)
(* EeScheduler::run() and guest code.  Guest code can be a thread body or  *)
(* an invocation frame (an interrupt handler, an alarm or vsync callback)  *)
(* that run() stacked on whichever thread was running.  "phase" says where *)
(* the executor is:                                                        *)
(*   "guest"     inside a recompiled function, on the context of "exec";   *)
(*   "leaving"   back in run(), in the processPendingEvents() after it;    *)
(*   "events"    in the processPendingEvents() at the top of the loop;     *)
(*   "dispatch"  in the rest of the loop body.                             *)
(* Time is abstract: an event may be due, and the time slice may be used   *)
(* up, at any checkpoint.                                                  *)
(***************************************************************************)
EXTENDS Integers, FiniteSets, SequencesExt, KernelLists

CONSTANTS
    Threads,        \* ids the guest can create, the main thread's excluded
    Dispatchers,    \* ids of the host-owned threads that run frames when idle
    Semas,          \* semaphore ids
    LowestPriority, \* kPriorityCount - 1
    MaxCount,       \* bound on a semaphore's maxCount
    MaxSuspend,     \* bound on nested suspensions
    MaxWakeup,      \* bound on remembered wake-ups
    MaxTicks,       \* bound on the VSyncs one wait lasts
    MaxFrames       \* bound on invocations queued or stacked at one time

NoThread == 0       \* m_currentThreadId when nothing is selected
Main == 1           \* kMainThreadId

Guests == {Main} \cup Threads
Tids == Guests \cup Dispatchers
Priorities == 0 .. LowestPriority

ASSUME IdsAssumption ==
    /\ Threads \subseteq 2 .. 255
    /\ Dispatchers \subseteq {-1, -2, -3}
    /\ Semas \subseteq Nat

ASSUME BoundsAssumption ==
    /\ LowestPriority \in Nat \ {0}
    /\ MaxCount \in Nat \ {0}
    /\ MaxSuspend \in Nat
    /\ MaxWakeup \in Nat
    /\ MaxTicks \in Nat
    /\ MaxFrames \in Nat

VARIABLES
    status,        \* status[t]; "Absent": t is not in m_threads
    prio,          \* currentPriority; 0 for an absent thread
    suspendCount,
    wakeupCount,
    wait,          \* reason, and the semaphore id or the VSyncs left
    frames,        \* kinds of the stacked invocations, innermost last
    returned,      \* has the active context run to its end (pc = 0)?
    ready,         \* m_readyQueues
    cur,           \* m_currentThreadId
    exec,          \* thread whose context the executor runs, if any
    phase,
    resched,       \* m_rescheduleRequested
    sliceExpired,  \* m_timeSliceExpired
    pending,       \* m_pendingInvocations, by kind
    limit,         \* maxCount; 0: no such semaphore
    count,
    waiters

threadVars == <<suspendCount, wakeupCount, wait, frames, returned>>
semaVars == <<limit, count, waiters>>
queueVars == <<status, ready, cur, resched>>
vars == <<status, prio, suspendCount, wakeupCount, wait, frames, returned, ready,
          cur, exec, phase, resched, sliceExpired, pending, limit, count, waiters>>

Statuses == {"Absent", "Running", "Ready", "Waiting", "WaitingSuspended",
             "Suspended", "Dormant"}
Blocked == {"Waiting", "WaitingSuspended"}
Kinds == {"Interrupt", "Callback"}
NoWait == [reason |-> "None", arg |-> 0]
Waits == [reason : {"None", "Sleep"}, arg : {0}]
           \cup [reason : {"Semaphore"}, arg : Semas]
           \cup [reason : {"VSync"}, arg : Nat \ {0}]

(***************************************************************************)
(* Ready queues.                                                           *)
(***************************************************************************)
PushBack(q, p, t) == [q EXCEPT ![p] = Append(@, t)]
PushFront_Back(q, p, t) == PushBack(q, p, t) \* mutant: a preempted thread loses its turn
PushFront(q, p, t) == [q EXCEPT ![p] = <<t>> \o @]

\* removeReady: only a Ready thread is in a queue.
Unqueued_Never(t) == ready                  \* mutant: the entry stays in its queue
Unqueued(t) ==
    IF status[t] = "Ready"
    THEN [ready EXCEPT ![prio[t]] = RemoveFirst(@, t)]
    ELSE ready

\* Does making t ready ask for a preemption (requestPreemptionIfHigher)?
Outranks_Inverted(t) == cur # NoThread /\ prio[t] > prio[cur] \* mutant: larger means higher
Outranks(t) == cur # NoThread /\ prio[t] < prio[cur]

\* m_insideInterrupt: the active frame of the executing thread is an IRQ handler.
InsideInterrupt == frames[exec] # <<>> /\ Last(frames[exec]) = "Interrupt"

\* removeFromWaitObject: t leaves the queue of the semaphore it waits on.
Unlisted(t) ==
    IF wait[t].reason = "Semaphore" /\ limit[wait[t].arg] # 0
    THEN [waiters EXCEPT ![wait[t].arg] = RemoveFirst(@, t)]
    ELSE waiters

(***************************************************************************)
(* makeReady applied to the threads of w, in order: what it does to their  *)
(* status, the ready queues, the waits and the preemption request.         *)
(***************************************************************************)
Awake_Anyway(t) == "Ready"                  \* mutant: a wake-up ends a suspension
Awake(t) == IF suspendCount[t] = 0 THEN "Ready" ELSE "Suspended"
StatusAfter(w) == [t \in Tids |-> IF t \in Range(w) THEN Awake(t) ELSE status[t]]
WaitAfter(w) == [t \in Tids |-> IF t \in Range(w) THEN NoWait ELSE wait[t]]
ReadyAfter(w) ==
    [p \in Priorities |->
        ready[p] \o Among(w, {t \in Tids : suspendCount[t] = 0 /\ prio[t] = p})]
ReschedAfter(w) == resched \/ \E t \in Range(w) : suspendCount[t] = 0 /\ Outranks(t)

(***************************************************************************)
(* transferIfRequested, the end of a system call that has brought the      *)
(* scheduler to statuses st, queues q, current thread c and request rs: an *)
(* i-call and an interrupt handler go on; anything else gives up the       *)
(* processor at once when a preemption is requested.                       *)
(***************************************************************************)
Return(st, q, c, rs, isr) ==
    \/ /\ isr \/ InsideInterrupt \/ ~rs
       /\ status' = st /\ ready' = q /\ cur' = c /\ resched' = rs
       /\ UNCHANGED <<sliceExpired, phase, exec>>
    \/ /\ ~isr /\ ~InsideInterrupt /\ rs
       /\ status' = IF c = NoThread THEN st ELSE [st EXCEPT ![c] = "Ready"]
       /\ ready' = IF c = NoThread THEN q ELSE PushFront(q, prio'[c], c)
       /\ cur' = NoThread /\ resched' = FALSE /\ sliceExpired' = FALSE
       /\ phase' = "leaving" /\ exec' = NoThread

\* blockCurrent: the caller waits for w, and control returns to run().
Block(w) ==
    /\ wait' = [wait EXCEPT ![cur] = w]
    /\ status' = [status EXCEPT
                    ![cur] = IF suspendCount[cur] = 0 THEN "Waiting" ELSE "WaitingSuspended"]
    /\ cur' = NoThread /\ phase' = "leaving" /\ exec' = NoThread

\* makeDormant(t), with final status st ("Absent": the record is erased too).
Retire_KeepingFrames(t, st) ==              \* mutant: the invocations survive
    /\ status' = [status EXCEPT ![t] = st]
    /\ ready' = Unqueued(t) /\ waiters' = Unlisted(t)
    /\ wait' = [wait EXCEPT ![t] = NoWait]
    /\ suspendCount' = [suspendCount EXCEPT ![t] = 0]
    /\ wakeupCount' = [wakeupCount EXCEPT ![t] = 0]
    /\ returned' = [returned EXCEPT ![t] = FALSE]
    /\ UNCHANGED frames
Retire(t, st) ==
    /\ status' = [status EXCEPT ![t] = st]
    /\ ready' = Unqueued(t)
    /\ waiters' = Unlisted(t)
    /\ wait' = [wait EXCEPT ![t] = NoWait]
    /\ suspendCount' = [suspendCount EXCEPT ![t] = 0]
    /\ wakeupCount' = [wakeupCount EXCEPT ![t] = 0]
    /\ frames' = [frames EXCEPT ![t] = <<>>]
    /\ returned' = [returned EXCEPT ![t] = FALSE]

(***************************************************************************)
(* System calls.  They run on behalf of the current thread; isr tells the  *)
(* i-variant (iSignalSema, ...) from the plain one.  A call that fails     *)
(* changes no kernel object: see RefusedCall.                              *)
(***************************************************************************)
InCall == phase = "guest" /\ cur # NoThread

CreateThread(t, p) ==
    /\ InCall /\ status[t] = "Absent"
    /\ status' = [status EXCEPT ![t] = "Dormant"]
    /\ prio' = [prio EXCEPT ![t] = p]
    /\ UNCHANGED <<threadVars, ready, cur, exec, phase, resched, sliceExpired, pending, semaVars>>

DeleteThread(t) ==
    /\ InCall /\ t # Main /\ status[t] = "Dormant"
    /\ status' = [status EXCEPT ![t] = "Absent"] /\ prio' = [prio EXCEPT ![t] = 0]
    /\ UNCHANGED <<threadVars, ready, cur, exec, phase, resched, sliceExpired,
                   pending, semaVars>>

StartThread(t) ==
    /\ InCall /\ status[t] = "Dormant"
    /\ suspendCount' = [suspendCount EXCEPT ![t] = 0]
    /\ wakeupCount' = [wakeupCount EXCEPT ![t] = 0]
    /\ wait' = [wait EXCEPT ![t] = NoWait]
    /\ returned' = [returned EXCEPT ![t] = FALSE]
    /\ UNCHANGED <<prio, frames, pending, semaVars>>
    /\ Return([status EXCEPT ![t] = "Ready"], PushBack(ready, prio[t], t), cur,
              resched \/ Outranks(t), FALSE)

\* ExitThread and ExitDeleteThread of a thread with no exit handlers.
ExitThread(delete) ==
    /\ InCall
    /\ \/ delete /\ cur # Main /\ Retire(cur, "Absent") /\ prio' = [prio EXCEPT ![cur] = 0]
       \/ ~(delete /\ cur # Main) /\ Retire(cur, "Dormant") /\ UNCHANGED prio
    /\ cur' = NoThread /\ phase' = "leaving" /\ exec' = NoThread
    /\ UNCHANGED <<resched, sliceExpired, pending, limit, count>>

TerminateThread(t) ==
    /\ InCall /\ t # cur /\ status[t] \notin {"Absent", "Dormant"}
    /\ Retire(t, "Dormant")
    /\ UNCHANGED <<prio, cur, exec, phase, resched, sliceExpired, pending, limit, count>>

SuspendThread(t) ==
    /\ InCall /\ status[t] \notin {"Absent", "Dormant"} /\ suspendCount[t] < MaxSuspend
    /\ suspendCount' = [suspendCount EXCEPT ![t] = @ + 1]
    /\ UNCHANGED <<prio, wakeupCount, wait, frames, returned, pending, semaVars>>
    /\ LET st == IF status[t] = "Waiting" THEN "WaitingSuspended"
                 ELSE IF status[t] \in {"Running", "Ready"} THEN "Suspended"
                 ELSE status[t]
       IN  Return([status EXCEPT ![t] = st], Unqueued(t),
                  IF t = cur THEN NoThread ELSE cur, resched \/ t = cur, FALSE)

ResumeThread(t) ==
    /\ InCall /\ suspendCount[t] > 0
    /\ suspendCount' = [suspendCount EXCEPT ![t] = @ - 1]
    /\ UNCHANGED <<prio, wakeupCount, wait, frames, returned, pending, semaVars>>
    /\ LET released == suspendCount[t] = 1
           runnable == released /\ status[t] = "Suspended"
           st == IF runnable THEN "Ready"
                 ELSE IF released /\ status[t] = "WaitingSuspended" THEN "Waiting"
                 ELSE status[t]
       IN  Return([status EXCEPT ![t] = st],
                  IF runnable THEN PushBack(ready, prio[t], t) ELSE ready,
                  cur, resched \/ (runnable /\ Outranks(t)), FALSE)

SleepThread ==
    /\ InCall
    /\ \/ /\ wakeupCount[cur] > 0
          /\ wakeupCount' = [wakeupCount EXCEPT ![cur] = @ - 1]
          /\ UNCHANGED <<status, wait, cur, exec, phase>>
       \/ /\ wakeupCount[cur] = 0
          /\ Block([reason |-> "Sleep", arg |-> 0])
          /\ UNCHANGED wakeupCount
    /\ UNCHANGED <<prio, suspendCount, frames, returned, ready, resched, sliceExpired,
                   pending, semaVars>>

Asleep_NotSuspended(t) == status[t] = "Waiting" /\ wait[t].reason = "Sleep" \* mutant
Asleep(t) == status[t] \in Blocked /\ wait[t].reason = "Sleep"

WakeupThread(t, isr) ==
    /\ InCall /\ t # cur /\ status[t] \notin {"Absent", "Dormant"}
    /\ UNCHANGED <<prio, suspendCount, frames, returned, pending, semaVars>>
    /\ \/ /\ Asleep(t)
          /\ wait' = WaitAfter(<<t>>) /\ UNCHANGED wakeupCount
          /\ Return(StatusAfter(<<t>>), ReadyAfter(<<t>>), cur, ReschedAfter(<<t>>), isr)
       \/ /\ ~Asleep(t) /\ wakeupCount[t] < MaxWakeup
          /\ wakeupCount' = [wakeupCount EXCEPT ![t] = @ + 1] /\ UNCHANGED wait
          /\ Return(status, ready, cur, resched, isr)

CancelWakeupThread(t) ==
    /\ InCall /\ status[t] # "Absent"
    /\ wakeupCount' = [wakeupCount EXCEPT ![t] = 0]
    /\ UNCHANGED <<status, prio, suspendCount, wait, frames, returned, ready, cur, exec,
                   phase, resched, sliceExpired, pending, semaVars>>

\* The guest may not ask for priority 0; only the main thread starts there.
ChangeThreadPriority(t, p, isr) ==
    /\ InCall /\ p # 0 /\ status[t] # "Absent"
    /\ prio' = [prio EXCEPT ![t] = p]
    /\ UNCHANGED <<threadVars, pending, semaVars>>
    /\ \/ /\ status[t] = "Ready"
          /\ Return(status, PushBack(Unqueued(t), p, t), cur, resched \/ p < prio[cur], isr)
       \/ /\ status[t] # "Ready"
          /\ Return(status, ready, cur,
                    resched \/ (t = cur /\ \E q \in 0 .. p - 1 : ready[q] # <<>>), isr)

\* Priority 0 stands for the caller's own.
RotateThreadReadyQueue(p, isr) ==
    /\ InCall
    /\ UNCHANGED <<prio, threadVars, pending, semaVars>>
    /\ LET q == IF p = 0 THEN prio[cur] ELSE p
       IN  \/ /\ q = prio[cur]
              /\ Return([status EXCEPT ![cur] = "Ready"], PushBack(ready, q, cur),
                        NoThread, TRUE, isr)
           \/ /\ q # prio[cur]
              /\ Return(status,
                        IF Len(ready[q]) > 1
                        THEN [ready EXCEPT ![q] = Append(Tail(@), Head(@))] ELSE ready,
                        cur, resched, isr)

ReleaseWaitThread(t, isr) ==
    /\ InCall /\ status[t] \in Blocked
    /\ waiters' = Unlisted(t) /\ wait' = WaitAfter(<<t>>)
    /\ UNCHANGED <<prio, suspendCount, wakeupCount, frames, returned, pending, limit, count>>
    /\ Return(StatusAfter(<<t>>), ReadyAfter(<<t>>), cur, ReschedAfter(<<t>>), isr)

\* waitVSync for the n-th VSync from now.
WaitVSync(n) ==
    /\ InCall /\ Block([reason |-> "VSync", arg |-> n])
    /\ UNCHANGED <<prio, suspendCount, wakeupCount, frames, returned, ready, resched,
                   sliceExpired, pending, semaVars>>

CreateSema(s, init, max) ==
    /\ InCall /\ limit[s] = 0 /\ init <= max
    /\ limit' = [limit EXCEPT ![s] = max] /\ count' = [count EXCEPT ![s] = init]
    /\ UNCHANGED <<status, prio, threadVars, ready, cur, exec, phase, resched,
                   sliceExpired, pending, waiters>>

DeleteSema(s, isr) ==
    /\ InCall /\ limit[s] # 0
    /\ limit' = [limit EXCEPT ![s] = 0] /\ count' = [count EXCEPT ![s] = 0]
    /\ waiters' = [waiters EXCEPT ![s] = <<>>]
    /\ wait' = WaitAfter(waiters[s])
    /\ UNCHANGED <<prio, suspendCount, wakeupCount, frames, returned, pending>>
    /\ Return(StatusAfter(waiters[s]), ReadyAfter(waiters[s]), cur,
              ReschedAfter(waiters[s]), isr)

SignalSema_Last(s, isr) ==                  \* mutant: the last waiter is served first
    /\ InCall /\ limit[s] # 0
    /\ UNCHANGED <<prio, suspendCount, wakeupCount, frames, returned, pending, limit>>
    /\ \/ /\ waiters[s] # <<>>
          /\ waiters' = [waiters EXCEPT ![s] = Front(@)] /\ UNCHANGED count
          /\ LET w == <<Last(waiters[s])>>
             IN  /\ wait' = WaitAfter(w)
                 /\ Return(StatusAfter(w), ReadyAfter(w), cur, ReschedAfter(w), isr)
       \/ /\ waiters[s] = <<>> /\ count[s] < limit[s]
          /\ count' = [count EXCEPT ![s] = @ + 1] /\ UNCHANGED <<waiters, wait>>
          /\ Return(status, ready, cur, resched, isr)
\* A signal is handed to the first waiter; without one it is counted.
SignalSema(s, isr) ==
    /\ InCall /\ limit[s] # 0
    /\ UNCHANGED <<prio, suspendCount, wakeupCount, frames, returned, pending, limit>>
    /\ \/ /\ waiters[s] # <<>>
          /\ waiters' = [waiters EXCEPT ![s] = Tail(@)] /\ UNCHANGED count
          /\ LET w == <<Head(waiters[s])>>
             IN  /\ wait' = WaitAfter(w)
                 /\ Return(StatusAfter(w), ReadyAfter(w), cur, ReschedAfter(w), isr)
       \/ /\ waiters[s] = <<>> /\ count[s] < limit[s]
          /\ count' = [count EXCEPT ![s] = @ + 1] /\ UNCHANGED <<waiters, wait>>
          /\ Return(status, ready, cur, resched, isr)

Available(s) == limit[s] # 0 /\ count[s] > 0

PollSema(s) ==
    /\ InCall /\ Available(s)
    /\ count' = [count EXCEPT ![s] = @ - 1]
    /\ UNCHANGED <<status, prio, threadVars, ready, cur, exec, phase, resched,
                   sliceExpired, pending, limit, waiters>>

WaitSema(s) ==
    /\ InCall /\ limit[s] # 0
    /\ \/ /\ Available(s)
          /\ count' = [count EXCEPT ![s] = @ - 1]
          /\ UNCHANGED <<status, wait, cur, exec, phase, waiters>>
       \/ /\ ~Available(s)
          /\ waiters' = [waiters EXCEPT ![s] = Append(@, cur)]
          /\ Block([reason |-> "Semaphore", arg |-> s])
          /\ UNCHANGED count
    /\ UNCHANGED <<prio, suspendCount, wakeupCount, frames, returned, ready, resched,
                   sliceExpired, pending, limit>>

\* A call that fails still ends in transferIfRequested.
RefusedCall ==
    /\ InCall
    /\ UNCHANGED <<prio, threadVars, pending, semaVars>>
    /\ Return(status, ready, cur, resched, FALSE)

(***************************************************************************)
(* Guest code between system calls.                                        *)
(***************************************************************************)
\* The function returns to run() with the context's pc at 0.
GuestReturns ==
    /\ phase = "guest"
    /\ returned' = [returned EXCEPT ![exec] = TRUE]
    /\ phase' = "leaving" /\ exec' = NoThread
    /\ UNCHANGED <<queueVars, prio, suspendCount, wakeupCount, wait, frames, sliceExpired,
                   pending, semaVars>>

\* A checkpoint finds an event due, or checkpointPending set.
GuestCheckpoint ==
    /\ phase = "guest"
    /\ phase' = "leaving" /\ exec' = NoThread
    /\ UNCHANGED <<queueVars, prio, threadVars, sliceExpired, pending, semaVars>>

\* hasReadyAtOrAbovePriority of the current thread.
HasPeer == cur # NoThread /\ \E p \in 0 .. prio[cur] : ready[p] # <<>>

\* A checkpoint in guest code finds the time slice used up.
SliceExpires ==
    /\ phase = "guest" /\ HasPeer
    /\ resched' = TRUE /\ sliceExpired' = TRUE
    /\ phase' = "leaving" /\ exec' = NoThread
    /\ UNCHANGED <<status, ready, cur, prio, threadVars, pending, semaVars>>

(***************************************************************************)
(* The dispatch loop: processPendingEvents.                                *)
(***************************************************************************)
Outstanding == Len(pending) + Cardinality(UNION {{t} \X DOMAIN frames[t] : t \in Tids})
Parked == {"Waiting", "WaitingSuspended", "Suspended"}

\* queueInvocation of the kinds in h, within the bounds of the instance: the
\* host creates dispatcher threads without limit, the instance has a few.
Queue(h) ==
    /\ h # <<>> => /\ Outstanding + Len(h) <= MaxFrames
                   /\ \E d \in Dispatchers : status[d] \notin Parked
    /\ pending' = pending \o h

\* The queue that lists the ids in S by increasing id.
InIdOrder(S) ==
    {w \in [1 .. Cardinality(S) -> S] :
        Range(w) = S /\ \A i, j \in DOMAIN w : i < j => w[i] < w[j]}

\* VBlankStart: every VSync wait gets one closer to its end, those that end
\* are completed in id order, then come the GS callback and the IRQ handlers.
VBlank(h) ==
    LET onVSync == {t \in Tids : status[t] \in Blocked /\ wait[t].reason = "VSync"}
        due == {t \in onVSync : wait[t].arg = 1}
    IN  /\ phase \in {"leaving", "events"}
        /\ Queue(h)
        /\ wait' = [t \in Tids |->
                      IF t \in due THEN NoWait
                      ELSE IF t \in onVSync THEN [wait[t] EXCEPT !.arg = @ - 1] ELSE wait[t]]
        /\ \E w \in InIdOrder(due) :
              status' = StatusAfter(w) /\ ready' = ReadyAfter(w) /\ resched' = ReschedAfter(w)
        /\ UNCHANGED <<prio, suspendCount, wakeupCount, frames, returned, cur, exec, phase,
                       sliceExpired, semaVars>>

\* Another event: an IRQ (VBlankEnd, an EE timer) or an alarm.
OtherEvent(k) ==
    /\ phase \in {"leaving", "events"} /\ Queue(<<k>>)
    /\ UNCHANGED <<queueVars, prio, threadVars, exec, phase, sliceExpired, semaVars>>

\* applyPendingPreemption, the end of processPendingEvents.
ApplyPendingPreemption ==
    /\ phase \in {"leaving", "events"}
    /\ phase' = IF phase = "leaving" THEN "events" ELSE "dispatch"
    /\ \/ /\ resched /\ cur # NoThread
          /\ status' = [status EXCEPT ![cur] = "Ready"]
          /\ ready' = IF sliceExpired THEN PushBack(ready, prio[cur], cur)
                                      ELSE PushFront(ready, prio[cur], cur)
          /\ cur' = NoThread
       \/ /\ ~(resched /\ cur # NoThread)
          /\ UNCHANGED <<status, ready, cur>>
    /\ resched' = FALSE
    /\ sliceExpired' = (sliceExpired /\ ~resched)
    /\ UNCHANGED <<prio, threadVars, exec, pending, semaVars>>

(***************************************************************************)
(* The rest of the loop body.                                              *)
(***************************************************************************)
NoneReady == \A p \in Priorities : ready[p] = <<>>

\* selectReady and makeRunning: the head of the first queue that has one.
SelectReady ==
    /\ phase = "dispatch" /\ cur = NoThread
    /\ \E p \in Priorities :
          /\ ready[p] # <<>> /\ \A q \in 0 .. p - 1 : ready[q] = <<>>
          /\ status' = [status EXCEPT ![Head(ready[p])] = "Running"]
          /\ cur' = Head(ready[p])
          /\ ready' = [ready EXCEPT ![p] = Tail(@)]
    /\ sliceExpired' = FALSE
    /\ UNCHANGED <<prio, threadVars, exec, phase, resched, pending, semaVars>>

\* No guest thread can run: a host-owned thread, an idle one if there is one
\* and else a new one, runs the first pending invocation.
AcquireDispatcher(d) ==
    /\ phase = "dispatch" /\ cur = NoThread /\ NoneReady /\ pending # <<>>
    /\ \/ status[d] = "Dormant"
       \/ status[d] = "Absent" /\ \A e \in Dispatchers : status[e] # "Dormant"
    /\ status' = [status EXCEPT ![d] = "Running"] /\ cur' = d
    /\ frames' = [frames EXCEPT ![d] = <<Head(pending)>>] /\ pending' = Tail(pending)
    /\ sliceExpired' = FALSE
    /\ UNCHANGED <<prio, suspendCount, wakeupCount, wait, returned, ready, exec, phase,
                   resched, semaVars>>

\* Nothing to run: waitForEvent.
Idle ==
    /\ phase = "dispatch" /\ cur = NoThread /\ NoneReady /\ pending = <<>>
    /\ phase' = "events"
    /\ UNCHANGED <<queueVars, prio, threadVars, exec, sliceExpired, pending, semaVars>>

Selected == phase = "dispatch" /\ cur # NoThread

\* The innermost frame is done.  The context of a dispatcher thread itself is
\* empty: its pc is always 0.
PopFrame ==
    /\ Selected /\ returned[cur] /\ frames[cur] # <<>>
    /\ frames' = [frames EXCEPT ![cur] = Front(@)]
    /\ returned' = [returned EXCEPT ![cur] = cur \in Dispatchers /\ Len(frames[cur]) = 1]
    /\ phase' = "events"
    /\ UNCHANGED <<queueVars, prio, suspendCount, wakeupCount, wait, exec, sliceExpired,
                   pending, semaVars>>

RetireCurrent ==
    /\ Retire(cur, "Dormant")
    /\ cur' = NoThread /\ phase' = "events"
    /\ UNCHANGED <<prio, exec, resched, sliceExpired, pending, limit, count>>

\* The thread's own function returned.
ThreadReturns == Selected /\ returned[cur] /\ frames[cur] = <<>> /\ RetireCurrent

\* Every pending invocation is stacked on the current thread before any runs.
PushInvocation ==
    /\ Selected /\ ~returned[cur] /\ pending # <<>>
    /\ frames' = [frames EXCEPT ![cur] = Append(@, Head(pending))]
    /\ pending' = Tail(pending)
    /\ phase' = "events"
    /\ UNCHANGED <<queueVars, prio, suspendCount, wakeupCount, wait, returned, exec,
                   sliceExpired, semaVars>>

Runnable == Selected /\ ~returned[cur] /\ pending = <<>>

\* No recompiled function at pc: the frame, or else the thread, is over.
MissingFunction ==
    /\ Runnable
    /\ \/ frames[cur] = <<>> /\ RetireCurrent
       \/ /\ frames[cur] # <<>>
          /\ returned' = [returned EXCEPT ![cur] = TRUE] /\ phase' = "events"
          /\ UNCHANGED <<queueVars, prio, suspendCount, wakeupCount, wait, frames, exec,
                         sliceExpired, pending, semaVars>>

\* The checkpoint before the call: an event is due, or the slice is used up.
DispatchCheckpoint ==
    /\ Runnable
    /\ phase' = "events"
    /\ \/ UNCHANGED <<resched, sliceExpired>>
       \/ HasPeer /\ resched' = TRUE /\ sliceExpired' = TRUE
    /\ UNCHANGED <<status, ready, cur, prio, threadVars, exec, pending, semaVars>>

EnterGuest ==
    /\ Runnable
    /\ phase' = "guest" /\ exec' = cur
    /\ UNCHANGED <<queueVars, prio, threadVars, sliceExpired, pending, semaVars>>

-----------------------------------------------------------------------------
\* reset(): only the main thread, ready at priority 0.
Init ==
    /\ status = [t \in Tids |-> IF t = Main THEN "Ready" ELSE "Absent"]
    /\ prio = [t \in Tids |-> 0]
    /\ suspendCount = [t \in Tids |-> 0] /\ wakeupCount = [t \in Tids |-> 0]
    /\ wait = [t \in Tids |-> NoWait]
    /\ frames = [t \in Tids |-> <<>>] /\ returned = [t \in Tids |-> FALSE]
    /\ ready = [p \in Priorities |-> IF p = 0 THEN <<Main>> ELSE <<>>]
    /\ cur = NoThread /\ exec = NoThread /\ phase = "events"
    /\ resched = FALSE /\ sliceExpired = FALSE /\ pending = <<>>
    /\ limit = [s \in Semas |-> 0] /\ count = [s \in Semas |-> 0]
    /\ waiters = [s \in Semas |-> <<>>]

\* The calls that end another thread's wait, whatever it waits for.
EndsWaitOf(t) ==
    \/ TerminateThread(t)
    \/ \E isr \in BOOLEAN : ReleaseWaitThread(t, isr)

OtherThreadCall ==
    \/ \E t \in Threads : \/ \E p \in Priorities \ {0} : CreateThread(t, p)
                          \/ DeleteThread(t)
    \/ \E t \in Guests : StartThread(t) \/ ResumeThread(t)
    \/ \E t \in Guests \cup {cur} : SuspendThread(t) \/ CancelWakeupThread(t)
    \/ \E delete \in BOOLEAN : ExitThread(delete)
    \/ SleepThread
    \/ \E isr \in BOOLEAN :
          \/ \E t \in Guests : WakeupThread(t, isr)
          \/ \E t \in Guests \cup {cur}, p \in Priorities : ChangeThreadPriority(t, p, isr)
          \/ \E p \in Priorities : RotateThreadReadyQueue(p, isr)
    \/ \E n \in 1 .. MaxTicks : WaitVSync(n)
    \/ RefusedCall

ThreadCall == (\E t \in Guests : EndsWaitOf(t)) \/ OtherThreadCall

SemaCall ==
    \E s \in Semas :
        \/ \E max \in 1 .. MaxCount, init \in 0 .. MaxCount : CreateSema(s, init, max)
        \/ \E isr \in BOOLEAN : DeleteSema(s, isr) \/ SignalSema(s, isr)
        \/ PollSema(s)
        \/ WaitSema(s)

GuestStep == ThreadCall \/ SemaCall \/ GuestReturns \/ GuestCheckpoint \/ SliceExpires

\* What a VBlank start queues: the GS callback, if set, then IRQ handlers.
VBlankWork == {<<>>, <<"Callback">>, <<"Interrupt">>, <<"Callback", "Interrupt">>}

LoopStep ==
    \/ \E h \in VBlankWork : VBlank(h)
    \/ \E k \in Kinds : OtherEvent(k)
    \/ ApplyPendingPreemption
    \/ SelectReady
    \/ \E d \in Dispatchers : AcquireDispatcher(d)
    \/ Idle
    \/ PopFrame
    \/ ThreadReturns
    \/ PushInvocation
    \/ MissingFunction
    \/ DispatchCheckpoint
    \/ EnterGuest

Next == GuestStep \/ LoopStep

Spec == Init /\ [][Next]_vars

(***************************************************************************)
(* Invariants.                                                             *)
(***************************************************************************)
\* Type correctness of the scheduler's state: every thread record, every
\* queue entry and the current thread stay in their domains.
TypeOK ==
    /\ status \in [Tids -> Statuses]
    /\ prio \in [Tids -> Priorities]
    /\ suspendCount \in [Tids -> Nat] /\ wakeupCount \in [Tids -> Nat]
    /\ wait \in [Tids -> Waits]
    /\ frames \in [Tids -> Seq(Kinds)] /\ returned \in [Tids -> BOOLEAN]
    /\ ready \in [Priorities -> Seq(Tids)]
    /\ cur \in Tids \cup {NoThread} /\ exec \in Tids \cup {NoThread}
    /\ phase \in {"guest", "leaving", "events", "dispatch"}
    /\ resched \in BOOLEAN /\ sliceExpired \in BOOLEAN
    /\ pending \in Seq(Kinds)
    /\ limit \in [Semas -> Nat] /\ count \in [Semas -> Nat]
    /\ waiters \in [Semas -> Seq(Tids)]

\* The queue of priority p lists exactly the Ready threads of priority p, each
\* once (no thread lost from the queues, none in two places); and Running is
\* the status of the current thread and of no other.
ReadyQueuesExact ==
    /\ \A p \in Priorities :
          /\ Range(ready[p]) = {t \in Tids : status[t] = "Ready" /\ prio[t] = p}
          /\ IsInjective(ready[p])
    /\ \A t \in Tids : status[t] = "Running" <=> t = cur

\* A thread is suspended, waiting or not, exactly while its suspensions
\* outnumber its resumes: no nesting of the calls, no wake-up and no release
\* makes a suspended thread run or leaves a resumed one stopped.
SuspensionExact ==
    \A t \in Tids : suspendCount[t] > 0 <=> status[t] \in {"Suspended", "WaitingSuspended"}

OnSema(s) == {t \in Tids : status[t] \in Blocked /\ wait[t] = [reason |-> "Semaphore", arg |-> s]}

\* A semaphore's queue lists exactly the threads blocked on it, each once; a
\* thread only waits while there is no count to take; a deleted semaphore
\* keeps no waiter, the count stays within maxCount, and no thread that is
\* not blocked still carries a wait.
SemaphoresExact ==
    /\ \A s \in Semas :
          /\ Range(waiters[s]) = OnSema(s) /\ IsInjective(waiters[s])
          /\ waiters[s] # <<>> => limit[s] # 0 /\ count[s] = 0
          /\ count[s] <= limit[s]
    /\ \A t \in Tids : wait[t] # NoWait => status[t] \in Blocked

\* No lost wake-up: a thread is never asleep with a wake-up remembered.
SleeperHasNoWakeup ==
    \A t \in Tids : status[t] \in Blocked /\ wait[t].reason = "Sleep" => wakeupCount[t] = 0

\* Guest code runs while a thread of higher priority is ready only if the
\* preemption has been requested already.
StrictPriority ==
    phase = "guest" /\ cur # NoThread /\ (\E p \in 0 .. prio[cur] - 1 : ready[p] # <<>>)
        => resched

\* A dormant or deleted thread leaves no wait, no suspension and no frame
\* behind for its next life.
RetiredIsClean ==
    \A t \in Tids : status[t] \in {"Dormant", "Absent"} =>
        /\ wait[t] = NoWait /\ suspendCount[t] = 0 /\ wakeupCount[t] = 0
        /\ frames[t] = <<>> /\ ~returned[t]

(***************************************************************************)
(* Action properties.                                                      *)
(***************************************************************************)
\* A thread that is preempted, and has not used up its slice, goes back to
\* the head of its queue: no peer of its priority runs before it resumes.
PreemptedKeepsItsTurn ==
    [][cur # NoThread /\ cur' = NoThread /\ status'[cur] = "Ready" /\ ~sliceExpired
        /\ ~(\E p \in Priorities, isr \in BOOLEAN : RotateThreadReadyQueue(p, isr))
       => Head(ready'[prio'[cur]]) = cur]_vars
=============================================================================
