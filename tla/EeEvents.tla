----------------------------- MODULE EeEvents -----------------------------
(***************************************************************************)
(* How host threads and deadlines reach the EE executor                    *)
(* (ps2xRuntime/src/lib/Kernel/EeScheduler.cpp): the event queue and its   *)
(* mutex and condition variable, the checkpoint flag that makes guest code *)
(* return to the dispatch loop, the deadlines in EE cycles paced by the    *)
(* host clock, the alarms, and the request to stop.                        *)
(*                                                                         *)
(* "at" is where the executor is in run().  It holds the event mutex       *)
(* between steps only at "paceCheck", "idleCheck" and "store"; it sleeps   *)
(* on the condition variable at "pacing" and "asleep".  Times are relative *)
(* to the present: the EE cycles and the host time left to a deadline.     *)
(* What the threads of the guest do is reduced to whether one can run.     *)
(***************************************************************************)
EXTENDS Integers, FiniteSetsExt, Sequences

CONSTANTS
    Period, Duration, \* kVBlankPeriod and kVBlankDuration, in units of time
    Alarms,           \* alarm ids
    MaxDelay,         \* bound on an alarm's delay
    MaxPosts,         \* bound on the events posted by host threads
    MaxLate           \* how much lateness, in host time, is told apart

ASSUME TimesAssumption ==
    /\ Duration \in Nat \ {0} /\ Period \in Nat /\ Duration < Period
    /\ MaxDelay \in Nat \ {0} /\ MaxLate \in Nat

VARIABLES
    events,     \* m_events
    checkpoint, \* m_checkpointPending
    stop,       \* m_stopRequested
    deadlines,  \* m_deadlines
    next,       \* m_nextDeadlineCycle, as cycles left
    due,        \* processDueDeadlines: the deadlines taken and not processed
    batch,      \* processPendingEvents: the events taken and not processed
    work,       \* processPendingEvents: what is about to be stored in checkpoint
    alarms,     \* the ids in m_alarms
    at,
    final,      \* is this the processPendingEvents after guest code?
    runnable,   \* can some guest thread run?
    signalled,  \* has the condition variable woken the executor?
    poster,     \* a host thread in postEvent
    stopper,    \* a host thread in requestStop
    posted,     \* history: the events posted,
    handled,    \* history: and those processed
    inVBlank    \* history: was the last field event a VBlankStart?

hostVars == <<poster, stopper, posted>>
vars == <<events, checkpoint, stop, deadlines, next, due, batch, work, alarms, at,
          final, runnable, signalled, hostVars, handled, inVBlank>>

(***************************************************************************)
(* Deadlines.                                                              *)
(***************************************************************************)
Deadline(type, id, left, host) == [type |-> type, id |-> id, left |-> left, host |-> host]

\* The order in which the deadlines of one batch are processed.
Rank(type) == CASE type = "VBlankStart" -> 1 [] type = "VBlankEnd" -> 2 [] type = "Alarm" -> 5
Before(d, e) ==
    \/ d.left < e.left
    \/ d.left = e.left /\ Rank(d.type) < Rank(e.type)
    \/ d.left = e.left /\ d.type = e.type /\ d.id < e.id

\* updateNextDeadline; without a deadline the code stores 0, which the
\* checkpoints take for "never".
Never == Period + Duration + MaxDelay
Earliest_FirstFound(D) == IF D = {} THEN Never ELSE (CHOOSE d \in D : TRUE).left \* mutant: whichever comes first
Earliest(D) == IF D = {} THEN Never ELSE Min({d.left : d \in D})

After(D, cycles) == {[d EXCEPT !.left = @ - cycles] : d \in D}
HostAfter(D) == {[d EXCEPT !.host = Max({@ - 1, -MaxLate})] : d \in D}

Overdue == {d \in deadlines : d.left <= 0}

\* The predicate of both waits on the condition variable.
Woken == events # <<>> \/ stop

\* Nobody holds m_eventMutex.
MutexFree == at \notin {"paceCheck", "idleCheck", "store"}
Asleep == at \in {"pacing", "asleep"}

(***************************************************************************)
(* Host threads.                                                           *)
(***************************************************************************)
\* postEvent: under the mutex, queue the event and raise the flag.
Post ==
    /\ poster = "idle" /\ MutexFree /\ Len(posted) < MaxPosts
    /\ events' = Append(events, Len(posted) + 1)
    /\ posted' = Append(posted, Len(posted) + 1)
    /\ checkpoint' = TRUE
    /\ poster' = "notify"
    /\ UNCHANGED <<stop, deadlines, next, due, batch, work, alarms, at, final, runnable,
                   signalled, stopper, handled, inVBlank>>

\* notify_one, the mutex released; a notification nobody waits for is lost.
PostNotify_Missing == poster = "notify" /\ poster' = "idle" /\ UNCHANGED
    <<events, checkpoint, stop, deadlines, next, due, batch, work, alarms, at, final, runnable,
      signalled, stopper, posted, handled, inVBlank>>      \* mutant: nobody is told
PostNotify ==
    /\ poster = "notify"
    /\ poster' = "idle" /\ signalled' = (signalled \/ Asleep)
    /\ UNCHANGED <<events, checkpoint, stop, deadlines, next, due, batch, work, alarms, at,
                   final, runnable, stopper, posted, handled, inVBlank>>

\* requestStop: two stores and a notification, none under the mutex.
RequestStop ==
    /\ \/ stopper = "idle" /\ stop' = TRUE /\ stopper' = "flag" /\ UNCHANGED <<checkpoint, signalled>>
       \/ stopper = "flag" /\ checkpoint' = TRUE /\ stopper' = "notify" /\ UNCHANGED <<stop, signalled>>
       \/ /\ stopper = "notify" /\ signalled' = (signalled \/ Asleep) /\ stopper' = "done"
          /\ UNCHANGED <<stop, checkpoint>>
    /\ UNCHANGED <<events, deadlines, next, due, batch, work, alarms, at, final, runnable,
                   poster, posted, handled, inVBlank>>

\* steady_clock.
HostTick ==
    /\ at # "done"
    /\ deadlines' = HostAfter(deadlines) /\ due' = HostAfter(due)
    /\ UNCHANGED <<events, checkpoint, stop, next, batch, work, alarms, at, final, runnable,
                   signalled, hostVars, handled, inVBlank>>

(***************************************************************************)
(* processDueDeadlines.                                                    *)
(***************************************************************************)
\* The top of run()'s loop.
Loop ==
    /\ at = "top"
    /\ at' = IF stop THEN "done" ELSE "due"
    /\ final' = FALSE
    /\ UNCHANGED <<events, checkpoint, stop, deadlines, next, due, batch, work, alarms,
                   runnable, signalled, hostVars, handled, inVBlank>>

\* The deadlines whose cycle and host time have come.
Take ==
    /\ due' = {d \in Overdue : d.host <= 0}
    /\ deadlines' = deadlines \ due'
    /\ next' = Earliest(deadlines')
    /\ at' = "fire"

Collect ==
    /\ at = "due" /\ due = {}
    /\ \/ (\E d \in Overdue : d.host <= 0) /\ Take
       \/ /\ \A d \in Overdue : d.host > 0
          /\ Overdue = {} \/ Woken
          /\ next' = Earliest(deadlines) /\ at' = "swap"
          /\ UNCHANGED <<deadlines, due>>
       \/ /\ Overdue # {} /\ ~Woken /\ \A d \in Overdue : d.host > 0
          /\ at' = "paceCheck" /\ UNCHANGED <<deadlines, due, next>>
    /\ UNCHANGED <<events, checkpoint, stop, batch, work, alarms, final, runnable, signalled,
                   hostVars, handled, inVBlank>>

\* The emulated cycles are ahead of the host's clock: wait for it.
PaceSleep ==
    /\ at = "paceCheck"
    /\ at' = "pacing" /\ signalled' = FALSE
    /\ UNCHANGED <<events, checkpoint, stop, deadlines, next, due, batch, work, alarms, final,
                   runnable, hostVars, handled, inVBlank>>

PaceWake ==
    /\ at = "pacing" /\ (signalled \/ \E d \in Overdue : d.host <= 0)
    /\ \/ Woken /\ next' = Earliest(deadlines) /\ at' = "swap" /\ UNCHANGED <<deadlines, due>>
       \/ ~Woken /\ (\E d \in Overdue : d.host <= 0) /\ Take
       \/ /\ ~Woken /\ \A d \in Overdue : d.host > 0
          /\ at' = "paceCheck" /\ UNCHANGED <<deadlines, due, next>>
    /\ UNCHANGED <<events, checkpoint, stop, batch, work, alarms, final, runnable, signalled,
                   hostVars, handled, inVBlank>>

\* A VBlank start schedules its end and the next start relative to itself.
Successors(d) ==
    {Deadline("VBlankEnd", 0, d.left + Duration, d.host + Duration),
     Deadline("VBlankStart", 0, d.left + Period, d.host + Period)}

\* One deadline of the batch is processed; a thread that waited for it may become runnable.
Fire(d) ==
    /\ at = "fire" /\ d \in due /\ \A e \in due \ {d} : Before(d, e)
    /\ due' = due \ {d} /\ at' = IF due' = {} THEN "due" ELSE "fire"
    /\ deadlines' = deadlines \cup IF d.type = "VBlankStart" THEN Successors(d) ELSE {}
    /\ next' = Earliest(deadlines')
    /\ alarms' = IF d.type = "Alarm" THEN alarms \ {d.id} ELSE alarms
    /\ inVBlank' = CASE d.type = "VBlankStart" -> TRUE [] d.type = "VBlankEnd" -> FALSE
                     [] OTHER -> inVBlank
    /\ runnable' \in {runnable, TRUE}
    /\ UNCHANGED <<events, checkpoint, stop, batch, work, final, signalled, hostVars, handled>>

(***************************************************************************)
(* The rest of processPendingEvents.                                       *)
(***************************************************************************)
SwapEvents_Copied ==                               \* mutant: copied, not swapped
    /\ at = "swap" /\ batch' = events /\ at' = "handle"
    /\ UNCHANGED <<events, checkpoint, stop, deadlines, next, due, work, alarms, final, runnable,
                   signalled, hostVars, handled, inVBlank>>
SwapEvents ==
    /\ at = "swap"
    /\ batch' = events /\ events' = <<>> /\ at' = "handle"
    /\ UNCHANGED <<checkpoint, stop, deadlines, next, due, work, alarms, final, runnable,
                   signalled, hostVars, handled, inVBlank>>

HandleEvent ==
    /\ at = "handle" /\ batch # <<>>
    /\ handled' = Append(handled, Head(batch)) /\ batch' = Tail(batch)
    /\ runnable' \in {runnable, TRUE}
    /\ UNCHANGED <<events, checkpoint, stop, deadlines, next, due, work, alarms, at, final,
                   signalled, hostVars, inVBlank>>

\* Under the mutex, the flag is recomputed: read, then stored.
PendingWork_Ignored == FALSE                       \* mutant: what came meanwhile is forgotten
PendingWork == events # <<>> \/ next <= 0 \/ stop

ReadWork ==
    /\ at = "handle" /\ batch = <<>>
    /\ work' = PendingWork /\ at' = "store"
    /\ UNCHANGED <<events, checkpoint, stop, deadlines, next, due, batch, alarms, final,
                   runnable, signalled, hostVars, handled, inVBlank>>

StoreWork ==
    /\ at = "store"
    /\ checkpoint' = work /\ at' = IF final THEN "top" ELSE "dispatch"
    /\ UNCHANGED <<events, stop, deadlines, next, due, batch, work, alarms, final, runnable,
                   signalled, hostVars, handled, inVBlank>>

(***************************************************************************)
(* The rest of the loop: guest code, or waitForEvent.                      *)
(***************************************************************************)
CheckpointDue == checkpoint \/ stop \/ next <= 0

Dispatch ==
    /\ at = "dispatch"
    /\ at' = IF stop THEN "done"
             ELSE IF ~runnable THEN "wait"
             ELSE IF CheckpointDue THEN "top" ELSE "guest"
    /\ checkpoint' = (checkpoint \/ (~stop /\ runnable /\ next <= 0))
    /\ UNCHANGED <<events, stop, deadlines, next, due, batch, work, alarms, final, runnable,
                   signalled, hostVars, handled, inVBlank>>

\* Guest code reaches a checkpoint one unit of EE time later.
GuestRuns ==
    /\ at = "guest"
    /\ deadlines' = After(deadlines, 1) /\ next' = next - 1
    /\ \/ ~(checkpoint \/ stop \/ next' <= 0) /\ UNCHANGED <<at, final, checkpoint>>
       \/ /\ checkpoint \/ stop \/ next' <= 0
          /\ at' = "due" /\ final' = TRUE
          /\ checkpoint' = (checkpoint \/ (~stop /\ next' <= 0))
    /\ UNCHANGED <<events, stop, due, batch, work, alarms, runnable, signalled, hostVars,
                   handled, inVBlank>>

\* The last thread that could run waits: blockCurrent.
GuestBlocks ==
    /\ at = "guest"
    /\ runnable' = FALSE /\ at' = "due" /\ final' = TRUE
    /\ UNCHANGED <<events, checkpoint, stop, deadlines, next, due, batch, work, alarms,
                   signalled, hostVars, handled, inVBlank>>

SetAlarm(a, delay) ==
    /\ at = "guest" /\ a \notin alarms
    /\ alarms' = alarms \cup {a}
    /\ deadlines' = deadlines \cup {Deadline("Alarm", a, delay, delay)}
    /\ next' = Earliest(deadlines')
    /\ UNCHANGED <<events, checkpoint, stop, due, batch, work, at, final, runnable, signalled,
                   hostVars, handled, inVBlank>>

CancelAlarm_DeadlineStays(a) ==                    \* mutant: only the alarm is erased
    /\ at = "guest" /\ a \in alarms /\ alarms' = alarms \ {a}
    /\ UNCHANGED <<events, checkpoint, stop, deadlines, next, due, batch, work, at, final,
                   runnable, signalled, hostVars, handled, inVBlank>>
CancelAlarm(a) ==
    /\ at = "guest" /\ a \in alarms
    /\ alarms' = alarms \ {a}
    /\ deadlines' = {d \in deadlines : ~(d.type = "Alarm" /\ d.id = a)}
    /\ next' = Earliest(deadlines')
    /\ UNCHANGED <<events, checkpoint, stop, due, batch, work, at, final, runnable, signalled,
                   hostVars, handled, inVBlank>>

\* waitForEvent: look under the mutex,
IdleCheck ==
    /\ at = "wait"
    /\ at' = IF Woken THEN "top" ELSE "idleCheck"
    /\ UNCHANGED <<events, checkpoint, stop, deadlines, next, due, batch, work, alarms, final,
                   runnable, signalled, hostVars, handled, inVBlank>>

\* then release it and sleep, until the host time of the earliest deadline.
IdleSleep ==
    /\ at = "idleCheck"
    /\ at' = "asleep" /\ signalled' = FALSE
    /\ UNCHANGED <<events, checkpoint, stop, deadlines, next, due, batch, work, alarms, final,
                   runnable, hostVars, handled, inVBlank>>

\* Of several earliest deadlines, the one scheduled first: it may be any.
FirstDeadlines == {d \in deadlines : \A e \in deadlines : d.left <= e.left}

TimedOut_Never(d) == FALSE                         \* mutant: wait, not wait_until
TimedOut(d) == d.host <= 0

\* A timeout makes up for the EE cycles that passed.
IdleWake ==
    /\ at = "asleep"
    /\ \E d \in FirstDeadlines :
          \/ /\ Woken /\ (signalled \/ TimedOut(d))
             /\ at' = "top" /\ UNCHANGED <<deadlines, next, checkpoint>>
          \/ /\ ~Woken /\ TimedOut(d)
             /\ LET elapsed == IF d.left > 0 THEN d.left ELSE 0
                IN  deadlines' = After(deadlines, elapsed) /\ next' = next - elapsed
             /\ checkpoint' = TRUE /\ at' = "top"
          \/ /\ ~Woken /\ signalled /\ ~TimedOut(d)
             /\ at' = "idleCheck" /\ UNCHANGED <<deadlines, next, checkpoint>>
    /\ UNCHANGED <<events, stop, due, batch, work, alarms, final, runnable, signalled,
                   hostVars, handled, inVBlank>>

\* run() has returned; host calls may still come.
Done == at = "done" /\ UNCHANGED vars

-----------------------------------------------------------------------------
\* After reset().
Init ==
    /\ events = <<>> /\ checkpoint = FALSE /\ stop = FALSE
    /\ deadlines = {Deadline("VBlankStart", 0, Period, Period)} /\ next = Period
    /\ due = {} /\ batch = <<>> /\ work = FALSE /\ alarms = {}
    /\ at = "top" /\ final = FALSE /\ runnable = TRUE /\ signalled = FALSE
    /\ poster = "idle" /\ stopper = "idle" /\ posted = <<>> /\ handled = <<>>
    /\ inVBlank = FALSE

LoopStep ==
    \/ Loop \/ Collect \/ PaceSleep \/ PaceWake \/ (\E d \in due : Fire(d))
    \/ SwapEvents \/ HandleEvent \/ ReadWork \/ StoreWork \/ Dispatch
    \/ IdleCheck \/ IdleSleep \/ IdleWake

GuestCall ==
    \/ GuestBlocks
    \/ \E a \in Alarms : CancelAlarm(a) \/ \E delay \in 1 .. MaxDelay : SetAlarm(a, delay)

Next == LoopStep \/ GuestRuns \/ GuestCall \/ Post \/ PostNotify \/ RequestStop \/ HostTick \/ Done

\* The host clock goes on, the executor's host thread is scheduled, guest code
\* keeps reaching checkpoints, and a host call that has begun ends.
Fairness ==
    /\ WF_vars(LoopStep \/ GuestRuns)
    /\ WF_vars(HostTick)
    /\ WF_vars(PostNotify) /\ WF_vars(stopper # "idle" /\ RequestStop)

Spec == Init /\ [][Next]_vars /\ Fairness

(***************************************************************************)
(* Invariants.                                                             *)
(***************************************************************************)
Times == -(Period + Duration + MaxDelay + MaxLate) .. Period + Duration + MaxDelay
Pending == deadlines \cup due

\* Type correctness; the times left to a deadline stay within one period.
TypeOK ==
    /\ events \in Seq(Nat) /\ batch \in Seq(Nat) /\ posted \in Seq(Nat) /\ handled \in Seq(Nat)
    /\ checkpoint \in BOOLEAN /\ stop \in BOOLEAN /\ work \in BOOLEAN
    /\ Pending \subseteq [type : {"VBlankStart", "VBlankEnd", "Alarm"}, id : {0} \cup Alarms,
                          left : Times, host : Times]
    /\ next \in Times /\ alarms \subseteq Alarms
    /\ at \in {"top", "due", "paceCheck", "pacing", "fire", "swap", "handle", "store", "dispatch",
               "guest", "wait", "idleCheck", "asleep", "done"}
    /\ final \in BOOLEAN /\ runnable \in BOOLEAN /\ signalled \in BOOLEAN /\ inVBlank \in BOOLEAN
    /\ poster \in {"idle", "notify"} /\ stopper \in {"idle", "flag", "notify", "done"}

\* Events are processed once each and in the order in which they were posted,
\* whatever the executor was doing when they came.
EventsInOrder == posted = handled \o batch \o events

\* An event posted while the flag is being recomputed is not forgotten: guest
\* code never runs on with an event queued and the flag down.
CheckpointNotLost == at = "guest" /\ events # <<>> => checkpoint

\* The executor is never asleep on an event that nobody will tell it about.
NoLostWakeup == Asleep /\ events # <<>> => signalled \/ poster = "notify"

\* The cached time of the next deadline is that of the earliest one whenever
\* guest code, or an idle executor, relies on it.
NextIsEarliest == at \in {"guest", "store", "asleep"} =>
    next \in {d.left : d \in deadlines} /\ \A d \in deadlines : next <= d.left

\* An alarm and its deadline exist together: a cancelled alarm never fires and
\* a set one is never without its deadline, even when the id is used again.
AlarmsExact ==
    /\ alarms = {d.id : d \in {e \in Pending : e.type = "Alarm"}}
    /\ \A d, e \in Pending : d.type = "Alarm" /\ e.type = "Alarm" /\ d.id = e.id => d = e

(***************************************************************************)
(* Liveness.                                                               *)
(***************************************************************************)
\* A request to stop ends run(), even when its notification is lost: the next
\* VBlank bounds the executor's sleep.
StopEndsRun == stop ~> at = "done"

\* As long as nobody stops it, VBlanks go on, so that a thread that waits for
\* one is not left waiting.
VBlanksGoOn == []<>(inVBlank \/ stop) /\ []<>(~inVBlank \/ stop)
=============================================================================
