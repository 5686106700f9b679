----------------------------- MODULE EventFlags -----------------------------
(***************************************************************************)
(* The event flags of the EE kernel                                        *)
(* (ps2xRuntime/src/lib/Kernel/EeScheduler.cpp) with the checks their      *)
(* system calls make first (Kernel/Syscalls/Sync.cpp).                     *)
(*                                                                         *)
(* A call is one step, made by any thread that does not wait itself.  Of a *)
(* thread, only its wait for a flag and the outcome of that wait are here: *)
(* what makeReady does to the ready queues is in EeScheduler.  A word of   *)
(* bits is the set of the bits that are 1.                                 *)
(***************************************************************************)
EXTENDS Integers, SequencesExt, KernelLists

CONSTANTS
    Threads,
    Flags,     \* event flag ids
    Bits,      \* the bits in use
    Modes      \* the wait modes in use, each a set of WEF_ constants

ASSUME FlagsAssumption ==
    /\ Flags \subseteq Nat \ {0}
    /\ Modes \subseteq SUBSET {"Or", "Clear", "ClearAll"}

VARIABLES
    attr,      \* whether EA_MULTI is set; "Absent": no such flag
    bits,
    waiters,   \* the threads that wait, in order
    wait,      \* what a thread waits for
    outcome    \* how its last wait ended, and the bits it was given

flagsVars == <<attr, bits, waiters, wait, outcome>>

NoFlag == 0
NoWait == [flag |-> NoFlag, bits |-> {}, mode |-> {}]
Waits == [flag : Flags, bits : (SUBSET Bits) \ {{}}, mode : Modes]
Ended(code, seen) == [code |-> code, seen |-> seen]
Outcomes == [code : {"None", "Ok", "Deleted", "Released"}, seen : SUBSET Bits]

Waiting(t) == wait[t].flag # NoFlag

\* eventCondition.
Condition(b, w) == IF "Or" \in w.mode THEN b \cap w.bits # {} ELSE w.bits \subseteq b

\* What a thread that is served leaves of the bits.
Remaining_NotCleared(b, w) == b                         \* mutant: nothing is consumed
Remaining(b, w) ==
    IF "ClearAll" \in w.mode THEN {} ELSE IF "Clear" \in w.mode THEN b \ w.bits ELSE b

(***************************************************************************)
(* finishEventWaiters: the bits that flag f, set to b, still holds after   *)
(* the loop has looked at i waiters, for each i.                           *)
(***************************************************************************)
Visited_Reverse(f, i) == waiters[f][Len(waiters[f]) + 1 - i] \* mutant: the last one first
Visited(f, i) == waiters[f][i]

Left(f, b) ==
    {left \in [0 .. Len(waiters[f]) -> SUBSET Bits] :
        /\ left[0] = b
        /\ \A i \in 1 .. Len(waiters[f]) :
              LET w == wait[Visited(f, i)]
              IN  left[i] = IF Condition(left[i - 1], w) THEN Remaining(left[i - 1], w)
                                                         ELSE left[i - 1]}

\* The threads of S stop waiting with outcome o[t].
Release(S, o) ==
    /\ wait' = [t \in Threads |-> IF t \in S THEN NoWait ELSE wait[t]]
    /\ outcome' = [t \in Threads |-> IF t \in S THEN o[t] ELSE outcome[t]]

-----------------------------------------------------------------------------
CreateEventFlag(f, a, b) ==
    /\ attr[f] = "Absent"
    /\ attr' = [attr EXCEPT ![f] = a]
    /\ bits' = [bits EXCEPT ![f] = b]
    /\ UNCHANGED <<waiters, wait, outcome>>

DeleteEventFlag(f) ==
    /\ attr[f] # "Absent"
    /\ attr' = [attr EXCEPT ![f] = "Absent"]
    /\ bits' = [bits EXCEPT ![f] = {}]
    /\ waiters' = [waiters EXCEPT ![f] = <<>>]
    /\ Release(Range(waiters[f]), [t \in Threads |-> Ended("Deleted", {})])

SetEventFlag(f, b) ==
    /\ attr[f] # "Absent"
    /\ \E left \in Left(f, bits[f] \cup b) :
          LET n == Len(waiters[f])
              served == {i \in 1 .. n : Condition(left[i - 1], wait[Visited(f, i)])}
              S == {Visited(f, i) : i \in served}
              Turn(t) == CHOOSE i \in served : Visited(f, i) = t
          IN  /\ bits' = [bits EXCEPT ![f] = left[n]]
              /\ waiters' = [waiters EXCEPT ![f] = Among(@, Threads \ S)]
              /\ Release(S, [t \in S |-> Ended("Ok", left[Turn(t) - 1])])
    /\ UNCHANGED attr

ClearEventFlag_Assigned(f, mask) ==     \* mutant: = for &=
    /\ attr[f] # "Absent" /\ bits' = [bits EXCEPT ![f] = mask]
    /\ UNCHANGED <<attr, waiters, wait, outcome>>
ClearEventFlag(f, mask) ==
    /\ attr[f] # "Absent"
    /\ bits' = [bits EXCEPT ![f] = @ \cap mask]
    /\ UNCHANGED <<attr, waiters, wait, outcome>>

\* What a thread may ask for: some bit (KE_EVF_ILPAT otherwise).
Patterns == (SUBSET Bits) \ {{}}

\* Without EA_MULTI, a flag that has a waiter refuses every other one.
Admits(f) == attr[f] = "Multi" \/ (attr[f] = "Single" /\ waiters[f] = <<>>)

\* PollEventFlag, and WaitEventFlag of a thread that need not wait.
TakeEventFlag(f, b, mode) ==
    LET w == [flag |-> f, bits |-> b, mode |-> mode]
    IN  /\ Admits(f) /\ Condition(bits[f], w)
        /\ bits' = [bits EXCEPT ![f] = Remaining(@, w)]
        /\ UNCHANGED <<attr, waiters, wait, outcome>>

WaitEventFlag(t, f, b, mode) ==
    LET w == [flag |-> f, bits |-> b, mode |-> mode]
    IN  /\ ~Waiting(t) /\ Admits(f) /\ ~Condition(bits[f], w)
        /\ wait' = [wait EXCEPT ![t] = w]
        /\ outcome' = [outcome EXCEPT ![t] = Ended("None", {})]
        /\ waiters' = [waiters EXCEPT ![f] = Append(@, t)]
        /\ UNCHANGED <<attr, bits>>

\* ReleaseWaitThread and TerminateThread of t: removeFromWaitObject.
LeaveEventFlag(t) ==
    /\ Waiting(t)
    /\ waiters' = [waiters EXCEPT ![wait[t].flag] = RemoveFirst(@, t)]
    /\ Release({t}, [u \in {t} |-> Ended("Released", {})])
    /\ UNCHANGED <<attr, bits>>

-----------------------------------------------------------------------------
FlagsInit ==
    /\ attr = [f \in Flags |-> "Absent"] /\ bits = [f \in Flags |-> {}]
    /\ waiters = [f \in Flags |-> <<>>]
    /\ wait = [t \in Threads |-> NoWait]
    /\ outcome = [t \in Threads |-> Ended("None", {})]

\* A call needs a thread that can make it, or else an interrupt handler does.
FlagCall(f) ==
    \/ \E a \in {"Single", "Multi"}, b \in SUBSET Bits : CreateEventFlag(f, a, b)
    \/ DeleteEventFlag(f)
    \/ \E b \in SUBSET Bits : SetEventFlag(f, b) \/ ClearEventFlag(f, b)
    \/ \E b \in Patterns, mode \in Modes :
          \/ TakeEventFlag(f, b, mode)
          \/ \E t \in Threads : WaitEventFlag(t, f, b, mode)

FlagsNext == (\E f \in Flags : FlagCall(f)) \/ (\E t \in Threads : LeaveEventFlag(t))

FlagsSpec == FlagsInit /\ [][FlagsNext]_flagsVars

(***************************************************************************)
(* Invariants.                                                             *)
(***************************************************************************)
\* Type correctness of flags, waits and outcomes.
FlagsTypeOK ==
    /\ attr \in [Flags -> {"Absent", "Single", "Multi"}]
    /\ bits \in [Flags -> SUBSET Bits]
    /\ waiters \in [Flags -> Seq(Threads)]
    /\ wait \in [Threads -> Waits \cup {NoWait}]
    /\ outcome \in [Threads -> Outcomes]

\* A flag's queue lists exactly the threads that wait for it, each once; a
\* deleted flag keeps none, and one without EA_MULTI never has two.
WaitersExact ==
    \A f \in Flags :
        /\ Range(waiters[f]) = {t \in Threads : Waiting(t) /\ wait[t].flag = f}
        /\ IsInjective(waiters[f])
        /\ attr[f] = "Absent" => waiters[f] = <<>>
        /\ attr[f] = "Single" => Len(waiters[f]) <= 1

\* No lost wake-up: nobody goes on waiting for bits that the flag holds, in
\* spite of what those served before or after it have cleared.
NoneSatisfied ==
    \A t \in Threads : Waiting(t) => ~Condition(bits[wait[t].flag], wait[t])

(***************************************************************************)
(* Action properties.                                                      *)
(***************************************************************************)
Served(t) == Waiting(t) /\ ~Waiting(t)' /\ outcome'[t].code = "Ok"

\* t waits for the same flag as u, and has waited longer.
Ahead(t, u) ==
    \E f \in Flags : \E i, j \in 1 .. Len(waiters[f]) :
        i < j /\ waiters[f][i] = t /\ waiters[f][j] = u

\* Nobody is overtaken by a thread whose request is at least as hard to meet:
\* by the time that one is served, so is the thread ahead of it.
ServedInTurn ==
    \A t, u \in Threads :
        /\ Ahead(t, u) /\ Served(u)
        /\ \A b \in SUBSET Bits : Condition(b, wait[u]) => Condition(b, wait[t])
        => Served(t)
NoOvertaking == [][ServedInTurn]_flagsVars

\* Bits that a thread consumes are given to no one served after it by the
\* same SetEventFlag.
Consumed(t) ==
    IF "ClearAll" \in wait[t].mode THEN Bits
    ELSE IF "Clear" \in wait[t].mode THEN wait[t].bits ELSE {}
GivenOnce ==
    \A t, u \in Threads :
        Ahead(t, u) /\ Served(t) /\ Served(u) => outcome'[u].seen \cap Consumed(t) = {}
ConsumedOnce == [][GivenOnce]_flagsVars
=============================================================================
