------------------------- MODULE KernelEventsProofs -------------------------
(***************************************************************************)
(* Proofs about EeEvents, for every length of the field, every set of      *)
(* alarms and any number of events; and about EventFlags, for every set of *)
(* threads, flags and bits.  The two share no state.                       *)
(***************************************************************************)
EXTENDS EeEvents, EventFlags, KernelListsProofs

(***************************************************************************)
(* The inductive invariant.                                                *)
(***************************************************************************)
Places == {"top", "due", "paceCheck", "pacing", "fire", "swap", "handle", "store", "dispatch",
           "guest", "wait", "idleCheck", "asleep", "done"}

AllDeadlines == [type : {"VBlankStart", "VBlankEnd", "Alarm"}, id : {0} \cup Alarms,
                 left : Nat, host : Int]

\* A deadline's cycle never lies in the past: EE time stops at a deadline that
\* is due, until it has been processed.
Types ==
    /\ events \in Seq(Nat) /\ batch \in Seq(Nat) /\ posted \in Seq(Nat) /\ handled \in Seq(Nat)
    /\ deadlines \in SUBSET AllDeadlines /\ due \in SUBSET AllDeadlines
    /\ next \in Int /\ at \in Places

\* Where each event is, and how the executor comes to know of it.
EventsKnown ==
    /\ at # "handle" => batch = <<>>
    /\ at = "store" /\ events # <<>> => work
    /\ at \in {"dispatch", "guest"} /\ events # <<>> => checkpoint
    /\ at \in {"paceCheck", "idleCheck"} => events = <<>>

\* Deadlines that were taken are processed before anything else; one of the
\* two sets always holds the start of the next field.
DuesFirst ==
    /\ at # "fire" => due = {}
    /\ \A d \in due, e \in deadlines : d.type = "Alarm" /\ e.type = "Alarm" => d.id # e.id
    /\ \E d \in Pending : d.type = "VBlankStart"

\* n is the time left to the earliest deadline in D.
IsLeast(n, D) == n \in {d.left : d \in D} /\ \A d \in D : n <= d.left

Relying == {"swap", "handle", "store", "dispatch", "guest", "wait", "idleCheck", "asleep"}

\* The cache is right from updateNextDeadline on until the executor looks at
\* the deadlines again.
CacheRight ==
    at \in Relying => IsLeast(next, deadlines)

\* Guest code never runs at a deadline.
GuestBefore == at = "guest" => next >= 1

IInv == Types /\ EventsInOrder /\ EventsKnown /\ NoLostWakeup
        /\ DuesFirst /\ AlarmsExact /\ CacheRight /\ GuestBefore

(***************************************************************************)
(* Sets of deadlines.                                                      *)
(***************************************************************************)
LEMMA EarliestIsLeast ==
    ASSUME NEW D \in SUBSET AllDeadlines, D # {}
    PROVE  IsLeast(Earliest(D), D)
<1> DEFINE I == {d.left : d \in D}
<1>1. I \subseteq Nat /\ I # {}
      BY DEF AllDeadlines
<1>2. Min(I) \in I /\ \A n \in I : Min(I) <= n
  <2> HIDE DEF I
  <2> QED BY <1>1, LeastElement
<1> QED BY <1>2 DEF Earliest, IsLeast

LEMMA EarliestTyped ==
    ASSUME NEW D \in SUBSET AllDeadlines
    PROVE  Earliest(D) \in Int
<1>1. Never \in Int
      BY TimesAssumption DEF Never
<1>2. CASE D = {}
      BY <1>1, <1>2 DEF Earliest
<1>3. CASE D # {}
      BY <1>3, EarliestIsLeast DEF IsLeast, AllDeadlines
<1> QED BY <1>2, <1>3

\* Time passing changes neither what a deadline is for nor which is earliest.
LEMMA AfterFacts ==
    ASSUME NEW D \in SUBSET AllDeadlines, NEW c \in Nat, \A d \in D : c <= d.left
    PROVE  /\ After(D, c) \in SUBSET AllDeadlines
           /\ \A n \in Int : IsLeast(n, D) => IsLeast(n - c, After(D, c))
           /\ {d.id : d \in {e \in After(D, c) : e.type = "Alarm"}}
                = {d.id : d \in {e \in D : e.type = "Alarm"}}
           /\ (\E d \in D : d.type = "VBlankStart")
                => \E d \in After(D, c) : d.type = "VBlankStart"
           /\ (\A d, e \in D : d.type = "Alarm" /\ e.type = "Alarm" /\ d.id = e.id => d = e)
                => \A d, e \in After(D, c) :
                      d.type = "Alarm" /\ e.type = "Alarm" /\ d.id = e.id => d = e
<1> DEFINE later(d) == [d EXCEPT !.left = @ - c]
<1>1. \A d \in D : /\ later(d) \in AllDeadlines
                   /\ later(d).type = d.type /\ later(d).id = d.id
                   /\ later(d).left = d.left - c
      BY DEF AllDeadlines
<1>2. After(D, c) = {later(d) : d \in D}
      BY DEF After
<1>3. \A d \in D : d.left \in Nat
      BY DEF AllDeadlines
<1> HIDE DEF later
<1>4. After(D, c) \in SUBSET AllDeadlines
      BY <1>1, <1>2
<1>5. ASSUME NEW n \in Int, IsLeast(n, D)
      PROVE  IsLeast(n - c, After(D, c))
      BY <1>1, <1>2, <1>3, <1>5 DEF IsLeast
<1>6. {d.id : d \in {e \in After(D, c) : e.type = "Alarm"}}
         = {d.id : d \in {e \in D : e.type = "Alarm"}}
      BY <1>1, <1>2
<1>7. (\E d \in D : d.type = "VBlankStart") => \E d \in After(D, c) : d.type = "VBlankStart"
      BY <1>1, <1>2
<1>8. ASSUME \A d, e \in D : d.type = "Alarm" /\ e.type = "Alarm" /\ d.id = e.id => d = e
      PROVE  \A d, e \in After(D, c) :
                d.type = "Alarm" /\ e.type = "Alarm" /\ d.id = e.id => d = e
      BY <1>1, <1>2, <1>8
<1> QED BY <1>4, <1>5, <1>6, <1>7, <1>8

\* The host clock changes nothing but the host times.
Same(d, e) == d.type = e.type /\ d.id = e.id /\ d.left = e.left
OneHostTick(d) == [d EXCEPT !.host = Max({@ - 1, -MaxLate})]

LEMMA HostAfterFacts ==
    ASSUME NEW D \in SUBSET AllDeadlines
    PROVE  /\ HostAfter(D) = {OneHostTick(d) : d \in D}
           /\ \A d \in D : OneHostTick(d) \in AllDeadlines /\ Same(OneHostTick(d), d)
<1>1. ASSUME NEW a \in Int, NEW b \in Int
      PROVE  Max({a, b}) \in Int
  <2>1. \E x \in {a, b} : \A y \in {a, b} : x >= y
        BY <1>1
  <2>2. Max({a, b}) \in {a, b}
        BY <2>1 DEF Max
  <2> QED BY <2>2
<1>2. ASSUME NEW d \in D
      PROVE  Max({d.host - 1, -MaxLate}) \in Int
  <2>1. d.host \in Int /\ -MaxLate \in Int
        BY TimesAssumption DEF AllDeadlines
  <2>2. d.host - 1 \in Int
        BY <2>1
  <2> QED BY <1>1, <2>1, <2>2
<1>3. ASSUME NEW d \in D, NEW h \in Int
      PROVE  /\ [d EXCEPT !.host = h] \in AllDeadlines
             /\ Same([d EXCEPT !.host = h], d)
      BY DEF AllDeadlines, Same
<1>4. \A d \in D : OneHostTick(d) = [d EXCEPT !.host = Max({d.host - 1, -MaxLate})]
      BY DEF OneHostTick
<1>5. HostAfter(D) = {OneHostTick(d) : d \in D}
      BY DEF HostAfter, OneHostTick
<1> QED BY <1>2, <1>3, <1>4, <1>5

\* Facts about sequences, for the sequences of events.
LEMMA Associative ==
    ASSUME NEW s \in Seq(Nat), NEW t \in Seq(Nat), NEW u \in Seq(Nat)
    PROVE  (s \o t) \o u = s \o (t \o u)
OBVIOUS

LEMMA Appended ==
    ASSUME NEW s \in Seq(Nat), NEW n \in Nat
    PROVE  Append(s, n) = s \o <<n>>
BY AppendIsConcat, Zenon

(***************************************************************************)
(* The actions keep the invariant: those that leave the deadlines alone.   *)
(***************************************************************************)
\* What the invariant says of times depends on these variables only, and on
\* the places where it says something.
LEMMA TimesStay ==
    ASSUME IInv, UNCHANGED <<deadlines, due, next, alarms>>, at' \in Places,
           at' = "fire" <=> at = "fire",
           at' \in Relying => at \in Relying,
           at' = "guest" => next >= 1
    PROVE  /\ deadlines' \in SUBSET AllDeadlines /\ due' \in SUBSET AllDeadlines
           /\ next' \in Int /\ at' \in Places
           /\ DuesFirst' /\ AlarmsExact' /\ CacheRight' /\ GuestBefore'
<1>1. DuesFirst' /\ AlarmsExact'
      BY DEF IInv, DuesFirst, AlarmsExact, Pending
<1>2. CacheRight'
      BY DEF IInv, CacheRight, Relying, IsLeast
<1> QED BY <1>1, <1>2 DEF IInv, Types, GuestBefore

LEMMA PostKeeps ==
    ASSUME IInv, Post
    PROVE  IInv'
<1> DEFINE n == Len(posted) + 1
<1>1. /\ events' = Append(events, n) /\ posted' = Append(posted, n)
      /\ checkpoint' /\ poster' = "notify"
      /\ at \notin {"paceCheck", "idleCheck", "store"}
      /\ UNCHANGED <<deadlines, due, next, alarms, at, batch, handled, work>>
      BY DEF Post, MutexFree
<1>2. /\ n \in Nat /\ events \in Seq(Nat) /\ posted \in Seq(Nat)
      /\ batch \in Seq(Nat) /\ handled \in Seq(Nat)
      BY DEF IInv, Types
<1> HIDE DEF n
<1>3. /\ events' \in Seq(Nat) /\ posted' \in Seq(Nat)
      /\ batch' \in Seq(Nat) /\ handled' \in Seq(Nat)
      BY <1>1, <1>2
<1>4. EventsInOrder'
  <2>1. /\ Append(posted, n) = posted \o <<n>>
        /\ Append(events, n) = events \o <<n>>
        BY <1>2, Appended
  <2>2. <<n>> \in Seq(Nat) /\ handled \o batch \in Seq(Nat)
        BY <1>2, ConcatProperties
  <2>3. posted = (handled \o batch) \o events
        BY DEF IInv, EventsInOrder
  <2>4. ((handled \o batch) \o events) \o <<n>> = (handled \o batch) \o (events \o <<n>>)
        BY <1>2, <2>2, Associative
  <2> QED BY <1>1, <2>1, <2>3, <2>4 DEF EventsInOrder
<1>5. EventsKnown' /\ NoLostWakeup'
      BY <1>1 DEF IInv, EventsKnown, NoLostWakeup
<1>6. /\ deadlines' \in SUBSET AllDeadlines /\ due' \in SUBSET AllDeadlines
      /\ next' \in Int /\ at' \in Places
      /\ DuesFirst' /\ AlarmsExact' /\ CacheRight' /\ GuestBefore'
  <2>1. at \in Places /\ (at = "guest" => next >= 1)
        BY DEF IInv, Types, GuestBefore
  <2> QED BY <1>1, <2>1, TimesStay
<1> QED BY <1>3, <1>4, <1>5, <1>6 DEF IInv, Types

\* The steps that leave the events and the deadlines where they are.
LEMMA OthersKeep ==
    ASSUME IInv,
           \/ PostNotify \/ RequestStop \/ Loop \/ PaceSleep \/ ReadWork \/ StoreWork
           \/ Dispatch \/ IdleCheck \/ IdleSleep \/ GuestBlocks \/ UNCHANGED vars
    PROVE  IInv'
<1> USE DEF IInv, Types
<1>0. /\ next \in Int
      /\ at = "guest" => next >= 1
      /\ events \in Seq(Nat) /\ at \in Places
      BY DEF GuestBefore
<1>1. UNCHANGED <<events, batch, posted, handled, deadlines, due, next, alarms>>
      BY DEF PostNotify, RequestStop, Loop, PaceSleep, ReadWork, StoreWork, Dispatch, IdleCheck,
             IdleSleep, GuestBlocks, hostVars, vars
<1>2. /\ at' \in Places
      /\ at' = "fire" <=> at = "fire"
      /\ at' \in Relying => at \in Relying
      /\ at' = "guest" => next >= 1
      BY <1>0, <1>1 DEF PostNotify, RequestStop, Loop, PaceSleep, ReadWork, StoreWork, Dispatch,
             IdleCheck, IdleSleep, GuestBlocks, vars, Places, Relying, CheckpointDue
<1>3. /\ deadlines' \in SUBSET AllDeadlines /\ due' \in SUBSET AllDeadlines
      /\ next' \in Int /\ at' \in Places
      /\ DuesFirst' /\ AlarmsExact' /\ CacheRight' /\ GuestBefore'
  <2> HIDE DEF IInv, Types
  <2> QED BY <1>1, <1>2, TimesStay
<1>4. EventsInOrder'
      BY <1>1 DEF EventsInOrder
<1>5. EventsKnown'
      BY <1>0, <1>1 DEF EventsKnown, PostNotify, RequestStop, Loop, PaceSleep, ReadWork, StoreWork,
             Dispatch, IdleCheck, IdleSleep, GuestBlocks, vars, PendingWork, Woken
<1>6. NoLostWakeup'
      BY <1>0, <1>1 DEF NoLostWakeup, Asleep, EventsKnown, PostNotify, RequestStop, Loop, PaceSleep,
             ReadWork, StoreWork, Dispatch, IdleCheck, IdleSleep, GuestBlocks, vars, hostVars
<1> QED BY <1>1, <1>3, <1>4, <1>5, <1>6

LEMMA SwapKeeps ==
    ASSUME IInv, SwapEvents
    PROVE  IInv'
<1>1. /\ at = "swap" /\ at' = "handle" /\ batch' = events /\ events' = <<>>
      /\ UNCHANGED <<deadlines, due, next, alarms, posted, handled>>
      BY DEF SwapEvents, hostVars
<1>2. /\ events \in Seq(Nat) /\ posted \in Seq(Nat) /\ handled \in Seq(Nat)
      /\ batch = <<>>
      BY <1>1 DEF IInv, Types, EventsKnown
<1>3. EventsInOrder'
  <2>1. handled \o events \in Seq(Nat)
        BY <1>2, ConcatProperties
  <2>2. (handled \o events) \o <<>> = handled \o events /\ handled \o <<>> = handled
        BY <1>2, <2>1, ConcatEmptySeq
  <2>3. posted = (handled \o <<>>) \o events
        BY <1>2 DEF IInv, EventsInOrder
  <2> QED BY <1>1, <2>2, <2>3 DEF EventsInOrder
<1>4. EventsKnown' /\ NoLostWakeup'
      BY <1>1 DEF EventsKnown, NoLostWakeup, Asleep
<1>5. /\ deadlines' \in SUBSET AllDeadlines /\ due' \in SUBSET AllDeadlines
      /\ next' \in Int /\ at' \in Places
      /\ DuesFirst' /\ AlarmsExact' /\ CacheRight' /\ GuestBefore'
      BY <1>1, TimesStay DEF Places, Relying
<1> QED BY <1>1, <1>2, <1>3, <1>4, <1>5 DEF IInv, Types

LEMMA HandleKeeps ==
    ASSUME IInv, HandleEvent
    PROVE  IInv'
<1>1. /\ at = "handle" /\ at' = "handle" /\ batch # <<>>
      /\ handled' = Append(handled, Head(batch)) /\ batch' = Tail(batch)
      /\ UNCHANGED <<deadlines, due, next, alarms, posted, events>>
      BY DEF HandleEvent, hostVars
<1>2. events \in Seq(Nat) /\ posted \in Seq(Nat) /\ batch \in Seq(Nat) /\ handled \in Seq(Nat)
      BY DEF IInv, Types
<1>3. /\ Head(batch) \in Nat /\ Tail(batch) \in Seq(Nat) /\ <<Head(batch)>> \in Seq(Nat)
      /\ batch = <<Head(batch)>> \o Tail(batch)
      BY <1>1, <1>2
<1>4. handled' \in Seq(Nat) /\ handled' = handled \o <<Head(batch)>>
      BY <1>1, <1>2, <1>3, Appended
<1>5. handled' \o batch' = handled \o batch
  <2>1. (handled \o <<Head(batch)>>) \o Tail(batch) = handled \o (<<Head(batch)>> \o Tail(batch))
        BY <1>2, <1>3, Associative
  <2> QED BY <1>1, <1>3, <1>4, <2>1
<1>6. EventsInOrder'
      BY <1>1, <1>5 DEF IInv, EventsInOrder
<1>7. EventsKnown' /\ NoLostWakeup'
      BY <1>1 DEF EventsKnown, NoLostWakeup, Asleep
<1>8. /\ deadlines' \in SUBSET AllDeadlines /\ due' \in SUBSET AllDeadlines
      /\ next' \in Int /\ at' \in Places
      /\ DuesFirst' /\ AlarmsExact' /\ CacheRight' /\ GuestBefore'
      BY <1>1, TimesStay DEF Places, Relying
<1> QED BY <1>1, <1>2, <1>3, <1>4, <1>6, <1>7, <1>8 DEF IInv, Types
(***************************************************************************)
(* Those that move deadlines.                                              *)
(***************************************************************************)
\* What the invariant says of events depends on these variables only.
LEMMA EventsStay ==
    ASSUME IInv, UNCHANGED <<events, batch, posted, handled, work, poster>>,
           at' \in {"swap", "fire", "due", "guest", "top", "idleCheck", "paceCheck"},
           at # "handle" \/ batch = <<>>,
           at' = "guest" => at = "guest" /\ (checkpoint' <=> checkpoint),
           at' \in {"idleCheck", "paceCheck"} => events = <<>>
    PROVE  /\ events' \in Seq(Nat) /\ batch' \in Seq(Nat) /\ posted' \in Seq(Nat)
           /\ handled' \in Seq(Nat)
           /\ EventsInOrder' /\ EventsKnown' /\ NoLostWakeup'
<1>1. EventsInOrder'
      BY DEF IInv, EventsInOrder
<1>2. EventsKnown' /\ NoLostWakeup'
      BY DEF IInv, EventsKnown, NoLostWakeup, Asleep
<1> QED BY <1>1, <1>2 DEF IInv, Types

LEMMA HostTickKeeps ==
    ASSUME IInv, HostTick
    PROVE  IInv'
<1>1. /\ deadlines' = HostAfter(deadlines) /\ due' = HostAfter(due)
      /\ UNCHANGED <<events, batch, posted, handled, work, poster, at, next, alarms,
                     checkpoint, signalled>>
      BY DEF HostTick, hostVars
<1>2. deadlines \in SUBSET AllDeadlines /\ due \in SUBSET AllDeadlines
      BY DEF IInv, Types
<1>3. /\ deadlines' = {OneHostTick(d) : d \in deadlines} /\ due' = {OneHostTick(d) : d \in due}
      /\ \A d \in deadlines \cup due : OneHostTick(d) \in AllDeadlines /\ Same(OneHostTick(d), d)
      BY <1>1, <1>2, HostAfterFacts
<1>4. deadlines' \in SUBSET AllDeadlines /\ due' \in SUBSET AllDeadlines
      BY <1>3
<1>5. CacheRight'
      BY <1>1, <1>3 DEF IInv, CacheRight, Relying, IsLeast, Same
<1>6. DuesFirst'
      BY <1>1, <1>3 DEF IInv, DuesFirst, Pending, Same
<1>7. Pending' = {OneHostTick(d) : d \in Pending}
      BY <1>3 DEF Pending
<1>8. AlarmsExact'
      BY <1>1, <1>3, <1>7 DEF IInv, AlarmsExact, Pending, Same
<1>9. EventsInOrder' /\ EventsKnown' /\ NoLostWakeup'
      BY <1>1 DEF IInv, EventsInOrder, EventsKnown, NoLostWakeup, Asleep
<1> QED BY <1>1, <1>4, <1>5, <1>6, <1>8, <1>9 DEF IInv, Types, GuestBefore

\* Deadlines are only moved to due.
LEMMA TakeKeeps ==
    ASSUME IInv, due = {}, Take, alarms' = alarms
    PROVE  /\ deadlines' \in SUBSET AllDeadlines /\ due' \in SUBSET AllDeadlines
           /\ next' \in Int /\ at' = "fire"
           /\ DuesFirst' /\ AlarmsExact' /\ CacheRight' /\ GuestBefore'
<1>1. /\ at' = "fire" /\ next' = Earliest(deadlines')
      /\ due' \subseteq deadlines /\ deadlines' = deadlines \ due'
      BY DEF Take, Overdue
<1>2. deadlines' \in SUBSET AllDeadlines /\ due' \in SUBSET AllDeadlines
      BY <1>1 DEF IInv, Types
<1>3. next' \in Int
      BY <1>1, <1>2, EarliestTyped
<1>4. Pending' = Pending /\ Pending = deadlines
      BY <1>1 DEF Pending
<1>5. AlarmsExact'
      BY <1>4 DEF IInv, AlarmsExact
<1>6. DuesFirst'
      BY <1>1, <1>4 DEF IInv, DuesFirst, AlarmsExact
<1> QED BY <1>1, <1>2, <1>3, <1>5, <1>6 DEF CacheRight, Relying, GuestBefore

LEMMA CollectKeeps ==
    ASSUME IInv, Collect \/ PaceWake
    PROVE  IInv'
<1>1. /\ at \in {"due", "pacing"} /\ due = {}
      /\ UNCHANGED <<events, batch, posted, handled, work, poster, alarms, checkpoint>>
      BY DEF IInv, DuesFirst, Collect, PaceWake, hostVars
<1>2. deadlines \in SUBSET AllDeadlines /\ deadlines # {}
      BY <1>1 DEF IInv, Types, DuesFirst, Pending
<1>3. CASE Take
  <2>1. at' = "fire"
        BY <1>3 DEF Take
  <2> QED BY <1>1, <1>3, <2>1, TakeKeeps, EventsStay DEF IInv, Types, Places
<1>4. CASE next' = Earliest(deadlines) /\ at' = "swap" /\ UNCHANGED <<deadlines, due>>
  <2>1. IsLeast(next', deadlines)
        BY <1>2, <1>4, EarliestIsLeast
  <2>2. next' \in Int
        BY <1>2, <1>4, EarliestTyped
  <2>3. CacheRight' /\ DuesFirst' /\ AlarmsExact' /\ GuestBefore'
        BY <1>1, <1>4, <2>1 DEF IInv, CacheRight, Relying, DuesFirst, AlarmsExact, Pending,
               IsLeast, GuestBefore
  <2> QED BY <1>1, <1>4, <2>2, <2>3, EventsStay DEF IInv, Types, Places
<1>5. CASE at' = "paceCheck" /\ ~Woken /\ UNCHANGED <<deadlines, due, next>>
  <2>1. events = <<>>
        BY <1>5 DEF Woken
  <2>2. CacheRight' /\ DuesFirst' /\ AlarmsExact' /\ GuestBefore'
        BY <1>1, <1>5 DEF IInv, CacheRight, Relying, DuesFirst, AlarmsExact, Pending, GuestBefore
  <2> QED BY <1>1, <1>5, <2>1, <2>2, EventsStay DEF IInv, Types, Places
<1> QED BY <1>3, <1>4, <1>5 DEF Collect, PaceWake

LEMMA FireKeeps ==
    ASSUME IInv, NEW d \in due, Fire(d)
    PROVE  IInv'
<1>1. /\ at = "fire" /\ at' \in {"due", "fire"} /\ (due' # {} => at' = "fire")
      /\ due' = due \ {d}
      /\ deadlines' = deadlines \cup IF d.type = "VBlankStart" THEN Successors(d) ELSE {}
      /\ next' = Earliest(deadlines')
      /\ alarms' = IF d.type = "Alarm" THEN alarms \ {d.id} ELSE alarms
      /\ UNCHANGED <<events, batch, posted, handled, work, poster, checkpoint>>
      BY DEF Fire, hostVars
<1>2. d \in AllDeadlines /\ deadlines \in SUBSET AllDeadlines /\ due \in SUBSET AllDeadlines
      BY DEF IInv, Types
<1>3. /\ Successors(d) \in SUBSET AllDeadlines
      /\ \A e \in Successors(d) : e.type # "Alarm"
      /\ \E e \in Successors(d) : e.type = "VBlankStart"
  <2>1. d.left + Duration \in Nat /\ d.left + Period \in Nat /\ d.host + Duration \in Int
        /\ d.host + Period \in Int
        BY <1>2, TimesAssumption DEF AllDeadlines
  <2> QED BY <2>1 DEF Successors, Deadline, AllDeadlines
<1>4. deadlines' \in SUBSET AllDeadlines /\ due' \in SUBSET AllDeadlines
      BY <1>1, <1>2, <1>3
<1>5. next' \in Int
      BY <1>1, <1>4, EarliestTyped
<1>6. /\ {e \in due' : e.type = "Alarm"} = {e \in due : e.type = "Alarm"} \ {d}
      /\ {e \in deadlines' : e.type = "Alarm"} = {e \in deadlines : e.type = "Alarm"}
      BY <1>1, <1>3
<1>7. DuesFirst'
  <2>1. \A e \in due', f \in deadlines' : e.type = "Alarm" /\ f.type = "Alarm" => e.id # f.id
        BY <1>6 DEF IInv, DuesFirst
  <2>2. \E e \in Pending' : e.type = "VBlankStart"
        BY <1>1, <1>3 DEF IInv, DuesFirst, Pending
  <2> QED BY <1>1, <2>1, <2>2 DEF DuesFirst
<1>8. AlarmsExact'
  <2>1. {e \in Pending' : e.type = "Alarm"} = {e \in Pending : e.type = "Alarm"} \ {d}
    <3>1. d.type = "Alarm" => d \notin deadlines
          BY DEF IInv, DuesFirst
    <3> QED BY <1>6, <3>1 DEF Pending
  <2>2. d.type = "Alarm" => \A e \in Pending : e.type = "Alarm" /\ e.id = d.id => e = d
        BY DEF IInv, AlarmsExact, Pending
  <2>3. alarms = {e.id : e \in {f \in Pending : f.type = "Alarm"}}
        BY DEF IInv, AlarmsExact
  <2>4. CASE d.type = "Alarm"
    <3>1. alarms' = alarms \ {d.id}
          BY <1>1, <2>4
    <3>2. alarms' = {e.id : e \in {f \in Pending : f.type = "Alarm"} \ {d}}
          BY <2>2, <2>3, <2>4, <3>1
    <3> QED BY <2>1, <3>2 DEF IInv, AlarmsExact
  <2>5. CASE d.type # "Alarm"
    <3>1. {e \in Pending' : e.type = "Alarm"} = {e \in Pending : e.type = "Alarm"}
          BY <2>1, <2>5
    <3>2. alarms' = alarms
          BY <1>1, <2>5
    <3> QED BY <3>1, <3>2 DEF IInv, AlarmsExact
  <2> QED BY <2>4, <2>5
<1>9. CacheRight' /\ GuestBefore'
      BY <1>1 DEF CacheRight, Relying, GuestBefore
<1> QED BY <1>1, <1>4, <1>5, <1>7, <1>8, <1>9, EventsStay DEF IInv, Types, Places

LEMMA GuestRunsKeeps ==
    ASSUME IInv, GuestRuns
    PROVE  IInv'
<1>1. /\ at = "guest" /\ deadlines' = After(deadlines, 1) /\ next' = next - 1
      /\ \/ at' = "guest" /\ ~(next' <= 0) /\ checkpoint' = checkpoint
         \/ at' = "due"
      /\ UNCHANGED <<events, batch, posted, handled, work, poster, due, alarms>>
      BY DEF GuestRuns, hostVars
<1>2. /\ deadlines \in SUBSET AllDeadlines /\ due = {} /\ next \in Int /\ next >= 1
      /\ IsLeast(next, deadlines)
      BY <1>1 DEF IInv, Types, DuesFirst, GuestBefore, CacheRight, Relying
<1>3. \A d \in deadlines : 1 <= d.left
      BY <1>2 DEF IsLeast, AllDeadlines
<1>4. /\ After(deadlines, 1) \in SUBSET AllDeadlines
      /\ IsLeast(next - 1, After(deadlines, 1))
      /\ {d.id : d \in {e \in After(deadlines, 1) : e.type = "Alarm"}}
            = {d.id : d \in {e \in deadlines : e.type = "Alarm"}}
      /\ (\E d \in deadlines : d.type = "VBlankStart")
            => \E d \in After(deadlines, 1) : d.type = "VBlankStart"
      /\ (\A d, e \in deadlines : d.type = "Alarm" /\ e.type = "Alarm" /\ d.id = e.id => d = e)
            => \A d, e \in After(deadlines, 1) :
                  d.type = "Alarm" /\ e.type = "Alarm" /\ d.id = e.id => d = e
      BY <1>2, <1>3, AfterFacts
<1>5. Pending = deadlines /\ Pending' = After(deadlines, 1)
      BY <1>1, <1>2 DEF Pending
<1>6. AlarmsExact' /\ DuesFirst'
      BY <1>1, <1>2, <1>4, <1>5 DEF IInv, AlarmsExact, DuesFirst
<1>7. CacheRight' /\ GuestBefore' /\ next' \in Int
      BY <1>1, <1>2, <1>4 DEF CacheRight, Relying, GuestBefore, IsLeast
<1> QED BY <1>1, <1>2, <1>4, <1>6, <1>7, EventsStay DEF IInv, Types, Places

LEMMA IdleWakeKeeps ==
    ASSUME IInv, IdleWake
    PROVE  IInv'
<1>1. /\ at = "asleep"
      /\ UNCHANGED <<events, batch, posted, handled, work, poster, due, alarms>>
      BY DEF IdleWake, hostVars
<1>2. /\ deadlines \in SUBSET AllDeadlines /\ due = {} /\ next \in Int
      /\ IsLeast(next, deadlines)
      BY <1>1 DEF IInv, Types, DuesFirst, CacheRight, Relying
<1>3. CASE \/ at' = "top" /\ UNCHANGED <<deadlines, next, checkpoint>>
           \/ at' = "idleCheck" /\ ~Woken /\ UNCHANGED <<deadlines, next, checkpoint>>
  <2>1. CacheRight' /\ DuesFirst' /\ AlarmsExact' /\ GuestBefore'
        BY <1>1, <1>2, <1>3 DEF IInv, CacheRight, Relying, DuesFirst, AlarmsExact, Pending,
               GuestBefore, IsLeast
  <2>2. at' = "idleCheck" => events = <<>>
        BY <1>3 DEF Woken
  <2>3. /\ events' \in Seq(Nat) /\ batch' \in Seq(Nat) /\ posted' \in Seq(Nat)
        /\ handled' \in Seq(Nat) /\ EventsInOrder' /\ EventsKnown' /\ NoLostWakeup'
        BY <1>1, <1>3, <2>2, EventsStay
  <2> QED BY <1>1, <1>2, <1>3, <2>1, <2>3 DEF IInv, Types, Places
<1>4. ASSUME NEW d \in FirstDeadlines, NEW c, c = (IF d.left > 0 THEN d.left ELSE 0),
             deadlines' = After(deadlines, c), next' = next - c, at' = "top"
      PROVE  IInv'
  <2>1. c \in Nat /\ \A e \in deadlines : c <= e.left
        BY <1>2, <1>4 DEF FirstDeadlines, AllDeadlines
  <2>2. /\ After(deadlines, c) \in SUBSET AllDeadlines
        /\ {e.id : e \in {f \in After(deadlines, c) : f.type = "Alarm"}}
              = {e.id : e \in {f \in deadlines : f.type = "Alarm"}}
        /\ (\E e \in deadlines : e.type = "VBlankStart")
              => \E e \in After(deadlines, c) : e.type = "VBlankStart"
        /\ (\A e, f \in deadlines : e.type = "Alarm" /\ f.type = "Alarm" /\ e.id = f.id => e = f)
              => \A e, f \in After(deadlines, c) :
                    e.type = "Alarm" /\ f.type = "Alarm" /\ e.id = f.id => e = f
        BY <1>2, <2>1, AfterFacts
  <2>3. Pending = deadlines /\ Pending' = After(deadlines, c)
        BY <1>1, <1>2, <1>4 DEF Pending
  <2>4. AlarmsExact' /\ DuesFirst'
        BY <1>1, <1>2, <1>4, <2>2, <2>3 DEF IInv, AlarmsExact, DuesFirst
  <2>5. CacheRight' /\ GuestBefore' /\ next' \in Int
        BY <1>2, <1>4, <2>1 DEF CacheRight, Relying, GuestBefore
  <2> QED BY <1>1, <1>2, <1>4, <2>2, <2>4, <2>5, EventsStay DEF IInv, Types, Places
<1> QED BY <1>3, <1>4 DEF IdleWake

LEMMA SetAlarmKeeps ==
    ASSUME IInv, NEW a \in Alarms, NEW delay \in 1 .. MaxDelay, SetAlarm(a, delay)
    PROVE  IInv'
<1> DEFINE new == Deadline("Alarm", a, delay, delay)
<1>1. /\ at = "guest" /\ at' = "guest" /\ a \notin alarms
      /\ alarms' = alarms \cup {a} /\ deadlines' = deadlines \cup {new}
      /\ next' = Earliest(deadlines')
      /\ UNCHANGED <<events, batch, posted, handled, work, poster, due, checkpoint>>
      BY DEF SetAlarm, hostVars
<1>2. /\ deadlines \in SUBSET AllDeadlines /\ due = {} /\ next \in Int /\ next >= 1
      /\ IsLeast(next, deadlines)
      BY <1>1 DEF IInv, Types, DuesFirst, GuestBefore, CacheRight, Relying
<1>3. /\ new \in AllDeadlines
      /\ new.type = "Alarm" /\ new.id = a /\ new.left >= 1
      BY TimesAssumption DEF Deadline, AllDeadlines
<1> HIDE DEF new
<1>4. deadlines' \in SUBSET AllDeadlines /\ deadlines' # {}
      BY <1>1, <1>2, <1>3
<1>5. IsLeast(next', deadlines') /\ next' \in Int
      BY <1>1, <1>4, EarliestIsLeast, EarliestTyped
<1>6. next' >= 1
  <2>1. \A d \in deadlines' : d.left >= 1
        BY <1>1, <1>2, <1>3 DEF IsLeast, AllDeadlines
  <2> QED BY <1>5, <2>1 DEF IsLeast
<1>7. Pending = deadlines /\ Pending' = deadlines \cup {new}
      BY <1>1, <1>2 DEF Pending
<1>8. AlarmsExact'
  <2>1. \A d \in Pending : d.type = "Alarm" => d.id # a
        BY <1>1 DEF IInv, AlarmsExact
  <2>2. {d \in Pending' : d.type = "Alarm"} = {d \in Pending : d.type = "Alarm"} \cup {new}
        BY <1>3, <1>7
  <2>3. alarms' = {d.id : d \in {e \in Pending' : e.type = "Alarm"}}
        BY <1>1, <1>3, <2>2 DEF IInv, AlarmsExact
  <2>4. \A d, e \in Pending' : d.type = "Alarm" /\ e.type = "Alarm" /\ d.id = e.id => d = e
        BY <1>3, <1>7, <2>1 DEF IInv, AlarmsExact
  <2> QED BY <2>3, <2>4 DEF AlarmsExact
<1>9. DuesFirst'
      BY <1>1, <1>2, <1>7 DEF IInv, DuesFirst
<1>10. CacheRight' /\ GuestBefore'
       BY <1>5, <1>6 DEF CacheRight, Relying, GuestBefore, IsLeast
<1> QED BY <1>1, <1>2, <1>4, <1>5, <1>8, <1>9, <1>10, EventsStay DEF IInv, Types, Places

LEMMA CancelAlarmKeeps ==
    ASSUME IInv, NEW a \in Alarms, CancelAlarm(a)
    PROVE  IInv'
<1>1. /\ at = "guest" /\ at' = "guest"
      /\ alarms' = alarms \ {a}
      /\ deadlines' = {d \in deadlines : ~(d.type = "Alarm" /\ d.id = a)}
      /\ next' = Earliest(deadlines')
      /\ UNCHANGED <<events, batch, posted, handled, work, poster, due, checkpoint>>
      BY DEF CancelAlarm, hostVars
<1>2. /\ deadlines \in SUBSET AllDeadlines /\ due = {} /\ next \in Int /\ next >= 1
      /\ IsLeast(next, deadlines)
      BY <1>1 DEF IInv, Types, DuesFirst, GuestBefore, CacheRight, Relying
<1>3. Pending = deadlines /\ Pending' = deadlines'
      BY <1>1, <1>2 DEF Pending
<1>4. DuesFirst'
      BY <1>1, <1>2, <1>3 DEF IInv, DuesFirst
<1>5. deadlines' \in SUBSET AllDeadlines /\ deadlines' # {}
      BY <1>1, <1>2, <1>3, <1>4 DEF DuesFirst
<1>6. IsLeast(next', deadlines') /\ next' \in Int
      BY <1>1, <1>5, EarliestIsLeast, EarliestTyped
<1>7. next' >= 1
  <2>1. \A d \in deadlines' : d.left >= 1
        BY <1>1, <1>2 DEF IsLeast, AllDeadlines
  <2> QED BY <1>6, <2>1 DEF IsLeast
<1>8. AlarmsExact'
      BY <1>1, <1>3 DEF IInv, AlarmsExact
<1>9. CacheRight' /\ GuestBefore'
      BY <1>6, <1>7 DEF CacheRight, Relying, GuestBefore, IsLeast
<1> QED BY <1>1, <1>2, <1>4, <1>5, <1>6, <1>8, <1>9, EventsStay DEF IInv, Types, Places

(***************************************************************************)
(* The theorems.                                                           *)
(***************************************************************************)
LEMMA InitHolds == Init => IInv
<1> SUFFICES ASSUME Init
             PROVE  IInv
    OBVIOUS
<1> DEFINE first == Deadline("VBlankStart", 0, Period, Period)
<1>1. deadlines = {first} /\ due = {} /\ alarms = {} /\ next = Period /\ at = "top"
      BY DEF Init
<1>2. first \in AllDeadlines /\ first.type = "VBlankStart"
      BY TimesAssumption DEF Deadline, AllDeadlines
<1> HIDE DEF first
<1>3. Types
      BY <1>1, <1>2, TimesAssumption DEF Init, Types, Places
<1>4. EventsInOrder /\ EventsKnown /\ NoLostWakeup
      BY DEF Init, EventsInOrder, EventsKnown, NoLostWakeup, Asleep
<1>5. DuesFirst /\ AlarmsExact
      BY <1>1, <1>2 DEF DuesFirst, AlarmsExact, Pending
<1> QED BY <1>1, <1>3, <1>4, <1>5 DEF IInv, CacheRight, Relying, GuestBefore

LEMMA StepKeeps == IInv /\ [Next]_vars => IInv'
<1> SUFFICES ASSUME IInv, [Next]_vars
             PROVE  IInv'
    OBVIOUS
<1>1. CASE LoopStep
  <2>1. CASE Collect \/ PaceWake
        BY <2>1, CollectKeeps
  <2>2. CASE \E d \in due : Fire(d)
        BY <2>2, FireKeeps
  <2>3. CASE SwapEvents
        BY <2>3, SwapKeeps
  <2>4. CASE HandleEvent
        BY <2>4, HandleKeeps
  <2>5. CASE IdleWake
        BY <2>5, IdleWakeKeeps
  <2>6. CASE \/ Loop \/ PaceSleep \/ ReadWork \/ StoreWork \/ Dispatch \/ IdleCheck \/ IdleSleep
        BY <2>6, OthersKeep
  <2> QED BY <1>1, <2>1, <2>2, <2>3, <2>4, <2>5, <2>6 DEF LoopStep
<1>2. CASE GuestRuns
      BY <1>2, GuestRunsKeeps
<1>3. CASE GuestCall
      BY <1>3, OthersKeep, SetAlarmKeeps, CancelAlarmKeeps DEF GuestCall
<1>4. CASE Post
      BY <1>4, PostKeeps
<1>5. CASE HostTick
      BY <1>5, HostTickKeeps
<1>6. CASE PostNotify \/ RequestStop \/ Done \/ UNCHANGED vars
      BY <1>6, OthersKeep DEF Done
<1> QED BY <1>1, <1>2, <1>3, <1>4, <1>5, <1>6 DEF Next

LEMMA Invariant == Spec => []IInv
BY InitHolds, StepKeeps, PTL DEF Spec

\* Events are processed once each, in the order in which postEvent queued them,
\* however the host threads' posts fall between the steps of processPendingEvents.
THEOREM InOrder == Spec => []EventsInOrder
<1>1. IInv => EventsInOrder
      BY DEF IInv
<1> QED BY <1>1, Invariant, PTL

\* The flag that processPendingEvents recomputes under the mutex never hides
\* an event from guest code's checkpoints.
THEOREM FlagKept == Spec => []CheckpointNotLost
<1>1. IInv => CheckpointNotLost
      BY DEF IInv, EventsKnown, CheckpointNotLost
<1> QED BY <1>1, Invariant, PTL

\* Neither wait on m_eventCv (pacing in processDueDeadlines, waitForEvent)
\* sleeps on an event without a notification under way.
THEOREM WakeupKept == Spec => []NoLostWakeup
<1>1. IInv => NoLostWakeup
      BY DEF IInv
<1> QED BY <1>1, Invariant, PTL

\* The time cached by updateNextDeadline is that of the earliest deadline
\* whenever guest code or an idle executor relies on it.
THEOREM CacheExact == Spec => []NextIsEarliest
<1>1. IInv => NextIsEarliest
      BY DEF IInv, CacheRight, Relying, IsLeast, NextIsEarliest
<1> QED BY <1>1, Invariant, PTL

\* An alarm is in m_alarms exactly while its deadline is pending, one for each
\* id (setAlarm, cancelAlarm, processDueDeadlines).
THEOREM AlarmHasDeadline == Spec => []AlarmsExact
<1>1. IInv => AlarmsExact
      BY DEF IInv
<1> QED BY <1>1, Invariant, PTL

-------------------------------------------------------------------------------
(***************************************************************************)
(* Event flags: the inductive invariant.                                   *)
(***************************************************************************)
FlagsInv == FlagsTypeOK /\ WaitersExact /\ NoneSatisfied

WaitersOf(f) == {t \in Threads : Waiting(t) /\ wait[t].flag = f}

(***************************************************************************)
(* Conditions and queues.                                                  *)
(***************************************************************************)
\* A condition that holds goes on holding when bits are added.
LEMMA ConditionMonotone ==
    ASSUME NEW b, NEW c, b \subseteq c, NEW w, Condition(b, w)
    PROVE  Condition(c, w)
BY DEF Condition

LEMMA RemainingShrinks ==
    ASSUME NEW b, NEW w
    PROVE  Remaining(b, w) \subseteq b
BY DEF Remaining

\* A queue without repetitions is no longer than one whose entries it has.
LEMMA AtMostOne ==
    ASSUME NEW T, NEW q \in Seq(T), NEW r \in Seq(T),
           IsInjective(r), Range(r) \subseteq Range(q), Len(q) <= 1
    PROVE  Len(r) <= 1
<1>1. SUFFICES ASSUME Len(r) > 1
               PROVE  FALSE
      OBVIOUS
<1>2. Len(q) \in Nat /\ Len(r) \in Nat
      OBVIOUS
<1>3. 1 \in 1 .. Len(r) /\ 2 \in 1 .. Len(r)
      BY <1>1, <1>2
<1>4. r[1] \in Range(q) /\ r[2] \in Range(q) /\ r[1] # r[2]
      BY <1>3, RangeOfQueue
<1>5. PICK i, j \in 1 .. Len(q) : q[i] = r[1] /\ q[j] = r[2]
      BY <1>4, RangeOfQueue
<1>6. i = 1 /\ j = 1
      BY <1>2, <1>5
<1> QED BY <1>4, <1>5, <1>6

LEMMA EmptyQueue == Range(<<>>) = {} /\ IsInjective(<<>>)
<1>1. DOMAIN <<>> = {}
      OBVIOUS
<1> QED BY <1>1 DEF Range, IsInjective

LEMMA WaitTyped ==
    ASSUME FlagsTypeOK, NEW t \in Threads
    PROVE  /\ Waiting(t) => wait[t] \in Waits /\ wait[t].flag \in Flags
           /\ ~Waiting(t) => wait[t] = NoWait
<1>1. wait[t] \in Waits \cup {NoWait}
      BY DEF FlagsTypeOK
<1>2. wait[t] \in Waits => wait[t].flag \in Flags /\ wait[t].flag # NoFlag
      BY FlagsAssumption DEF Waits, NoFlag
<1>3. wait[t] = NoWait => wait[t].flag = NoFlag
      BY DEF NoWait
<1> QED BY <1>1, <1>2, <1>3 DEF Waiting

\* A new queue r for flag f, listing the threads S of those that waited, with
\* the others released.
LEMMA Shortened ==
    ASSUME FlagsInv, NEW f \in Flags, NEW S \in SUBSET Threads, NEW r \in Seq(Threads),
           \A t \in S : Waiting(t) /\ wait[t].flag = f,
           IsInjective(r), Range(r) = Range(waiters[f]) \ S,
           waiters' = [waiters EXCEPT ![f] = r],
           wait' = [t \in Threads |-> IF t \in S THEN NoWait ELSE wait[t]],
           attr' = attr
    PROVE  /\ WaitersExact'
           /\ waiters' \in [Flags -> Seq(Threads)]
           /\ wait' \in [Threads -> Waits \cup {NoWait}]
<1>1. waiters' \in [Flags -> Seq(Threads)] /\ wait' \in [Threads -> Waits \cup {NoWait}]
      BY DEF FlagsInv, FlagsTypeOK
<1>2. \A t \in Threads : Waiting(t)' <=> Waiting(t) /\ t \notin S
      BY DEF Waiting, NoWait
<1>3. ASSUME NEW g \in Flags
      PROVE  /\ Range(waiters'[g]) = {t \in Threads : Waiting(t)' /\ wait'[t].flag = g}
             /\ IsInjective(waiters'[g])
             /\ attr'[g] = "Absent" => waiters'[g] = <<>>
             /\ attr'[g] = "Single" => Len(waiters'[g]) <= 1
  <2>1. {t \in Threads : Waiting(t)' /\ wait'[t].flag = g} = WaitersOf(g) \ S
        BY <1>2 DEF WaitersOf
  <2>2. Range(waiters[g]) = WaitersOf(g) /\ IsInjective(waiters[g])
        BY DEF FlagsInv, WaitersExact, WaitersOf
  <2>3. CASE g = f
    <3>1. waiters'[g] = r
          BY <2>3 DEF FlagsInv, FlagsTypeOK
    <3>2. waiters[f] \in Seq(Threads)
          BY DEF FlagsInv, FlagsTypeOK
    <3>3. attr[f] = "Absent" => waiters[f] = <<>>
          BY DEF FlagsInv, WaitersExact
    <3>4. attr[f] = "Single" => Len(waiters[f]) <= 1
          BY DEF FlagsInv, WaitersExact
    <3>5. attr[f] = "Absent" => r = <<>>
      <4>1. SUFFICES ASSUME waiters[f] = <<>>, r # <<>>
                     PROVE  FALSE
            BY <3>3
      <4>2. 1 .. Len(waiters[f]) = {}
            BY <4>1
      <4>3. Range(waiters[f]) = {}
            BY <3>2, <4>2, RangeOfQueue
      <4>4. Head(r) \in Range(r)
            BY <4>1, TailFacts
      <4> QED BY <4>3, <4>4
    <3>6. attr[f] = "Single" => Len(r) <= 1
          BY <3>2, <3>4, AtMostOne
    <3> QED BY <2>1, <2>2, <2>3, <3>1, <3>5, <3>6
  <2>4. CASE g # f
    <3>1. waiters'[g] = waiters[g]
          BY <2>4 DEF FlagsInv, FlagsTypeOK
    <3>2. WaitersOf(g) \ S = WaitersOf(g)
          BY <2>4 DEF WaitersOf
    <3> QED BY <2>1, <2>2, <3>1, <3>2 DEF FlagsInv, WaitersExact
  <2> QED BY <2>3, <2>4
<1> QED BY <1>1, <1>3 DEF WaitersExact

(***************************************************************************)
(* finishEventWaiters only takes bits away.                                *)
(***************************************************************************)
LEMMA LeftTyped ==
    ASSUME FlagsTypeOK, NEW f \in Flags, NEW b \in SUBSET Bits, NEW left \in Left(f, b)
    PROVE  /\ Len(waiters[f]) \in Nat
           /\ left \in [0 .. Len(waiters[f]) -> SUBSET Bits]
           /\ \A i \in 1 .. Len(waiters[f]) : waiters[f][i] \in Threads
<1>1. waiters[f] \in Seq(Threads)
      BY DEF FlagsTypeOK
<1> QED BY <1>1 DEF Left

\* One turn of the loop.
LEMMA LeftStep ==
    ASSUME FlagsTypeOK, NEW f \in Flags, NEW b \in SUBSET Bits, NEW left \in Left(f, b),
           NEW i \in 1 .. Len(waiters[f])
    PROVE  left[i] \subseteq left[i - 1]
<1> DEFINE w == wait[Visited(f, i)]
<1>1. left[i] = IF Condition(left[i - 1], w) THEN Remaining(left[i - 1], w) ELSE left[i - 1]
      BY DEF Left
<1>2. Remaining(left[i - 1], w) \subseteq left[i - 1]
      BY RemainingShrinks
<1> QED BY <1>1, <1>2

LEMMA LeftShrinks ==
    ASSUME FlagsTypeOK, NEW f \in Flags, NEW b \in SUBSET Bits, NEW left \in Left(f, b),
           NEW i \in 0 .. Len(waiters[f])
    PROVE  \A j \in i .. Len(waiters[f]) : left[j] \subseteq left[i]
<1> DEFINE n == Len(waiters[f])
           G == {k \in Nat : i + k <= n => left[i + k] \subseteq left[i]}
<1>1. n \in Nat /\ left \in [0 .. n -> SUBSET Bits]
      BY LeftTyped
<1>2. 0 \in G
      BY <1>1
<1>3. ASSUME NEW k \in G
      PROVE  k + 1 \in G
  <2>1. CASE i + (k + 1) > n
        BY <1>1, <2>1
  <2>2. CASE i + (k + 1) <= n
    <3>1. i + (k + 1) \in 1 .. n /\ (i + (k + 1)) - 1 = i + k /\ i + k <= n
          BY <1>1, <2>2
    <3>2. left[i + (k + 1)] \subseteq left[(i + (k + 1)) - 1]
          BY <3>1, LeftStep
    <3>3. left[i + k] \subseteq left[i]
          BY <3>1
    <3> QED BY <3>1, <3>2, <3>3
  <2> QED BY <1>1, <2>1, <2>2
<1>4. G = Nat
      BY <1>2, <1>3, SetInduction
<1>5. ASSUME NEW j \in i .. n
      PROVE  left[j] \subseteq left[i]
  <2>1. j - i \in Nat /\ i + (j - i) = j /\ j <= n
        BY <1>1
  <2>2. j - i \in G
        BY <1>4, <2>1
  <2> QED BY <2>1, <2>2
<1> QED BY <1>5

(***************************************************************************)
(* One lemma per action.                                                   *)
(***************************************************************************)
LEMMA CreateKeeps ==
    ASSUME FlagsInv, NEW f \in Flags, NEW a \in {"Single", "Multi"}, NEW b \in SUBSET Bits,
           CreateEventFlag(f, a, b)
    PROVE  FlagsInv'
<1> USE DEF CreateEventFlag, FlagsInv
<1>1. FlagsTypeOK'
      BY DEF FlagsTypeOK
<1>2. waiters[f] = <<>> /\ Len(waiters[f]) <= 1
      BY DEF WaitersExact
<1>3. WaitersExact'
      BY <1>2 DEF WaitersExact, Waiting, FlagsTypeOK
<1>4. ASSUME NEW t \in Threads, Waiting(t)
      PROVE  wait[t].flag # f /\ wait[t].flag \in Flags
  <2>1. wait[t].flag \in Flags
        BY <1>4, WaitTyped
  <2>2. 1 .. Len(waiters[f]) = {} /\ waiters[f] \in Seq(Threads)
        BY <1>2 DEF FlagsTypeOK
  <2>3. Range(waiters[f]) = {}
        BY <2>2, RangeOfQueue
  <2> QED BY <1>4, <2>1, <2>3 DEF WaitersExact
<1>5. NoneSatisfied'
      BY <1>4 DEF NoneSatisfied, Waiting, FlagsTypeOK
<1> QED BY <1>1, <1>3, <1>5

LEMMA DeleteKeeps ==
    ASSUME FlagsInv, NEW f \in Flags, DeleteEventFlag(f)
    PROVE  FlagsInv'
<1> DEFINE S == Range(waiters[f])
<1> USE DEF DeleteEventFlag, FlagsInv
<1>1. waiters[f] \in Seq(Threads) /\ S \subseteq Threads
      BY RangeOfQueue DEF FlagsTypeOK
<1>2. FlagsTypeOK'
  <2>1. Ended("Deleted", {}) \in Outcomes
        BY DEF Ended, Outcomes
  <2> QED BY <1>1, <2>1 DEF FlagsTypeOK, Release
<1>3. S = WaitersOf(f)
      BY DEF WaitersExact, WaitersOf
<1>4. \A t \in Threads : Waiting(t)' <=> Waiting(t) /\ t \notin S
      BY DEF Release, Waiting, NoWait, FlagsTypeOK
<1>5. \A t \in Threads : Waiting(t)' => wait'[t] = wait[t] /\ wait[t].flag \in Flags \ {f}
  <2>1. \A t \in Threads : Waiting(t) => wait[t].flag \in Flags
        BY WaitTyped
  <2> QED BY <1>3, <1>4, <2>1 DEF Release, WaitersOf
<1>6. ASSUME NEW g \in Flags
      PROVE  /\ Range(waiters'[g]) = {t \in Threads : Waiting(t)' /\ wait'[t].flag = g}
             /\ IsInjective(waiters'[g])
             /\ attr'[g] = "Absent" => waiters'[g] = <<>>
             /\ attr'[g] = "Single" => Len(waiters'[g]) <= 1
  <2>1. CASE g = f
    <3>1. waiters'[g] = <<>>
          BY <2>1 DEF FlagsTypeOK
    <3>2. Len(waiters'[g]) <= 1
          BY <3>1
    <3>3. Range(waiters'[g]) = {} /\ IsInjective(waiters'[g])
          BY <3>1, EmptyQueue
    <3>4. {t \in Threads : Waiting(t)' /\ wait'[t].flag = g} = {}
          BY <1>5, <2>1
    <3> QED BY <3>1, <3>2, <3>3, <3>4
  <2>2. CASE g # f
    <3>1. waiters'[g] = waiters[g] /\ attr'[g] = attr[g]
          BY <2>2 DEF FlagsTypeOK
    <3>2. {t \in Threads : Waiting(t)' /\ wait'[t].flag = g} = WaitersOf(g)
      <4>1. \A t \in WaitersOf(g) : t \notin S
            BY <1>3, <2>2 DEF WaitersOf
      <4>2. \A t \in WaitersOf(g) : wait'[t] = wait[t]
            BY <1>4, <1>5, <4>1 DEF WaitersOf
      <4> QED BY <1>4, <1>5, <4>1, <4>2 DEF WaitersOf
    <3> QED BY <3>1, <3>2 DEF WaitersExact, WaitersOf
  <2> QED BY <2>1, <2>2
<1>7. WaitersExact'
      BY <1>6 DEF WaitersExact
<1>8. NoneSatisfied'
  <2>1. \A g \in Flags \ {f} : bits'[g] = bits[g]
        BY DEF FlagsTypeOK
  <2> QED BY <1>4, <1>5, <2>1 DEF NoneSatisfied
<1> QED BY <1>2, <1>7, <1>8

LEMMA ClearKeeps ==
    ASSUME FlagsInv, NEW f \in Flags, NEW mask \in SUBSET Bits, ClearEventFlag(f, mask)
    PROVE  FlagsInv'
<1> USE DEF ClearEventFlag, FlagsInv
<1>1. FlagsTypeOK'
      BY DEF FlagsTypeOK
<1>2. WaitersExact'
      BY DEF WaitersExact, Waiting
<1>3. \A g \in Flags : bits'[g] \subseteq bits[g]
      BY DEF FlagsTypeOK
<1>4. NoneSatisfied'
      BY <1>3, WaitTyped, ConditionMonotone DEF NoneSatisfied, Waiting
<1> QED BY <1>1, <1>2, <1>4

LEMMA TakeFlagKeeps ==
    ASSUME FlagsInv, NEW f \in Flags, NEW b, NEW mode, TakeEventFlag(f, b, mode)
    PROVE  FlagsInv'
<1> USE DEF TakeEventFlag, FlagsInv
<1>1. \A g \in Flags : bits'[g] \subseteq bits[g]
      BY RemainingShrinks DEF FlagsTypeOK
<1>2. bits' \in [Flags -> SUBSET Bits]
      BY RemainingShrinks DEF FlagsTypeOK
<1>3. FlagsTypeOK'
      BY <1>2 DEF FlagsTypeOK
<1>4. WaitersExact'
      BY DEF WaitersExact, Waiting
<1>5. NoneSatisfied'
      BY <1>1, WaitTyped, ConditionMonotone DEF NoneSatisfied, Waiting
<1> QED BY <1>3, <1>4, <1>5

LEMMA WaitKeeps ==
    ASSUME FlagsInv, NEW t \in Threads, NEW f \in Flags, NEW b \in Patterns, NEW mode \in Modes,
           WaitEventFlag(t, f, b, mode)
    PROVE  FlagsInv'
<1> DEFINE w == [flag |-> f, bits |-> b, mode |-> mode]
<1> USE DEF WaitEventFlag, FlagsInv
<1>1. w \in Waits /\ w.flag = f /\ f # NoFlag
      BY FlagsAssumption DEF Waits, Patterns, NoFlag
<1>2. wait'[t] = w /\ \A u \in Threads \ {t} : wait'[u] = wait[u]
      BY DEF FlagsTypeOK
<1>3. \A u \in Threads : Waiting(u)' <=> Waiting(u) \/ u = t
      BY <1>1, <1>2 DEF Waiting
<1>4. ~Waiting(t)
      OBVIOUS
<1>5. waiters[f] \in Seq(Threads) /\ Range(waiters[f]) = WaitersOf(f) /\ IsInjective(waiters[f])
      BY DEF FlagsTypeOK, WaitersExact, WaitersOf
<1>6. t \notin Range(waiters[f])
      BY <1>4, <1>5 DEF WaitersOf
<1>7. /\ Append(waiters[f], t) \in Seq(Threads)
      /\ Range(Append(waiters[f], t)) = WaitersOf(f) \cup {t}
      /\ IsInjective(Append(waiters[f], t))
      BY <1>5, <1>6, AppendFacts
<1>8. FlagsTypeOK'
  <2>1. Ended("None", {}) \in Outcomes
        BY DEF Ended, Outcomes
  <2>2. outcome' \in [Threads -> Outcomes]
        BY <2>1 DEF FlagsTypeOK
  <2>3. wait' \in [Threads -> Waits \cup {NoWait}]
        BY <1>1 DEF FlagsTypeOK
  <2>4. waiters' \in [Flags -> Seq(Threads)]
        BY <1>7 DEF FlagsTypeOK
  <2> QED BY <2>2, <2>3, <2>4 DEF FlagsTypeOK
<1>9. ASSUME NEW g \in Flags
      PROVE  /\ Range(waiters'[g]) = {u \in Threads : Waiting(u)' /\ wait'[u].flag = g}
             /\ IsInjective(waiters'[g])
             /\ attr'[g] = "Absent" => waiters'[g] = <<>>
             /\ attr'[g] = "Single" => Len(waiters'[g]) <= 1
  <2>1. CASE g = f
    <3>1. waiters'[g] = Append(waiters[f], t)
          BY <2>1 DEF FlagsTypeOK
    <3>2. {u \in Threads : Waiting(u)' /\ wait'[u].flag = g} = WaitersOf(f) \cup {t}
          BY <1>1, <1>2, <1>3, <2>1 DEF WaitersOf
    <3>3. attr'[g] # "Absent"
          BY <2>1 DEF Admits
    <3>4. attr'[g] = "Single" => Len(waiters'[g]) <= 1
      <4>1. SUFFICES ASSUME waiters[f] = <<>>
                     PROVE  Len(Append(waiters[f], t)) <= 1
            BY <2>1, <3>1 DEF Admits
      <4> QED BY <4>1
    <3> QED BY <1>7, <3>1, <3>2, <3>3, <3>4
  <2>2. CASE g # f
    <3>1. waiters'[g] = waiters[g] /\ attr'[g] = attr[g]
          BY <2>2 DEF FlagsTypeOK
    <3>2. {u \in Threads : Waiting(u)' /\ wait'[u].flag = g} = WaitersOf(g)
      <4>1. \A u \in Threads : Waiting(u)' /\ wait'[u].flag = g <=> Waiting(u) /\ wait[u].flag = g
            BY <1>1, <1>2, <1>3, <1>4, <2>2
      <4> QED BY <4>1 DEF WaitersOf
    <3> QED BY <3>1, <3>2 DEF WaitersExact, WaitersOf
  <2> QED BY <2>1, <2>2
<1>10. WaitersExact'
       BY <1>9 DEF WaitersExact
<1>11. ~Condition(bits[f], w)
       OBVIOUS
<1>12. NoneSatisfied'
       BY <1>1, <1>2, <1>3, <1>11 DEF NoneSatisfied
<1> QED BY <1>8, <1>10, <1>12

LEMMA LeaveKeeps ==
    ASSUME FlagsInv, NEW t \in Threads, LeaveEventFlag(t)
    PROVE  FlagsInv'
<1> DEFINE f == wait[t].flag
           r == RemoveFirst(waiters[f], t)
<1> USE DEF LeaveEventFlag
<1>1. f \in Flags /\ Waiting(t)
      BY WaitTyped DEF FlagsInv
<1>2. waiters[f] \in Seq(Threads) /\ IsInjective(waiters[f])
      BY <1>1 DEF FlagsInv, FlagsTypeOK, WaitersExact
<1>3. r \in Seq(Threads) /\ IsInjective(r) /\ Range(r) = Range(waiters[f]) \ {t}
      BY <1>2, RemoveFirstFacts
<1>4. waiters' = [waiters EXCEPT ![f] = r]
      OBVIOUS
<1>5. /\ wait' = [u \in Threads |-> IF u \in {t} THEN NoWait ELSE wait[u]]
      /\ attr' = attr /\ bits' = bits
      BY DEF Release
<1>6. /\ WaitersExact'
      /\ waiters' \in [Flags -> Seq(Threads)]
      /\ wait' \in [Threads -> Waits \cup {NoWait}]
  <2>1. {t} \in SUBSET Threads /\ \A u \in {t} : Waiting(u) /\ wait[u].flag = f
        BY <1>1
  <2> HIDE DEF f, r
  <2> QED BY <1>1, <1>3, <1>4, <1>5, <2>1, Shortened
<1>7. outcome' \in [Threads -> Outcomes]
  <2>1. Ended("Released", {}) \in Outcomes
        BY DEF Ended, Outcomes
  <2> QED BY <2>1 DEF Release, FlagsInv, FlagsTypeOK
<1>8. FlagsTypeOK'
      BY <1>5, <1>6, <1>7 DEF FlagsInv, FlagsTypeOK
<1>9. NoneSatisfied'
      BY <1>5 DEF FlagsInv, NoneSatisfied, Waiting, NoWait
<1> QED BY <1>6, <1>8, <1>9 DEF FlagsInv

LEMMA SetKeeps ==
    ASSUME FlagsInv, NEW f \in Flags, NEW b \in SUBSET Bits, SetEventFlag(f, b)
    PROVE  FlagsInv'
<1> DEFINE n == Len(waiters[f])
           Satisfied(left) == {i \in 1 .. n : Condition(left[i - 1], wait[Visited(f, i)])}
           Out(left) == {Visited(f, i) : i \in Satisfied(left)}
           Turn(left, t) == CHOOSE i \in Satisfied(left) : Visited(f, i) = t
<1>1. PICK left \in Left(f, bits[f] \cup b) :
         /\ bits' = [bits EXCEPT ![f] = left[n]]
         /\ waiters' = [waiters EXCEPT ![f] = Among(@, Threads \ Out(left))]
         /\ Release(Out(left),
                    [t \in Out(left) |-> Ended("Ok", left[Turn(left, t) - 1])])
      BY DEF SetEventFlag
<1> DEFINE S == Out(left)
           r == Among(waiters[f], Threads \ S)
<1>2. waiters[f] \in Seq(Threads) /\ Range(waiters[f]) = WaitersOf(f) /\ IsInjective(waiters[f])
      BY DEF FlagsInv, FlagsTypeOK, WaitersExact, WaitersOf
<1>3. bits[f] \cup b \in SUBSET Bits
      BY DEF FlagsInv, FlagsTypeOK
<1>4. n \in Nat /\ left \in [0 .. n -> SUBSET Bits] /\ \A i \in 1 .. n : waiters[f][i] \in Threads
      BY <1>3, LeftTyped DEF FlagsInv
<1>5. \A i \in 1 .. n : Waiting(waiters[f][i]) /\ wait[waiters[f][i]].flag = f
      BY <1>2, RangeOfQueue DEF WaitersOf
<1>6. S \in SUBSET Threads /\ \A t \in S : Waiting(t) /\ wait[t].flag = f
      BY <1>4, <1>5 DEF Visited
<1>7. r \in Seq(Threads) /\ IsInjective(r) /\ Range(r) = Range(waiters[f]) \ S
  <2>1. Range(waiters[f]) \cap (Threads \ S) = Range(waiters[f]) \ S
        BY <1>2, RangeOfQueue
  <2> HIDE DEF S
  <2> QED BY <1>2, <2>1, AmongFacts
<1>8. /\ waiters' = [waiters EXCEPT ![f] = r] /\ attr' = attr
      /\ wait' = [t \in Threads |-> IF t \in S THEN NoWait ELSE wait[t]]
      BY <1>1 DEF SetEventFlag, Release
<1>9. /\ WaitersExact'
      /\ waiters' \in [Flags -> Seq(Threads)]
      /\ wait' \in [Threads -> Waits \cup {NoWait}]
  <2> HIDE DEF S, r
  <2> QED BY <1>6, <1>7, <1>8, Shortened
<1>10. outcome' \in [Threads -> Outcomes]
  <2>1. ASSUME NEW t \in S
        PROVE  Ended("Ok", left[Turn(left, t) - 1]) \in Outcomes
    <3>1. \E i \in Satisfied(left) : Visited(f, i) = t
          OBVIOUS
    <3>2. Turn(left, t) \in 1 .. n
          BY <3>1
    <3>3. Turn(left, t) - 1 \in 0 .. n
          BY <1>4, <3>2
    <3>4. left[Turn(left, t) - 1] \in SUBSET Bits
          BY <1>4, <3>3
    <3> HIDE DEF Turn
    <3> QED BY <3>4 DEF Ended, Outcomes
  <2>2. outcome' = [t \in Threads |->
                      IF t \in S THEN [u \in S |-> Ended("Ok", left[Turn(left, u) - 1])][t]
                                ELSE outcome[t]]
        BY <1>1 DEF Release
  <2> HIDE DEF S, Turn
  <2> QED BY <2>1, <2>2 DEF FlagsInv, FlagsTypeOK
<1>11. left[n] \in SUBSET Bits
       BY <1>4
<1>12. FlagsTypeOK'
       BY <1>1, <1>8, <1>9, <1>10, <1>11 DEF FlagsInv, FlagsTypeOK
<1>13. ASSUME NEW t \in Threads, Waiting(t)'
       PROVE  ~Condition(bits'[wait'[t].flag], wait'[t])
  <2>1. t \notin S /\ wait'[t] = wait[t] /\ Waiting(t)
        BY <1>8, <1>13 DEF Waiting, NoWait
  <2>2. wait[t].flag \in Flags
        BY <2>1, WaitTyped DEF FlagsInv
  <2>3. CASE wait[t].flag = f
    <3>1. PICK i \in 1 .. n : waiters[f][i] = t
          BY <1>2, <2>1, <2>3, RangeOfQueue DEF WaitersOf
    <3>2. ~Condition(left[i - 1], wait[t])
          BY <2>1, <3>1 DEF Visited
    <3>3. i - 1 \in 0 .. n /\ n \in (i - 1) .. n
          BY <1>4
    <3>4. left[n] \subseteq left[i - 1]
          BY <1>3, <3>3, LeftShrinks DEF FlagsInv
    <3>5. ~Condition(left[n], wait[t])
          BY <3>2, <3>4, ConditionMonotone
    <3>6. bits'[f] = left[n]
          BY <1>1 DEF FlagsInv, FlagsTypeOK
    <3> QED BY <2>1, <2>3, <3>5, <3>6
  <2>4. CASE wait[t].flag # f
    <3>1. bits'[wait[t].flag] = bits[wait[t].flag]
          BY <1>1, <2>2, <2>4 DEF FlagsInv, FlagsTypeOK
    <3> QED BY <2>1, <3>1 DEF FlagsInv, NoneSatisfied
  <2> QED BY <2>3, <2>4
<1>14. NoneSatisfied'
       BY <1>13 DEF NoneSatisfied
<1> QED BY <1>9, <1>12, <1>14 DEF FlagsInv

(***************************************************************************)
(* The theorems.                                                           *)
(***************************************************************************)
LEMMA FlagsInitHolds == FlagsInit => FlagsInv
<1> SUFFICES ASSUME FlagsInit
             PROVE  FlagsInv
    OBVIOUS
<1>1. FlagsTypeOK
      BY DEF FlagsInit, FlagsTypeOK, Outcomes, Ended
<1>2. \A t \in Threads : ~Waiting(t)
      BY DEF FlagsInit, Waiting, NoWait
<1>3. WaitersExact
      BY <1>2, EmptyQueue DEF FlagsInit, WaitersExact
<1> QED BY <1>1, <1>2, <1>3 DEF FlagsInv, NoneSatisfied

LEMMA FlagsStepKeeps == FlagsInv /\ [FlagsNext]_flagsVars => FlagsInv'
<1> SUFFICES ASSUME FlagsInv, [FlagsNext]_flagsVars
             PROVE  FlagsInv'
    OBVIOUS
<1>1. ASSUME NEW f \in Flags, FlagCall(f)
      PROVE  FlagsInv'
  <2>1. CASE \E a \in {"Single", "Multi"}, b \in SUBSET Bits : CreateEventFlag(f, a, b)
        BY <2>1, CreateKeeps
  <2>2. CASE DeleteEventFlag(f)
        BY <2>2, DeleteKeeps
  <2>3. CASE \E b \in SUBSET Bits : SetEventFlag(f, b)
        BY <2>3, SetKeeps
  <2>4. CASE \E b \in SUBSET Bits : ClearEventFlag(f, b)
        BY <2>4, ClearKeeps
  <2>5. CASE \E b \in Patterns, mode \in Modes : TakeEventFlag(f, b, mode)
        BY <2>5, TakeFlagKeeps
  <2>6. CASE \E b \in Patterns, mode \in Modes, t \in Threads : WaitEventFlag(t, f, b, mode)
        BY <2>6, WaitKeeps
  <2> QED BY <1>1, <2>1, <2>2, <2>3, <2>4, <2>5, <2>6 DEF FlagCall
<1>2. ASSUME NEW t \in Threads, LeaveEventFlag(t)
      PROVE  FlagsInv'
      BY <1>2, LeaveKeeps
<1>3. CASE UNCHANGED flagsVars
      BY <1>3 DEF flagsVars, FlagsInv, FlagsTypeOK, WaitersExact, NoneSatisfied, Waiting
<1> QED BY <1>1, <1>2, <1>3 DEF FlagsNext

LEMMA FlagsInvariant == FlagsSpec => []FlagsInv
BY FlagsInitHolds, FlagsStepKeeps, PTL DEF FlagsSpec

\* Flags, waits and outcomes stay in their domains (createEventFlag to
\* finishEventWaiters, and the checks of the system calls).
THEOREM FlagTypes == FlagsSpec => []FlagsTypeOK
<1>1. FlagsInv => FlagsTypeOK
      BY DEF FlagsInv
<1> QED BY <1>1, FlagsInvariant, PTL

\* The queue of every flag lists exactly its waiters, whichever way they come
\* to it and leave it (waitEventFlag, finishEventWaiters, removeFromWaitObject).
THEOREM QueuesExact == FlagsSpec => []WaitersExact
<1>1. FlagsInv => WaitersExact
      BY DEF FlagsInv
<1> QED BY <1>1, FlagsInvariant, PTL

\* No wake-up is lost by finishEventWaiters, in spite of the bits that its
\* loop clears as it goes.
THEOREM NoLostFlag == FlagsSpec => []NoneSatisfied
<1>1. FlagsInv => NoneSatisfied
      BY DEF FlagsInv
<1> QED BY <1>1, FlagsInvariant, PTL

(***************************************************************************)
(* Who is served by a step, and with which bits.                           *)
(***************************************************************************)
\* SetEventFlag serves the waiters whose condition holds when the loop comes
\* to them, and gives each the bits that are left then.
LEMMA SetServes ==
    ASSUME FlagsInv, NEW f \in Flags, NEW b \in SUBSET Bits, SetEventFlag(f, b)
    PROVE  \E left \in Left(f, bits[f] \cup b) :
              /\ \A t \in Threads : Served(t) <=>
                    \E i \in 1 .. Len(waiters[f]) :
                        waiters[f][i] = t /\ Condition(left[i - 1], wait[t])
              /\ \A i \in 1 .. Len(waiters[f]) :
                    Served(waiters[f][i]) => outcome'[waiters[f][i]].seen = left[i - 1]
<1> DEFINE n == Len(waiters[f])
           Satisfied(left) == {i \in 1 .. n : Condition(left[i - 1], wait[Visited(f, i)])}
           Out(left) == {Visited(f, i) : i \in Satisfied(left)}
           Turn(left, t) == CHOOSE i \in Satisfied(left) : Visited(f, i) = t
<1>1. PICK left \in Left(f, bits[f] \cup b) :
         Release(Out(left), [t \in Out(left) |-> Ended("Ok", left[Turn(left, t) - 1])])
      BY DEF SetEventFlag
<1> DEFINE S == Out(left)
<1>2. waiters[f] \in Seq(Threads) /\ Range(waiters[f]) = WaitersOf(f) /\ IsInjective(waiters[f])
      BY DEF FlagsInv, FlagsTypeOK, WaitersExact, WaitersOf
<1>3. \A i, j \in 1 .. n : waiters[f][i] = waiters[f][j] => i = j
      BY <1>2, RangeOfQueue
<1>4. \A t \in S : Waiting(t) /\ t \in Threads
      BY <1>2, RangeOfQueue DEF WaitersOf, Visited
<1>5. \A t \in Threads : t \in S => ~Waiting(t)' /\ outcome'[t] = Ended("Ok", left[Turn(left, t) - 1])
  <2> HIDE DEF Turn
  <2> QED BY <1>1 DEF Release, Waiting, NoWait
<1>6. \A t \in Threads : t \notin S => (Waiting(t)' <=> Waiting(t))
      BY <1>1 DEF Release, Waiting
<1>7. \A t \in Threads : Served(t) <=> t \in S
  <2>1. ASSUME NEW t \in Threads, t \in S
        PROVE  Served(t)
    <3>1. outcome'[t] = Ended("Ok", left[Turn(left, t) - 1]) /\ ~Waiting(t)'
          BY <1>5, <2>1
    <3>2. outcome'[t].code = "Ok"
      <4> HIDE DEF Turn
      <4> QED BY <3>1 DEF Ended
    <3>3. Waiting(t)
          BY <1>4, <2>1
    <3> QED BY <3>1, <3>2, <3>3 DEF Served
  <2>2. ASSUME NEW t \in Threads, t \notin S
        PROVE  ~Served(t)
    <3>1. Waiting(t)' <=> Waiting(t)
          BY <1>6, <2>2
    <3> QED BY <3>1 DEF Served
  <2> HIDE DEF S
  <2> QED BY <2>1, <2>2
<1>8. \A t : t \in S <=> \E i \in 1 .. n : waiters[f][i] = t /\ Condition(left[i - 1], wait[t])
      BY DEF Visited
<1>9. ASSUME NEW i \in 1 .. n, waiters[f][i] \in S
      PROVE  outcome'[waiters[f][i]].seen = left[i - 1]
  <2>1. Turn(left, waiters[f][i]) \in 1 .. n /\ waiters[f][Turn(left, waiters[f][i])] = waiters[f][i]
        BY <1>9 DEF Visited
  <2>2. Turn(left, waiters[f][i]) = i
    <3> HIDE DEF Turn
    <3> QED BY <1>3, <2>1
  <2>3. outcome'[waiters[f][i]] = Ended("Ok", left[i - 1])
    <3> HIDE DEF Turn, S
    <3> QED BY <1>4, <1>5, <1>9, <2>2
  <2> QED BY <2>3 DEF Ended
<1>10. \A i \in 1 .. n : waiters[f][i] \in Threads
       BY <1>2
<1> HIDE DEF S
<1> QED BY <1>7, <1>8, <1>9, <1>10

\* No other call ends a wait with KE_OK.
LEMMA OnlySetServes ==
    ASSUME FlagsInv, [FlagsNext]_flagsVars, NEW t \in Threads, Served(t)
    PROVE  \E f \in Flags, b \in SUBSET Bits : SetEventFlag(f, b)
<1> USE DEF Served, Waiting
<1>1. ASSUME NEW f \in Flags, DeleteEventFlag(f)
      PROVE  FALSE
  <2>1. IF t \in Range(waiters[f]) THEN outcome'[t] = Ended("Deleted", {}) ELSE wait'[t] = wait[t]
        BY <1>1 DEF DeleteEventFlag, Release
  <2> QED BY <2>1 DEF Ended
<1>2. ASSUME NEW u \in Threads, LeaveEventFlag(u)
      PROVE  FALSE
  <2>1. IF t = u THEN outcome'[t] = Ended("Released", {}) ELSE wait'[t] = wait[t]
        BY <1>2 DEF LeaveEventFlag, Release
  <2> QED BY <2>1 DEF Ended
<1>3. ASSUME NEW f \in Flags, NEW u \in Threads, NEW b \in Patterns, NEW mode \in Modes,
             WaitEventFlag(u, f, b, mode)
      PROVE  FALSE
  <2>1. wait'[t] = IF t = u THEN [flag |-> f, bits |-> b, mode |-> mode] ELSE wait[t]
        BY <1>3 DEF WaitEventFlag, FlagsInv, FlagsTypeOK
  <2>2. f # NoFlag
        BY FlagsAssumption DEF NoFlag
  <2> QED BY <2>1, <2>2
<1>4. CASE UNCHANGED flagsVars
      BY <1>4 DEF flagsVars
<1>5. \A f \in Flags : \A a, b : ~CreateEventFlag(f, a, b)
      BY DEF CreateEventFlag
<1>6. \A f \in Flags : \A b : ~ClearEventFlag(f, b)
      BY DEF ClearEventFlag
<1>7. \A f \in Flags : \A b, mode : ~TakeEventFlag(f, b, mode)
      BY DEF TakeEventFlag
<1>8. CASE \E f \in Flags : FlagCall(f)
      BY <1>1, <1>3, <1>5, <1>6, <1>7, <1>8 DEF FlagCall
<1> QED BY <1>2, <1>4, <1>8 DEF FlagsNext

\* Two threads are in the same queue, and in one queue only.
LEMMA QueueOfAhead ==
    ASSUME FlagsInv, NEW t \in Threads, NEW u \in Threads, Ahead(t, u), NEW f \in Flags,
           NEW k \in 1 .. Len(waiters[f]), waiters[f][k] = u
    PROVE  \E i, j \in 1 .. Len(waiters[f]) : i < j /\ waiters[f][i] = t /\ waiters[f][j] = u
<1>1. PICK g \in Flags : \E i, j \in 1 .. Len(waiters[g]) :
         i < j /\ waiters[g][i] = t /\ waiters[g][j] = u
      BY DEF Ahead
<1>2. waiters[g] \in Seq(Threads) /\ waiters[f] \in Seq(Threads)
      BY DEF FlagsInv, FlagsTypeOK
<1>3. u \in Range(waiters[f]) /\ u \in Range(waiters[g])
      BY <1>1, <1>2, RangeOfQueue
<1>4. f = g
      BY <1>3 DEF FlagsInv, WaitersExact
<1> QED BY <1>1, <1>4

LEMMA StepInTurn == FlagsInv /\ [FlagsNext]_flagsVars => ServedInTurn
<1> SUFFICES ASSUME FlagsInv, [FlagsNext]_flagsVars, NEW t \in Threads, NEW u \in Threads,
                    Ahead(t, u), Served(u),
                    \A b \in SUBSET Bits : Condition(b, wait[u]) => Condition(b, wait[t])
             PROVE  Served(t)
    BY DEF ServedInTurn
<1>1. PICK f \in Flags, b \in SUBSET Bits : SetEventFlag(f, b)
      BY OnlySetServes
<1>2. PICK left \in Left(f, bits[f] \cup b) :
         \A x \in Threads : Served(x) <=>
             \E k \in 1 .. Len(waiters[f]) : waiters[f][k] = x /\ Condition(left[k - 1], wait[x])
      BY <1>1, SetServes
<1>3. bits[f] \cup b \in SUBSET Bits /\ FlagsTypeOK
      BY DEF FlagsInv, FlagsTypeOK
<1>4. Len(waiters[f]) \in Nat /\ left \in [0 .. Len(waiters[f]) -> SUBSET Bits]
      BY <1>3, LeftTyped
<1>5. PICK i, j \in 1 .. Len(waiters[f]) : i < j /\ waiters[f][i] = t /\ waiters[f][j] = u
      BY <1>2, QueueOfAhead
<1>6. Condition(left[j - 1], wait[u])
  <2>1. waiters[f] \in Seq(Threads) /\ IsInjective(waiters[f])
        BY DEF FlagsInv, FlagsTypeOK, WaitersExact
  <2>2. \A k \in 1 .. Len(waiters[f]) : waiters[f][k] = waiters[f][j] => k = j
        BY <2>1, RangeOfQueue
  <2> QED BY <1>2, <1>5, <2>2
<1>7. i - 1 \in 0 .. Len(waiters[f]) /\ j - 1 \in (i - 1) .. Len(waiters[f])
      /\ j - 1 \in 0 .. Len(waiters[f])
      BY <1>4, <1>5
<1>8. left[j - 1] \subseteq left[i - 1]
      BY <1>3, <1>7, LeftShrinks
<1>9. Condition(left[j - 1], wait[t])
      BY <1>4, <1>6, <1>7
<1>10. Condition(left[i - 1], wait[t])
       BY <1>8, <1>9, ConditionMonotone
<1> QED BY <1>2, <1>5, <1>10

LEMMA StepGivesOnce == FlagsInv /\ [FlagsNext]_flagsVars => GivenOnce
<1> SUFFICES ASSUME FlagsInv, [FlagsNext]_flagsVars, NEW t \in Threads, NEW u \in Threads,
                    Ahead(t, u), Served(t), Served(u)
             PROVE  outcome'[u].seen \cap Consumed(t) = {}
    BY DEF GivenOnce
<1>1. PICK f \in Flags, b \in SUBSET Bits : SetEventFlag(f, b)
      BY OnlySetServes
<1>2. PICK left \in Left(f, bits[f] \cup b) :
         /\ \A x \in Threads : Served(x) <=>
               \E k \in 1 .. Len(waiters[f]) : waiters[f][k] = x /\ Condition(left[k - 1], wait[x])
         /\ \A k \in 1 .. Len(waiters[f]) :
               Served(waiters[f][k]) => outcome'[waiters[f][k]].seen = left[k - 1]
      BY <1>1, SetServes
<1>3. bits[f] \cup b \in SUBSET Bits /\ FlagsTypeOK
      BY DEF FlagsInv, FlagsTypeOK
<1>4. Len(waiters[f]) \in Nat /\ left \in [0 .. Len(waiters[f]) -> SUBSET Bits]
      BY <1>3, LeftTyped
<1>5. PICK i, j \in 1 .. Len(waiters[f]) : i < j /\ waiters[f][i] = t /\ waiters[f][j] = u
      BY <1>2, QueueOfAhead
<1>6. Condition(left[i - 1], wait[t])
  <2>1. waiters[f] \in Seq(Threads) /\ IsInjective(waiters[f])
        BY DEF FlagsInv, FlagsTypeOK, WaitersExact
  <2>2. \A k \in 1 .. Len(waiters[f]) : waiters[f][k] = waiters[f][i] => k = i
        BY <2>1, RangeOfQueue
  <2> QED BY <1>2, <1>5, <2>2
<1>7. left[i] = Remaining(left[i - 1], wait[t])
      BY <1>5, <1>6 DEF Left, Visited
<1>8. i \in 0 .. Len(waiters[f]) /\ j - 1 \in i .. Len(waiters[f]) /\ i - 1 \in 0 .. Len(waiters[f])
      BY <1>4, <1>5
<1>9. left[j - 1] \subseteq left[i]
      BY <1>3, <1>8, LeftShrinks
<1>10. outcome'[u].seen = left[j - 1]
       BY <1>2, <1>5
<1>11. left[i] \cap Consumed(t) = {}
       BY <1>7 DEF Remaining, Consumed
<1> QED BY <1>9, <1>10, <1>11

\* finishEventWaiters serves in the order of the queue: nobody is overtaken by
\* a thread whose request is at least as hard to meet.
THEOREM Turns == FlagsSpec => NoOvertaking
<1>1. FlagsInv /\ [FlagsNext]_flagsVars => [ServedInTurn]_flagsVars
      BY StepInTurn
<1> QED BY <1>1, FlagsInvariant, PTL DEF FlagsSpec, NoOvertaking

\* Bits that WEF_CLEAR or WEF_CLEAR_ALL consumes are seen by no later waiter.
THEOREM Consumption == FlagsSpec => ConsumedOnce
<1>1. FlagsInv /\ [FlagsNext]_flagsVars => [GivenOnce]_flagsVars
      BY StepGivesOnce
<1> QED BY <1>1, FlagsInvariant, PTL DEF FlagsSpec, ConsumedOnce
===============================================================================
