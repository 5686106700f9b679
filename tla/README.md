# Formal models of ReInPS

ReInPS recompiles PlayStation 2 programs to C++ and runs them on a runtime that
stands in for the console's kernel and hardware. This directory models the
parts of that runtime whose correctness depends on order: what threads, interrupt
handlers, host threads, deadlines, transfers and packets may do to each other; the
heap it keeps for the guest; the playing of a film; and the control flow of the code the recompiler emits. The
models are TLA+ modules, checked by TLC on small instances; what matters most is then
proved with TLAPS for every instance.

All paths are relative to the repository; `EeScheduler.cpp` is
`ps2xRuntime/src/lib/Kernel/EeScheduler.cpp`.

## 1. Inventory

| Component | Where | State it keeps | Operations | What makes it correct | Here |
|---|---|---|---|---|---|
| EE scheduler | `EeScheduler.cpp`, `ee_scheduler.h` | thread records, ready queue per priority, current thread, semaphores, event flags, pending invocations, reschedule and slice flags | thread, semaphore and event-flag calls, dispatch loop `run()`, invocation frames | every ready thread is queued exactly once, strict priority, FIFO hand-off, suspensions nest | `EeScheduler`, event flags in `EventFlags`, what frames are for in `GuestCalls` |
| Events and deadlines | `EeScheduler.cpp` 332-400, 1735-2080 | event queue + mutex + condition variable, checkpoint flag, deadlines, cached next deadline, alarms, stop flag | `postEvent`, `requestStop`, `processPendingEvents`, `waitForEvent`, `setAlarm` | no event lost or slept over, VBlanks keep their cadence, stop ends the loop | `EeEvents`; EE timers left out |
| System-call layer | `Kernel/Syscalls/*.cpp` | IRQ handler tables, RPC clients and servers, file table | argument checks, then one scheduler operation; SIF bind, register, call | refuses what the scheduler's assertions exclude; a client is busy exactly during its call | thread, semaphore, event-flag and alarm calls folded into the actions; remote calls and replaced system calls in `GuestCalls` |
| Runtime | `ps2_runtime.cpp` | function table, guest heap, exit handlers, syscall overrides | `dispatchGuestBranch`, `guestMalloc`/`Free`/`Realloc`, `takeEeExitHandlers` | heap blocks tile the heap, a call goes on behind itself, handlers run once | `GuestHeap`, `RecompiledCode`, `GuestCalls` |
| Memory and DMA | `ps2_memory.cpp` | I/O registers, pending transfers, masked PATH3 packets, EE timers | register writes, chain walk, `processPendingTransfers` | each transfer once, tag order, one interrupt per completion | channels to the GIF and VIF1 in `DmaChain`; other channels, timers, loads and stores left out |
| GIF arbiter, GS | `gs/*.cpp` | packet queue, GS registers and memory | `submit`, `drain` | PATH priority, FIFO within a path | arbiter and image count in `GifPaths`; rendering left out |
| VIF1 and VU | `ps2_vif1_interpreter.cpp`, `vu/` | VIF registers, VU memory | VIF codes, micro programs | codes and data told apart, buffers alternate | DIRECT, DIRECTHL, MSKPATH3, MSCAL, BASE, OFFSET in `GifPaths`; UNPACK and arithmetic left out |
| Movie playback | `Kernel/Stubs/MPEG.cpp`, `Kernel/Stubs/CD.cpp` | the drive's stream, one record per MPEG handle (bytes not yet parsed, decoder, pictures, clock), end of stream | `sceCdSt*`, `sceMpeg*` | the pictures shown are the film's, on time, to the last one; nobody waits in vain | `MoviePlayback`; stream callbacks left out |
| Other HLE stubs | `Kernel/Stubs/*.cpp` | memory-card, pad, SIF state | library calls | data conversion | `sceDmaSend` in `DmaChain`; the rest left out |
| IOP subsystem | `ps2xIOP/src` | profiles, services, routes | `selectProfile`, RPC dispatch, plug-ins | answers remote calls | its answers are a choice in `GuestCalls` |
| Recompiler | `ps2xRecomp/src` | per-function control flow | decode, analyse, emit | the emitted code executes the guest's program and can be entered wherever it can be left | `ControlFlowAnalysis`, `RecompiledCode`; decoding and text output left out |
| Analyzer, Studio, platform back ends | `ps2xAnalyzer`, `ps2xStudio`, Android/Vita/debug panel | - | heuristics, GUI, platform I/O | - | left out: nothing to interleave |

**How they interact.** One host thread, the *executor*, runs both the scheduler's
loop and all guest code: a guest function is called from `run()` and returns to it
at a checkpoint, when it ends, or by an exception that a blocking system call
throws. Guest code enters the kernel by system calls. Other host threads (the
window, audio, the debug panel) reach the scheduler only through the event
queue and the stop flag. Deadlines (VBlank, alarms, EE timers) are kept in
EE cycles and paced against the host's clock. Interrupt handlers and callbacks
are *invocations*: frames that the loop stacks on whichever thread is current, or on
a host-owned *dispatcher thread* if none is.

**What is hard.** A call can be made by a thread, by a handler stacked on any thread,
or by a handler that has just taken its own thread off the processor; the
plain and the i-variant of a call differ in when they give up the processor;
events are recomputed against a flag that host threads write without the mutex;
a wake-up of the executor can be a notification, a timeout or spurious. A call of a guest
function from the runtime is a frame and a completion that runs much later, if its
thread lives that long. A function cut short at a safe point is entered again in its middle.
Packets of three paths are counted by VIF1 and the GS independently. A film's end is found by
one thread, in a read, and matters to another that waits for a picture. Each
place is listed under `hazards` in `PROJECT.json` with the properties that cover it.

## 2. Modules

| Module | What it is |
|---|---|
| `KernelLists` | `Among`, the subsequence that the scheduler's wake-up lists and the exit handlers of a thread are |
| `EeScheduler` | threads, ready queues, semaphores, invocations, dispatch loop |
| `SemaphoreClients` | `EeScheduler` with a history of the calls on semaphores, and their contract |
| `FifoSemaphore` | abstract specification: a FIFO counting semaphore with direct hand-off, call by call |
| `EeEvents` | events, deadlines, alarms, checkpoint flag, idle wait, stop |
| `EventFlags` | event flags: bits, waiters with modes, clearing on wake-up |
| `GuestHeap` | the guest's heap and the thread stacks taken from it |
| `GuestCalls` | guest functions the runtime calls: exit handlers, replaced system calls, SIF remote calls |
| `GifPaths` | GIF arbiter, PATH3 mask, VIF1's DIRECT packets and double buffers, the GS's image count |
| `SourceChain` | abstract specification: a DMA channel in source chain mode |
| `DmaChain` | DMA to the GIF and to VIF1, D_STAT, interrupt causes, short cuts |
| `CdStream` | the drive's stream buffer: production per VSync, banks, when a read is to look again |
| `MpegPlayback` | one MPEG handle: demultiplexer, decoder, picture queue, presentation clock |
| `MoviePlayback` | the calls on both, their waits, the end of the stream |
| `GuestCode` | guest programs as words with control flow |
| `EeProgram` | abstract specification: a guest program executed instruction by instruction |
| `ControlFlowAnalysis` | what the recompiler finds: labels, resume points, function table |
| `RecompiledCode` | the emitted functions, `dispatchGuestBranch` and the dispatch loop |
| `KernelListsProofs` | lemmas about sequences used as queues |
| `EeSchedulerProofs` | theorems about `EeScheduler` and `SemaphoreClients`, which implements `FifoSemaphore` |
| `KernelEventsProofs` | theorems about `EventFlags` and `EeEvents` |
| `GuestHeapProofs` | theorems about `GuestHeap` |
| `LibraryCallsProofs` | theorems about `GuestCalls` and `MoviePlayback` |
| `GifPathsProofs` | theorems about `GifPaths` |
| `DmaChainProofs` | theorems about `DmaChain`, and that its channels implement `SourceChain` |
| `RecompiledCodeProofs` | theorems about `RecompiledCode`, and that it implements `EeProgram` |
| `MC...` | instances for TLC |

### EeScheduler

The variables are the fields of `GuestThread` and `EeScheduler`, one function per field
(`status`, `prio`, `suspendCount`, `wakeupCount`, `wait`, `frames`, `ready` for
`m_readyQueues`, `cur` for `m_currentThreadId`, ...), with `"Absent"` for an id
without a record. `phase` and `exec` are the executor's program counter: inside guest
code on behalf of thread `exec`, or in one of three places of the loop.
One action is one system call or one turn of a part of the loop:

- A system call runs without interruption on the executor, from its checks to
  `transferIfRequested` at its end; it is one action. `Return` is that end: an i-call,
  or any call inside an interrupt handler, goes on; any other call gives up the
  processor if a preemption is requested. The checks of the system-call layer are its
  guard. A refused call changes no object but still ends in
  `transferIfRequested` (`RefusedCall`).
- `makeReady` on one or several threads is `StatusAfter`, `WaitAfter`, `ReadyAfter`,
  `ReschedAfter`: several are made ready at once by a semaphore's deletion and by a VBlank.
- `Retire` is `makeDormant`; `Unlisted` is `removeFromWaitObject`; `Unqueued` is
  `removeReady`; `Outranks` the condition of `requestPreemptionIfHigher`.
- `processPendingEvents` runs at the top of the loop and after guest code
  (phases "events", "leaving"): any number of `VBlank` and `OtherEvent`
  steps, then `ApplyPendingPreemption`.
- `SelectReady`, `AcquireDispatcher`, `Idle`, `PopFrame`, `ThreadReturns`,
  `PushInvocation`, `MissingFunction`, `DispatchCheckpoint` and `EnterGuest` are the branches of
  the loop body in the order of the code.

Time is abstract here: at each checkpoint an event may be due and the slice may be
used up. Register contents, return values and thread entry points are data.
Ids are a small set; only positive ids can be named by the guest. A guest
function that returns with a pc is `GuestCheckpoint`; with pc 0 it is `GuestReturns`.

`SemaphoreClients` adds one variable, `call`: which call on a semaphore the last step was, or that it
released or terminated a thread. It restricts nothing (every step of `EeScheduler` is a step
of it) and makes the calls part of the contract: `FifoSemaphore` has an action for each of them, and
any other step must leave the semaphores, their queues and the sets of blocked threads alone. A
signal that does nothing, or goes to another than the longest waiter, or takes a thread off the queue without
making it ready, is none of its steps. Refused calls are no calls in this sense.

A handler that suspends its own thread, or an i-rotation of the caller's own priority,
goes on with no current thread. `EeScheduler` lets such code run to its next
checkpoint or its end, but not make another call (section 4 says what it would do).

### EeEvents

The variables are `m_events`, `m_checkpointPending`, `m_stopRequested`, `m_deadlines`,
`m_nextDeadlineCycle` and `m_alarms`, the local variables of
`processPendingEvents` and `processDueDeadlines` that live across a release of the mutex
(`batch`, `due`, `work`), and the executor's place `at`. Every critical
section, atomic store and notification is a step of its own, because host threads
(`Post`, `PostNotify`, `RequestStop`) come between them. Times are relative: a
deadline has the cycles (`left`) and the host time (`host`) until it, and the clocks
advance by subtracting (`GuestRuns`, `HostTick`). Guest threads are reduced to
`runnable`. `EeEvents` and `EeScheduler` describe the same loop from two sides; neither reads
the other's variables. What `EeScheduler` treats as "an event may be due" is what
`EeEvents` decides.

### EventFlags

Of a thread only its wait for a flag (`wait`) and the outcome of its last wait
(`outcome`: the result code and the bits stored through the result pointer) are here; that a
waiter is made ready, with all that follows, is `EeScheduler`'s `StatusAfter`. Words of
bits are sets of bit numbers. A call is one step, because it runs without interruption
on the executor. `finishEventWaiters` walks the queue while it
clears bits and takes waiters out; `Left` states the walk as a relation: `left[i]` is
what the flag holds after the i-th waiter has been looked at, `served` the positions whose
condition held at that moment. `Admits` and `Patterns` are the checks of
`Sync.cpp`; `TakeEventFlag` is a poll, or a wait that is satisfied at once;
`LeaveEventFlag` is `removeFromWaitObject`, reached by `ReleaseWaitThread` and
`TerminateThread`. A suspended waiter is served like any other, so
suspension is not in the module.

### GuestHeap

`m_guestHeapBlocks` is a vector in address order; here it is the set of its blocks, "next" being the
block that begins where this one ends. Addresses and sizes count granules of the default
alignment. `AllocateAt`, `FreeAt`, `Moved` and the rest are the locked helpers; `held` is what a user
of the heap was given, `mem` what each granule contains, so that `ContentsKept` can speak of
`guestRealloc`'s copy. `thread` has the three fields of a thread's record that decide about
its stack: `StartThread` takes a stack from the heap, `ExitThread`,
`ExitDeleteThread`, `TerminateThread` and `DeleteThread` give it back or
not, as the code does. A thread that is terminated and started again runs on the stack that
was freed (its record keeps the address); `LiveOwnsStack` exempts it. `SetupHeap` forgets whatever is
allocated, at any time; that only the program's start-up code calls it, before anything is taken from the
heap, is an assumption about the program (the code, `System.cpp` 560-602, has no such check).

### GuestCalls

The runtime never calls a guest function from the host's stack: `invokeCurrent` puts a frame on the
current thread and throws to the loop, and the rest of the call is the frame's `onComplete`. `frames[t]`
is the stack of a thread, each frame of the kind that decides what its completion does
(`exitCurrent`, `finishCall`, `completeClient`, the result of a replaced system call, nothing). A step is
one system call or one completed frame: both run undisturbed on the executor. Which thread goes on
is `EeScheduler`'s; here any may. `makeDormant` drops the frames and so
the completions (`Dormant`, `abandoned`). Exit handlers that belong to a thread that is
terminated, whose function returns, or that are registered by exit handlers stay in the table for
the next life of the id, as in the code.

A server has one buffer. A request is copied there by `SifCallRpc`, the server's function reads
it and leaves the reply at some moment before it returns, `finishCall` copies the reply out; `buffer[s]`
says whose request or reply is there. The IOP service may name a function and memory of its own
instead (`Own`), answer itself or not at all. A program is assumed to bind a client and to call
through it only while no call of it is outstanding. Left out: the semaphores a call may
signal, the queues of servers (`SifSetRpcQueue`; nothing in the runtime reads them),
`SifRemoveRpc`, and the choice of the calling convention.

### GifPaths

A quadword is a tag, data or registers; VIF1's stream has VIF codes between them. `Sorted` is what
`std::stable_sort` does with the arbiter's comparator, by insertion, because the comparator is
not a strict weak order: a PATH3 image stands before a DIRECTHL packet, which stands before a
PATH3 packet that is no image, which stands with the image. So a DIRECTHL overtakes a queued image
if a PATH3 packet that is none was queued before both; `DrainedInOrder` states the order with
that exemption. In the program as it is, a drain finds packets of PATH3 only, or a single packet of
another path. `pending` is VIF1's count of the image quadwords of a DIRECT that are
missing, `gs` the GS's own count. What a program sends to VIF1 is assumed well formed (`SendAssumption`): a DIRECT's
quadwords follow its code (a count of 0 stands for 65536), what its image lacks comes behind them, and what
the transfer does not have is owed to a later one. A BASE moves no buffer until a program is started, so the
first program after a lone BASE may get the buffer that is filled next; `starts` tells from where on
`BuffersAlternate` is promised. CPU writes to BASE, OFST and TOPS, and REGLIST packets, are left
out. Packets of another path between the parts of a split image are read as its
continuation by the GS; the instance of `gif_paths` has them, and `ReadAsSent` is stated only for
a program that sends by VIF1 alone (`image_split`), where it fails already.

### CdStream, MpegPlayback, MoviePlayback

A film is a sequence of packets, and what a program reads and passes on are cells of it: one for a packet's
header and one for each portion of its payload, a picture of the video packets. A start code lies
within a cell, so that a packet may be cut anywhere between cells but not inside its header. `MpegPlayback` has the
record of one handle and its functions: `Examined` is a turn of the loop of `processPssBuffer`, `Processed` the loop, `Fed` is
`feedElementaryStream`, `Finished` is `finishPlaybackStream`, `Started`, `Due` and `CaughtUp` are the clock of
`sceMpegGetPicture`. FFmpeg is external: it keeps `Delay` pictures back while more input may come
(`Decoded`), gives them up when flushed, and then takes no more. Times are in portions of a VSync
relative to now; time stamps are exact, where the code rounds a time stamp to 2^-32 of a field
and stops at tick 0.

`CdStream` is the production of sectors; only the difference of the two counters matters. `MoviePlayback` has
the calls: `call[t]` is what a thread waits for (`waitVSync`, `waitExternal`), and `Resume` runs the
completion when it is dispatched, which asks again. `stream` are the fields of `g_mpeg_stub_state`;
`unread` is produced minus demultiplexed bytes. `ring` is the program's buffer between the two.
A program is assumed to have one thread that reads at a time, to start a stream with
an empty ring, and to call `sceMpegInit` while nobody waits for a picture. `fed`, `shown`
and `pure` are history: what was accepted, what was shown and when, and whether the program's own
`sceMpegAddBs` or an early `sceMpegFlush` has mixed in.

Left out: the guest's stream callbacks (they run after the call's own step, `GuestCalls` has such
frames), `ReleaseWaitThread` on these waits, streams whose end is not known, `sceCdStSeek`,
`sceCdRead` and `sceCdSearchFile` besides a stream, `sceCdStStat`, packets of length 0, and sequence
end codes (their generation update repeats one that was made).

### SourceChain, DmaChain

`SourceChain` is what a channel promises: a chain begins, and a block goes out, when a start asks for
that one, and at no other time; tags are dealt with one by one, CALL and RET nest two
deep, what they carry goes out in their order. `DmaChain` has the registers of two
channels (`ch`), the locals of the loop over the tags (`walk`), and what comes after it in the
same store (`Drain`); one turn of the loop is a step. `asked` and `started`, which no action reads but for the bound, record what the
program's last start asked for: `SourceChain` is
told so, and may begin a chain or send a block in no other step and no other way. It lets a
chain stop on its way, as the code does. A tag with the interrupt bit stops a chain
whose TIE is set; `Resume` starts it again from the registers. `causes` is
`m_completedDmacCauses`, passed on to the scheduler by 32-bit stores and library calls and not
by 64-bit ones; `ledger` counts what became of each completion. `ShortCut` recognises the two chains
that are processed without the walk; an image may have any size, as long as its tag says the same as the GIF's. As in the code: a chain without a quadword, or a start with
QWC 0, never completes; a start while D_CTRL is off is not made up for; a
third nested CALL loses its return address; reading CHCR clears STR; a chain
of more than `MaxTags` tags is cut off.

### GuestCode, EeProgram, ControlFlowAnalysis, RecompiledCode

A program is functions (ranges of words) and an instruction for each word. `EeProgram` executes
it as the R5900 does: one instruction, or one branch with its delay slot, at a time.
`ControlFlowAnalysis` has what the recompiler computes for it: labels, the words at which a function can
be entered again, and the function table. `RecompiledCode` executes the emitted code: `host` is the
stack of C++ calls, `pc` is `ctx->pc`, `Dispatch` the loop of `run()`, `Called`/`AfterCall` the two
halves of `dispatchGuestBranch`. At each safe point the code may find work pending and then
returns, function by function, to the loop. The refinement mapping is `GuestPc`. Of the
data only `$ra`, one register with code pointers and the stack of saved `$ra`s
are kept; which way a branch goes is open. Programs are well formed (`WellFormed`, an assumption that TLC
evaluates for all 424): functions are ranges of words told apart by their starts (`LaidOut`); no branch and no
system call in a delay slot, no slot outside its function, no function that starts in a slot (`SlotsKept`); a
function behind which no other starts ends with a jump away (`EndsClosed`); branches go to words that are there, and
relocations name calls of library functions (`TargetsKept`). Left out: the search for jump tables (a switch has
the targets that the search found), functions named `entry_*`, BGEZAL and BLTZAL, overrides that leave
`ctx->pc` alone, and the policies for missing functions other than ContinueToTarget. Programs whose
calls, made through the dispatcher, can be cut short at their own entry (recursion, a loop at a
function's first word) are the subject of `loop_at_start` and not in `recompiled`; so are loops
made of switches or of calls by name alone, which contain no safe point.

## 3. Runs

| Run | Instance | What it shows |
|---|---|---|
| `semaphores` | `SemaphoreClients`: main + 2 threads, 2 priorities, 1 semaphore of maxCount up to 2, no handlers | `ReadyQueuesExact`, `SuspensionExact`, `SleeperHasNoWakeup`, `SemaphoreContract` (refinement of `FifoSemaphore`) |
| `interrupts` | main + 1 thread, 1 dispatcher thread, up to 2 frames outstanding | `StrictPriority`, `RetiredIsClean`, `PreemptedKeepsItsTurn` |
| `events` | VBlank of 1 unit every 3, 1 alarm, 2 posted events, lateness up to 2 | `EventsInOrder`, `CheckpointNotLost`, `NoLostWakeup`, `NextIsEarliest`, `AlarmsExact`; liveness `StopEndsRun`, `VBlanksGoOn` |
| `event_flags` | 3 interchangeable threads, 1 flag, 2 bits, 5 modes | `NoneSatisfied`, `NoOvertaking`, `ConsumedOnce` |
| `guest_heap` | a heap of up to 8 granules at 3 bases, 3 users, 1 thread's stack, 4 sizes, 2 alignments | `BlocksTile`, `AllocationsExact`, `ContentsKept`, `LiveOwnsStack` |
| `guest_calls` | 2 threads with up to 3 and 1 frames, 2 exit handlers, 2 clients, 2 servers of one id, 1 replaced system call | `BusyExact`, `RepliesMatch`, `ExitHandlersInOrder`, `StacksApart` |
| `gif_paths` | 3 packets at a time: 15 pieces of a VIF1 stream, 2 packets from the GIF FIFO, 1 kick | `Path3InOrder`, `DrainedInOrder`, `VifInStep`, `BuffersAlternate` |
| `dma_chain` | 2 starts and 1 other call over 341 memories of 3 or 7 quadwords | `InterruptsExact`, `ShortCutsAgree`, `ImplementsSource` (both channels refine `SourceChain`) |
| `movie` | 3 films of 6 or 8 cells and 3 or 4 sectors, 1 reader, 1 viewer, 1 handle, 2 of the rarer calls | `NoForgottenWaiter`, `PicturesExact`, `NeverTooFast`, `WholeFilm`; liveness `ReadsReturn` |
| `recompiled` | every well-formed callee of 7 words with a caller, 3 larger programs: 424 programs | `ImplementsProgram` (refinement of `EeProgram`), `NeverLost`, liveness `StopHonoured` |
| `image_split` | VIF1 alone | counterexample: the rest of a split image is misread |
| `loop_at_start` | one program | counterexample: a callee cut short at its entry is taken for finished |

`TypeOK` of `EeScheduler`, `EventFlags` (`FlagsTypeOK`), `GuestHeap`, `GuestCalls`, `DmaChain` and `MoviePlayback` (`MovieTypeOK`) is proved, as are `WaitersExact`,
`NoHiddenRoom`, `UnreadExact` and `EndInTurn`; `TypeOK` of `EeEvents` and `GifPaths` holds in the same instances and says little, so it is in no run.

**Bounds.** Two created threads beside the main thread allow a caller, a target
and a bystander; a semaphore queue then holds two waiters, so that order, removal from the middle
and hand-off to the right one are told apart. In `interrupts`, three priorities give
above, equal and below; what `semaphores` asks is about queues, for which two are enough. Suspensions nest to 2, wake-ups accumulate to 1: the code
only compares them with 0. VSync waits are in `interrupts` only. Two frames are enough for one
handler stacked on another, or one stacked and one pending. A dispatcher set of one lets a
dispatcher be created, reused, and be unavailable while its frame waits. In
`EeEvents` a period of three units leaves room for an alarm before, at and after each
of VBlank end and start; lateness saturates at `MaxLate`.
Three threads on one flag give a queue in which one waiter clears what the next
needs and the last is still satisfied; two bits tell OR from AND and WEF_CLEAR from
WEF_CLEAR_ALL. Flags do not interact except through a thread's single wait, which the
proofs cover for any number of them.
Eight granules hold three blocks with a hole between them and an alignment that splits a block in
three. Three frames are an exit's two handlers on top of something else, or a server interrupted by a
handler that calls another; the second thread's single frame is a server of the same buffer. With one
id of servers and two servers a client can be rebound while its call is under way. Three packets
queued at once are the fewest that show the comparator's intransitivity; images have up to three
quadwords, split after none, one or two. Three tags of seven kinds nest CALLs to two and beyond, stop
in the middle and loop. A callee of seven words has its loop head, a slot at each end and every
direction of two branches.
The films of `movie` are the smallest with a packet that spans two sectors, a last packet cut off by the
file's end, a last sector that fills no bank, a wrap of the time stamps, a rate of one and a half VSyncs, and a
new sequence behind a refused packet; two pictures ahead and one kept back by the decoder make the
demultiplexer wait for the viewer. Starting the stream is one of the two rarer calls, so that every other comes once
before, during and after a film, and a second start of the stream cuts the first off anywhere. Pictures
are followed for `Longest` portions after they were shown, longer than any picture lasts.
`dma_chain`, `guest_calls` and `recompiled` do not check for deadlock: there the program stops when its
calls, threads or instructions are used up. The others do: the scheduler's loop never stops, and
`EeEvents` ends only in `at = "done"`, where host calls may still come (`Done`).

**Fairness** (`EeEvents`): weak fairness of the executor (its loop and guest code
reaching checkpoints, which the recompiler emits on every backward branch), of
the host clock, and of a host call that has begun. Host threads need not
post anything. `StopEndsRun` and `VBlanksGoOn` use nothing else; `StopHonoured` (`RecompiledCode`) uses weak fairness of the game
thread, a host thread that waits for nothing inside recompiled code. `ReadsReturn`
(`MoviePlayback`) uses weak fairness of VSyncs, which are deadlines of the scheduler, and of the dispatch
of a reader whose wait is over. The other modules have
no fairness and only safety properties.

**Mutants.** `PROJECT.json` names for every property a change to the code that
would break it; its definition stands next to the one it mutates (`Unqueued_Never`,
`PostNotify_Missing`, ...). They are not part of any specification.

## 4. Disagreements found

1. `image_split`: VIF1 puts a tag of its own before the rest of an image, and the GS, which
   counts the image itself, reads that tag as image data and the last quadword as a tag; a test says
   that the rest continues the upload.
2. `loop_at_start`: a callee whose loop begins at its first word, or that recurs through other functions,
   is taken for finished when a safe point cuts it short there; the caller goes on in the middle of it.

Others, met while modelling and not kept as runs. `assert(main->status == EeThreadStatus::Ready)`
(`EeScheduler.cpp` 1470) does not hold: an i-rotation of the caller's own priority, or a handler that suspends its own thread,
leaves no current thread and goes on in guest code, and its next call is made for the main thread,
whatever its state; a release build makes a blocked main thread Running. A checkpoint inside an interrupt handler lets a thread
that the handler woke run before the handler returns, against a test's text
(`ps2_runtime_interrupt_tests.cpp:487`). Slice expiry rotates threads of one priority too, although a test names
RotateThreadReadyQueue the only way. The notification of a stop can be lost, since it is sent without the
mutex; the next VBlank ends the sleep. The comment on `RegisterExitHandler` calls it a stub that
returns 0; it registers the handler. A read past the end of a stream, made before the program has passed
on what it has read, ends every playback (`finalizeCdStreamEofUnlocked`), and the rest of the film is
discarded, although the end noticed by the read before would have waited for it; tests expect the discarding.
`sceMpegFlush` in the middle of a film leaves FFmpeg drained, and it rejects the packets that
follow. A time stamp that jumps backwards shows its picture at once. A program end code without
a new picture wakes nobody who waits for one; the end of the file does.

## 5. Proofs

All theorems hold for every value of the constants that satisfies the modules' named
assumptions. The two theorems about `RecompiledCode` also say what they ask of the guest's program; no
theorem assumes anything else.

**Types** (`EeSchedulerProofs`). `TypeCorrect == Spec => []TypeOK`. `TypeOK` is inductive as
it stands; there is one step per action and a lemma for each shared ending
(`ReturnTyped`, `BlockTyped`, `RetireTyped`).

**Queues, suspensions, semaphores** (`EeSchedulerProofs`). `ReadyQueues`, `Suspensions` and
`Semaphores` say that `ReadyQueuesExact`, `SuspensionExact` and `SemaphoresExact` hold always. None is
inductive alone: that a call removes a thread from the right queue relies on the statuses, that
a wait may be entered relies on the caller being Running and so in no queue, that a wake-up
leaves a suspended thread out of the ready queue relies on the suspension count. Their
conjunction with `TypeOK` is (`IInv`, theorem `Safety`; `Parts` relates it to the three). The
three parts are written as operators of an arbitrary state
(`Queued`, `Counted`, `Waited`), because a call builds new statuses and queues and hands them to
`Return`, which may change them again to preempt the caller: `ReturnKeeps` shows once that
`Return` keeps a good state good, and the lemma of each call shows that it hands over a good
one. `Lists(q, S)` ("q lists S, each once") carries the argument about queues; what
`Append`, `Tail`, `RemoveFirst` and `Among` do to it is proved in `KernelListsProofs`
from the definitions of the community modules.

**Promises** (`EeSchedulerProofs`). Five theorems on top of `IInv`.
`Implements` is the refinement, of `ClientSpec`: every accepted call on a semaphore is the action of
`FifoSemaphore` for that call, a release or a termination is `Leave`, and any other step of the scheduler
leaves limits, counts, queues and blocked threads alone. The abstract `blocked` is read from the threads'
records and the abstract `queue` from the semaphore, so that a thread woken but left in the queue, or taken off
it and not woken, is no step. A thread that leaves a queue by a release or termination
does so through one function for all wait
objects; `UnlistedStep` shows what that is to the semaphores, and needs `IInv` to know that the thread is in that queue
alone. `Priority` is proved from a stronger invariant (`OInv`) in which the order holds in every
phase, not only in guest code: the request must exist before `run` next looks. `Turn` follows
from the same lemmas, since the only steps that preempt pass through `Return`. `Sleepers` and
`CleanRetirement` share the invariant `LInv`, which adds that guest code runs on a thread
that is not retired (`Guested`): otherwise a call could give a dormant thread a wait or a frame.

**Events and deadlines** (`KernelEventsProofs`). The five invariants of the run `events`, for every length of
field and blanking, every set of alarms and any number of posts. `IInv` adds to them what the
executor knows at each place of `run()`: `EventsKnown` (while the mutex is held before a sleep the queue is
empty; between the reading and the storing of the flag a queued event is in `work`; from there to guest code in
`checkpoint`), `DuesFirst` (deadlines taken are processed before anything else, none of them names an alarm
that is set anew, and a field's start is always pending, so that "no deadline" never occurs while the
cache is relied upon), `CacheRight` (the cache is exact from `updateNextDeadline` on, through handling,
dispatch and sleep, not only where `NextIsEarliest` says so) and `GuestBefore` (guest code stops before
a deadline passes, so that no deadline lies in the past). `AfterFacts` and `HostAfterFacts` say that the passing
of time keeps the order and the identities of the deadlines.

**Event flags** (`KernelEventsProofs`). The inductive invariant is `FlagsTypeOK`, `WaitersExact` and
`NoneSatisfied` together. `NoLostFlag` (`NoneSatisfied`) rests on two facts: conditions are monotone in
the bits, and the bits left by the walk of `finishEventWaiters` only shrink, so that a waiter
passed over is still unsatisfied at the end. `Turns` and `Consumption` are action properties proved
from the same invariant.

**Guest heap** (`GuestHeapProofs`). `IInv` is inductive: the types, `Sound` (the blocks tile the area:
each point lies in exactly one block, every block ends where the next begins, no two
free ones are neighbours, and the recorded end lies behind what is in use), `Owned` (blocks in
use and owners correspond one to one), `Intact` (contents) and `Stacks`. None of the
properties is inductive alone: that a freed address is a block's start relies on `Owned`, that a move copies
before anybody writes over the old block relies on the tiling. Coalescing replaces runs of
free blocks at once; the lemmas about `Recut` and `Coalesced` show that any cut of a tiled stretch
into blocks leaves a tiling, which serves splitting, alignment, growth and release alike.

**Calls of guest functions** (`LibraryCallsProofs`). `IInv` is `TypeOK`, `CallsInv` and `ExitsInv`. Of the calls it
says that at most one frame carries a client's call and none carries a call that was abandoned
(`CarriedOnce`, `AbandonedGone`), that the buffer of a server whose call is not known to be shared holds
that call's request or reply (`BufferHeld`, `SharingKnown`), and with those that clients are busy exactly as `BusyExact`
says and that no reply misleads. Without `CarriedOnce` a completion could leave a second frame behind a client that
is no longer busy; without `BufferHeld` nothing is known of what `finishCall` copies. Of a stack of frames it says
where each frame's area lies (`Layout`): at its depth, except that the handlers of one exit lie
together, numbered from below, on the area of the first; `ExitsOwed` ties the handlers still owed to the
topmost of those groups. `StacksApart` and `ExitHandlersInOrder` are consequences of `Layout` and `ExitsOwed`, neither inductive
itself: once the handlers above a frame are dropped, the next of them has to be in its place already.

**Movie playback** (`LibraryCallsProofs`). For any films, threads, handles and sizes, `NobodyForgotten` says that
nobody waits for a picture of a handle that has one, of a handle that is gone, or after the end of the stream. The
invariant is `MovieInv`, the types and `NoForgottenWaiter`, inductive together: a waiter's handle
has an empty queue, so that whoever changes the queue's length or finds the end must wake it in the same step
(`OneHandle`, `EndFound`, `FetchKeeps`). The weight is in the types: that a handle's record survives any
demultiplexing, whose loop is a recursive function and is followed turn by turn (`TurnsExist`, `ProcessedTyped`), that a
picture is only looked at when its time is known (`Timely`), and that the drive's buffer never holds more
than its capacity or the rest of the film (`InFilm`, `UpdatedInFilm`). `UnreadCounted` says that the count of cells on which the end of the film
waits is what lies in the program's ring and in the hands of the one thread that reads, whatever waits cut its read;
`EndFoundInTurn` follows: the demultiplexer announces the end only when nothing that was read is left.
The proof of `UnreadCounted` found a guard of `StReadNow` that bound more than was meant: it let a
read without STMBLK work on a stream that is not active. TLC had not shown it, since no property failed.

**DMA** (`DmaChainProofs`). The assumptions are those the module states: memory is an array of tags with addresses
and counts (and, for an image, the size its GIF tag gives), chains start in it, a setup packet is not empty, and `MaxTags` is at least 4, since the short
cuts stand for up to four turns of the loop (`kMaxChainTags` is 4096). `IInv` adds to the types that the loop's
variables are at rest outside a walk, that a walk goes on only while the controller is enabled and that `over` tells
whether it has ended (`Walking`), and that the
FIFO holds nothing while PATH3 is open (`HeldWhileMasked`). `ShortCutsRight` unrolls the loop: `Walked` is a
recursive function, so `LoopExists` shows first that one exists, by an induction that `SetInduction`
provides for sets of numbers; `StoppedStays` then allows to
stop after the third or fourth turn. `ImplementsSourceChains` is the refinement. What a step is to a channel is
said once, without the abstract module: with nothing started, the channel is left alone (`Same`) or deals with
the tag it stands at (`Stepped`); with a start, it is left alone if the start was for the other channel, and otherwise
begins or puts out just what `asked` says (`Served`). Each action is shown to be one of
those to either channel: a turn of the loop is `Stepped` by `PcFollowed` and `StackFollowed`, which relate the
two ASR registers and the depth to a stack of return addresses, and by the associativity
of what was passed on, held and buffered; writing the registers back (`Stop`) and starting from them (`Resume`) is
`Same`. A short cut is a whole chain of `SourceChain` from the address that was asked for, again by unrolling
(`ShortChain`).

**GS paths** (`GifPathsProofs`). The assumption is the one the module states about what a program sends. `IInv` is
`PathInv`, `VifInv` and `BuffersInv`. The first says that the arbiter's queue and the FIFO behind
the mask hold packets of PATH3 alone, numbered in the order of sending, the FIFO's after the queue's, and that the
FIFO is empty while PATH3 is open (`Numbered`). A drain then sorts a sequence on which the comparator is
never true (`SortedPlain`), or such a sequence with one packet of another path behind it, which
is inserted at one place (`SortedOther`); from that follow `Path3InOrder` and, as an action property, `DrainedInOrder`,
although the comparator is no weak order. `VifInv` keeps the witness of `SendAssumption` for what VIF1 has left: a set of
places that hold codes (`VifFits`). Each turn of the loop consumes a code with its quadwords, or part
of an image, and leaves the places behind it; `VifInStep` alone says nothing of what comes behind the next
code. `BuffersInv` adds to `BuffersAlternate` that TOPS is the buffer that DBF names (`Placed`).
`BuffersAlternate` was first stated from the first program after any BASE or OFFSET on; the proof failed for a BASE alone,
and the code does hand over the buffer just being filled there: BASE changes no TOPS.

**Recompiled code** (`RecompiledCodeProofs`). For every family of well-formed programs, of any size and with any
overlap of functions, `NothingIsLost` says that the dispatcher has a function for every word it is handed, and
`CodeImplementsProgram` that the emitted code executes the guest's program: every step of it is one
instruction, or one branch with its slot, of `EeProgram`, or none. Both ask of the guest that it pops no empty
stack and jumps through a register only to functions or to targets the analysis knows of (`Behaved`); the second
asks further that `dispatchGuestBranch` never takes a call for finished whose callee was cut
short where it was entered (`~Mistaken`). TLC finds both to hold in every state of `recompiled` (list
`Behaved` under INVARIANTS of its cfg), and `Mistaken` to be reached in `loop_at_start`: the theorem says that this
disagreement is the only way in which the code departs from such a guest. `IInv` says of the C++ stack that all
entries but the top one are callers stopped at a JAL or JALR (`Callers`), and that the top is such a
caller to which control has just returned, a function about to execute a word with `ctx->pc` on that word or the one
before, a stub, or a handler in the place of a call (`OnTop`). A function is about to execute a delay slot
alone only if the slot has a label and `ctx->pc` is on it (`Executing`): that is the test
by which the code behind the label tells its two ways in apart. What is handed to the dispatcher, and what is in `$ra` or saved,
is a `Landings` word: one the table has a function for, and not the slot in which a function ends
with a jump away (`DeadEnds`), behind which the emitted function runs off its end. That every way out
leads to a landing is proved per way from `ResumeTargets`: loop heads (`BackLands`), words behind calls and system calls (`CallLands`,
`SyscallLands`), branches into other functions (`OutsideLands`, with `OwnerExists`), the ends of functions (`NextLands`).
`SetTop` and `LeaveKeeps` are the two things that happen to the stack, and each action's lemma shows at once that it keeps `IInv` and
that it is `EE!Next`.

Only model-checked: `PicturesExact`, `NeverTooFast` and `WholeFilm` of `MoviePlayback`, and what the GS counts in
`GifPaths` (`gs`, `ReadAsSent`). What a film's cells decode to is defined by recursion over the film, and whether a
queue is it would need induction over that data; pictures are shown no faster than the film says only if the
film's time stamps agree with its picture lengths, as those of the instance do: the code shows a picture whose
stamp jumps backwards at once. Out of the prover's reach: the
liveness properties (`StopEndsRun`, `VBlanksGoOn`, `StopHonoured`, `ReadsReturn`), and what the recursive functions `Among`
and `Processed` compute is proved only as far as set and order-free facts go (the range of the one, that it repeats
nothing, the type of the other).

## 6. Not modelled, and what is next

Next: the EE timers' deadlines against their registers; the start-up of
`PS2Runtime::run`, where `reset()` can clear an early stop.

Left out, with the reason in each component's note in `PROJECT.json`: rendering and VU arithmetic, loads,
stores and address translation, audio, video decoding, memory-card emulation, file formats,
the GUI, dynamic library loading, instruction translation and C++ text generation. They are
computations on data or host I/O that run to completion on one thread; nothing they promise depends
on an order of steps, and most of their lines are arithmetic or tables that a model would only repeat.
They are also most of the repository, so that the lines mapped to definitions are a small share of it.
