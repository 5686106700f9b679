----------------------------- MODULE GuestCalls -----------------------------
(***************************************************************************)
(* Guest functions the runtime calls for a guest thread: handlers of       *)
(* system calls that a program has replaced, servers and end functions of  *)
(* SIF remote calls, exit handlers, and the interrupt handlers that come   *)
(* in between.                                                             *)
(*                                                                         *)
(* The runtime never calls such a function from the host's stack.  It      *)
(* puts a frame on the thread (invokeCurrent), gives up the processor,     *)
(* and what is left of the call is a completion that the loop of the       *)
(* scheduler runs when the frame has returned.  Meanwhile the function     *)
(* may block, be interrupted, call again, or lose its thread.              *)
(*                                                                         *)
(* Which thread runs next is EeScheduler's; here any of them may.  A step  *)
(* is a system call or the return of a frame: both run undisturbed on the  *)
(* executor.                                                               *)
(***************************************************************************)
EXTENDS KernelLists, FiniteSets

CONSTANTS
    Threads,      \* ids of guest threads
    Main,         \* the one that exists from the start
    Dispatchers,  \* ids of the runtime's own threads for invocations
    Clients,      \* client structures (t_SifRpcClientData)
    Sids,         \* server ids
    Servers,      \* server structures the guest registers, with a buffer
    Placeholder,  \* the one SifBindRpc makes up, without buffer or function
    Handlers,     \* functions registered as exit handlers
    Missing,      \* those that are not in the function table
    Numbers,      \* system calls the program replaces
    None,         \* no server, no client
    Own,          \* memory that one caller alone uses
    MaxFrames,    \* bound: frames of each thread
    MaxHandlers   \* bound: exit handlers of each thread

ASSUME CallsAssumption ==
    /\ Main \in Threads /\ Threads \cap Dispatchers = {}
    /\ Missing \subseteq Handlers
    /\ Placeholder \notin Servers /\ None \notin Servers /\ Own \notin Servers
    /\ None # Placeholder /\ None # Own
    /\ MaxFrames \in [Threads \cup Dispatchers -> Nat]
    /\ MaxHandlers \in [Threads \cup Dispatchers -> Nat]

VARIABLES
    alive,         \* not dormant
    frames,        \* GuestThread::invocations, the running one last
    exitHandlers,  \* m_eeExitHandlers
    bound,         \* g_rpc_clients[c].sid
    busy,          \* g_rpc_clients[c].busy
    server,        \* client->server
    registered,    \* g_rpc_servers[sid].sd_ptr
    buffer,        \* whose request or reply a server at work has in its buffer
    owed,          \* history: handlers an exit has taken and that are to run
    overlapped,    \* history: clients whose call shares a buffer with another
    misled,        \* history: those whose call did not, and yet was mistaken
    abandoned      \* history: clients whose call ended with its thread

threadVars == <<alive, frames, exitHandlers, owed, abandoned>>
rpcVars == <<bound, busy, server, registered, buffer, overlapped, misled>>
vars == <<threadVars, rpcVars>>

All == Threads \cup Dispatchers
Top(t) == Last(frames[t])
Room(t) == Len(frames[t]) < MaxFrames[t]

\* Guest code runs on the thread: its own, or that of its last frame.
Runs(t) == alive[t] /\ (t \in Dispatchers => frames[t] # <<>>)
Another(t) == \E u \in All \ {t} : Runs(u)

\* invocationStackTop: a thread has an area for each depth.
StackTop_PerThread(depth) == 0                  \* mutant: one area for a thread
StackTop(depth) == depth

HandlerFrame(stack) == [kind |-> "handler", stack |-> stack]
OverrideFrame(n, stack) == [kind |-> "override", number |-> n, stack |-> stack]
ExitFrame(h, rest, stack) ==
    [kind |-> "exit", function |-> h, rest |-> rest, stack |-> stack]
ServerFrame(c, source, stack) ==
    [kind |-> "server", client |-> c, source |-> source, stack |-> stack]
EndFrame(c, stack) == [kind |-> "end", client |-> c, stack |-> stack]

Carries(f, c) == f.kind \in {"server", "end"} /\ f.client = c
Outstanding(c) ==
    \E t \in All : \E i \in DOMAIN frames[t] : Carries(frames[t][i], c)

Init ==
    /\ alive = [t \in All |-> t = Main]
    /\ frames = [t \in All |-> <<>>]
    /\ exitHandlers = [t \in All |-> <<>>]
    /\ bound = [c \in Clients |-> None]
    /\ busy = [c \in Clients |-> FALSE]
    /\ server = [c \in Clients |-> None]
    /\ registered = [d \in Sids |-> None]
    /\ buffer = [s \in Servers |-> None]
    /\ owed = [t \in All |-> <<>>]
    /\ overlapped = {} /\ misled = {}
    /\ abandoned = {}

-----------------------------------------------------------------------------
(* Threads and exit handlers.                                              *)

\* makeDormant: the frames go, and with them what was to be done after them.
Dormant(t, returned) ==
    /\ alive' = [alive EXCEPT ![t] = FALSE]
    /\ frames' = [frames EXCEPT ![t] = <<>>]
    /\ abandoned' = abandoned \cup
           {c \in Clients : \E i \in 1..returned : Carries(frames[t][i], c)}

StartThread(t) ==
    /\ t \in Threads /\ ~alive[t] /\ Another(t)
    /\ alive' = [alive EXCEPT ![t] = TRUE]
    /\ UNCHANGED <<frames, exitHandlers, owed, abandoned, rpcVars>>

\* The function of a thread returns, or goes on in none that is known.
ThreadReturns(t) ==
    /\ t \in Threads /\ Runs(t) /\ frames[t] = <<>>
    /\ Dormant(t, 0)
    /\ UNCHANGED <<exitHandlers, owed, rpcVars>>

TerminateThread(t) ==
    /\ t \in Threads /\ alive[t] /\ Another(t)
    /\ Dormant(t, Len(frames[t]))
    /\ owed' = [owed EXCEPT ![t] = <<>>]
    /\ UNCHANGED <<exitHandlers, rpcVars>>

DeleteThread(t) ==
    /\ t \in Threads /\ ~alive[t] /\ t # Main /\ Another(t)
    /\ exitHandlers' = [exitHandlers EXCEPT ![t] = <<>>]
    /\ UNCHANGED <<alive, frames, owed, abandoned, rpcVars>>

RegisterExitHandler(t, h) ==
    /\ Runs(t) /\ Len(exitHandlers[t]) < MaxHandlers[t]
    /\ exitHandlers' = [exitHandlers EXCEPT ![t] = Append(@, h)]
    /\ UNCHANGED <<alive, frames, owed, abandoned, rpcVars>>

\* The frames of an exit's handlers: the first is to run first and so comes
\* last.  All get the area of the depth at which the first of them is put.
Stacked_AsRegistered(batch, depth) ==           \* mutant: the last runs first
    [i \in DOMAIN batch |->
        ExitFrame(batch[i], i - 1, StackTop(depth))]
Stacked(batch, depth) ==
    [i \in DOMAIN batch |->
        ExitFrame(batch[Len(batch) + 1 - i], i - 1, StackTop(depth))]

\* ExitThread and ExitDeleteThread: exitThreadWithHandlers.
ExitThread(t) ==
    LET batch == Among(exitHandlers[t], Handlers \ Missing)
        depth == Len(frames[t])
    IN  /\ Runs(t) /\ depth + Len(batch) =< MaxFrames[t]
        /\ exitHandlers' = [exitHandlers EXCEPT ![t] = <<>>]
        /\ owed' = [owed EXCEPT ![t] = batch]
        /\ \/ /\ batch = <<>>
              /\ Dormant(t, depth)
           \/ /\ batch # <<>>
              /\ frames' = [frames EXCEPT ![t] = @ \o Stacked(batch, depth)]
              /\ UNCHANGED <<alive, abandoned>>
        /\ UNCHANGED <<rpcVars>>

\* The completion of the last handler is exitCurrent.
ExitHandlerReturns(t) ==
    /\ frames[t] # <<>> /\ Top(t).kind = "exit"
    /\ owed' = [owed EXCEPT ![t] = Tail(@)]
    /\ \/ /\ Top(t).rest = 0
          /\ Dormant(t, Len(frames[t]) - 1)
       \/ /\ Top(t).rest > 0
          /\ frames' = [frames EXCEPT ![t] = Front(@)]
          /\ UNCHANGED <<alive, abandoned>>
    /\ UNCHANGED <<exitHandlers, rpcVars>>

-----------------------------------------------------------------------------
(* Interrupt handlers and replaced system calls.                           *)

\* The loop puts a pending invocation on the current thread, or on one of
\* its own.  An interrupt handler brings the stack of its registration.
PushInvocation(t) ==
    /\ Room(t) /\ (t \in Threads => alive[t])
    /\ \E stack \in {Own, StackTop(Len(frames[t]))} :
           frames' = [frames EXCEPT ![t] = Append(@, HandlerFrame(stack))]
    /\ alive' = [alive EXCEPT ![t] = TRUE]
    /\ UNCHANGED <<exitHandlers, owed, abandoned, rpcVars>>

HasInvocation(t, n) ==
    \E i \in DOMAIN frames[t] :
        frames[t][i].kind = "override" /\ frames[t][i].number = n

\* dispatchSyscallOverride, of a call that is replaced at the moment: inside
\* its own handler the system call is the runtime's again.
SystemCall(t, n) ==
    /\ Runs(t) /\ Room(t) /\ ~HasInvocation(t, n)
    /\ frames' = [frames EXCEPT ![t] =
                    Append(@, OverrideFrame(n, StackTop(Len(frames[t]))))]
    /\ UNCHANGED <<alive, exitHandlers, owed, abandoned, rpcVars>>

\* The result of a replaced system call is copied to the frame below: data.
HandlerReturns(t) ==
    /\ frames[t] # <<>> /\ Top(t).kind \in {"handler", "override"}
    /\ frames' = [frames EXCEPT ![t] = Front(@)]
    /\ alive' = [alive EXCEPT ![t] = t \in Threads \/ Len(frames[t]) > 1]
    /\ UNCHANGED <<exitHandlers, owed, abandoned, rpcVars>>

-----------------------------------------------------------------------------
(* SIF remote calls.  A client structure carries one call at a time: a     *)
(* program binds it or calls through it only while no call of it is under  *)
(* way.                                                                    *)

SifBindRpc(t, c, sid) ==
    LET s == IF registered[sid] = None THEN Placeholder ELSE registered[sid]
    IN  /\ Runs(t) /\ ~Outstanding(c)
        /\ bound' = [bound EXCEPT ![c] = sid]
        /\ busy' = [busy EXCEPT ![c] = FALSE]
        /\ registered' = [registered EXCEPT ![sid] = s]
        /\ server' = [server EXCEPT ![c] = s]
        /\ abandoned' = abandoned \ {c} /\ overlapped' = overlapped \ {c}
        /\ UNCHANGED <<alive, frames, exitHandlers, owed, buffer, misled>>

SifRegisterRpc(t, s, sid) ==
    /\ Runs(t)
    /\ registered' = [registered EXCEPT ![sid] = s]
    /\ server' = [c \in Clients |-> IF bound[c] = sid THEN s ELSE server[c]]
    /\ UNCHANGED <<threadVars, bound, busy, buffer, overlapped, misled>>

\* The server a call goes to, looked up anew at each call.
Latest(c) ==
    IF registered[bound[c]] = None THEN server[c] ELSE registered[bound[c]]

\* Clients whose calls a server is working on.
Served(s) ==
    {c \in Clients : \E t \in All : \E i \in DOMAIN frames[t] :
        Carries(frames[t][i], c) /\ frames[t][i].kind = "server"
                                 /\ frames[t][i].source = s}

\* Where the function that answers leaves the reply: the IOP service names a
\* function and memory of its own, or the server's function and buffer are
\* used; None if no function is known or the service suppresses it.
Answering(s) == {None, Own} \cup ({s} \cap Servers)

\* finishCall: the reply is copied, and the end function called or the
\* client released.  Which of them the call has brought along; an end
\* function that is suppressed or unknown counts as none.
FinishCall_Released(t, c, reply, below) ==      \* mutant: released before the end function
    \E end \in BOOLEAN :
        /\ misled' = misled \cup ({c} \ (overlapped \cup {reply}))
        /\ busy' = [busy EXCEPT ![c] = FALSE]
        /\ frames' = [frames EXCEPT ![t] =
                IF end THEN Append(below, EndFrame(c, StackTop(Len(below))))
                       ELSE below]
        /\ alive' = [alive EXCEPT ![t] = t \in Threads \/ frames'[t] # <<>>]
FinishCall(t, c, reply, below) ==
    \E end \in BOOLEAN :
        /\ misled' = misled \cup ({c} \ (overlapped \cup {reply}))
        /\ busy' = [busy EXCEPT ![c] = end]
        /\ frames' = [frames EXCEPT ![t] =
                IF end THEN Append(below, EndFrame(c, StackTop(Len(below))))
                       ELSE below]
        /\ alive' = [alive EXCEPT ![t] = t \in Threads \/ frames'[t] # <<>>]

\* The request is written to the buffer of the server in any case; what
\* nobody is going to read there is left out.  A server that is at work for
\* another client has a single buffer for both calls.
Written(s, c, source) ==
    IF source = s \/ Served(s) # {} THEN [buffer EXCEPT ![s] = c] ELSE buffer
Sharing(s, c, source) ==
    Served(s) \cup (IF source = s /\ Served(s) # {} THEN {c} ELSE {})

\* SifCallRpc.  A call that no guest function answers is answered by the IOP
\* service, or gets its own request back.
SifCallRpc(t, c) ==
    LET s == Latest(c)
    IN  /\ Runs(t) /\ Room(t)
        /\ bound[c] # None /\ ~busy[c]
        /\ server' = [server EXCEPT ![c] = s]
        /\ \E source \in Answering(s) :
              /\ buffer' = Written(s, c, source)
              /\ overlapped' = overlapped \cup Sharing(s, c, source)
              /\ \/ /\ source # None
                    /\ busy' = [busy EXCEPT ![c] = TRUE]
                    /\ frames' = [frames EXCEPT ![t] =
                         Append(@, ServerFrame(c, source, StackTop(Len(@))))]
                    /\ UNCHANGED <<alive, misled>>
                 \/ /\ source = None
                    /\ FinishCall(t, c, c, frames[t])
        /\ UNCHANGED <<exitHandlers, owed, abandoned, bound, registered>>

\* Where the completion looks for the reply: the call has kept the place.
Place_Rebound(f) == server[f.client]            \* mutant: the client's server of now
Place(f) == f.source

\* The function of a server returns.  It has read the request in the buffer
\* at some moment since the call.
ServerReturns(t) ==
    /\ frames[t] # <<>> /\ Top(t).kind = "server"
    /\ LET c == Top(t).client
           s == Top(t).source
           place == Place(Top(t))
           read == IF s = Own THEN {c} ELSE {c, buffer[s]}
       IN  \E reply \in read :
              /\ buffer' = IF s = Own THEN buffer
                           ELSE [buffer EXCEPT ![s] =
                                    IF Served(s) = {c} THEN None ELSE reply]
              /\ FinishCall(t, c, IF place = s THEN reply
                                  ELSE IF place \in Servers THEN buffer[place]
                                  ELSE None,
                            Front(frames[t]))
           /\ overlapped' = overlapped \ {c}
    /\ UNCHANGED <<exitHandlers, owed, abandoned, bound, server, registered>>

\* completeClient, after the end function.
EndFunctionReturns(t) ==
    /\ frames[t] # <<>> /\ Top(t).kind = "end"
    /\ busy' = [busy EXCEPT ![Top(t).client] = FALSE]
    /\ frames' = [frames EXCEPT ![t] = Front(@)]
    /\ alive' = [alive EXCEPT ![t] = t \in Threads \/ Len(frames[t]) > 1]
    /\ UNCHANGED <<exitHandlers, owed, abandoned, bound,
                   server, registered, buffer, overlapped, misled>>

-----------------------------------------------------------------------------
Next ==
    \/ \E t \in All :
          \/ StartThread(t) \/ ThreadReturns(t) \/ TerminateThread(t)
          \/ DeleteThread(t) \/ ExitThread(t) \/ ExitHandlerReturns(t)
          \/ PushInvocation(t) \/ HandlerReturns(t)
          \/ ServerReturns(t) \/ EndFunctionReturns(t)
          \/ \E h \in Handlers : RegisterExitHandler(t, h)
          \/ \E n \in Numbers : SystemCall(t, n)
          \/ \E c \in Clients : SifCallRpc(t, c)
          \/ \E c \in Clients, sid \in Sids : SifBindRpc(t, c, sid)
          \/ \E s \in Servers, sid \in Sids : SifRegisterRpc(t, s, sid)

Spec == Init /\ [][Next]_vars

-----------------------------------------------------------------------------
(* What is checked.                                                        *)

FrameStacks == {Own} \cup Nat
Frame ==
    [kind : {"handler"}, stack : FrameStacks]
    \cup [kind : {"override"}, number : Numbers, stack : FrameStacks]
    \cup [kind : {"exit"}, function : Handlers, rest : Nat, stack : FrameStacks]
    \cup [kind : {"server"}, client : Clients, source : Servers \cup {Own},
          stack : FrameStacks]
    \cup [kind : {"end"}, client : Clients, stack : FrameStacks]

(* Every variable stays in its domain: no call addresses a structure that  *)
(* SifBindRpc or SifRegisterRpc has not given it.                          *)
TypeOK ==
    /\ alive \in [All -> BOOLEAN]
    /\ frames \in [All -> Seq(Frame)]
    /\ exitHandlers \in [All -> Seq(Handlers)]
    /\ owed \in [All -> Seq(Handlers)]
    /\ bound \in [Clients -> Sids \cup {None}]
    /\ busy \in [Clients -> BOOLEAN]
    /\ server \in [Clients -> Servers \cup {None, Placeholder}]
    /\ registered \in [Sids -> Servers \cup {None, Placeholder}]
    /\ buffer \in [Servers -> Clients \cup {None}]
    /\ overlapped \subseteq Clients /\ misled \subseteq Clients
    /\ abandoned \subseteq Clients

(* SifCheckStatRpc tells the truth: a client is busy exactly while the     *)
(* function of its server or its end function has not returned, however    *)
(* the frames of several threads are entered and left.  The exception is a *)
(* call whose thread ended first: makeDormant drops the completion, and    *)
(* the client stays busy until it is bound again.                          *)
BusyExact == \A c \in Clients : busy[c] = (Outstanding(c) \/ c \in abandoned)

(* The reply a call brings to a client answers its own request, also if *)
(* its thread was interrupted, its server registered anew, or the function *)
(* called other servers before it returned.  The exception is a call that  *)
(* overlapped with another one of the same server: the server has a single *)
(* buffer, and nothing keeps the second call out of it.                    *)
RepliesMatch == misled = {}

(* A thread that leaves by ExitThread runs the exit handlers it has        *)
(* registered, each once and in the order of registration, and the last of *)
(* them ends it, whatever interrupts them or is called by them: the one    *)
(* that runs is the first of those owed, and it ends the thread exactly if *)
(* it is the only one.  A handler that itself leaves by ExitThread gives   *)
(* up those behind it.                                                     *)
ExitHandlersInOrder ==
    \A t \in All :
        /\ frames[t] # <<>> /\ Top(t).kind = "exit"
              => /\ owed[t] # <<>> /\ Top(t).function = Head(owed[t])
                 /\ Top(t).rest = 0 <=> Len(owed[t]) = 1
        /\ ~alive[t] => owed[t] = <<>>

\* An exit handler waits for those above it that belong to the same exit.
Begun(t, i) ==
    i < Len(frames[t]) =>
        ~(frames[t][i + 1].kind = "exit" /\ frames[t][i + 1].rest > 0)

(* Two functions of a thread that have both begun never use the same       *)
(* stack area: invocationStackTop hands areas out by depth and frames are  *)
(* put and taken in that order.  Interrupt handlers that bring the stack   *)
(* of their registration are excepted.                                     *)
StacksApart ==
    \A t \in All : \A i, j \in DOMAIN frames[t] :
        /\ i # j /\ frames[t][i].stack # Own
        /\ Begun(t, i) /\ Begun(t, j)
        => frames[t][i].stack # frames[t][j].stack
=============================================================================
