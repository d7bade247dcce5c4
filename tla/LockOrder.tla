------------------------------ MODULE LockOrder ------------------------------
(***************************************************************************)
(* Every lock of the agent at once: its four spin locks, and the two that  *)
(* come with what it calls, the logger's mutex and the heap's.  Each is    *)
(* taken in several callbacks and by the agent thread, and on top of any   *)
(* callback, at any of its steps, a SIGPROF handler may want in_scope_lock *)
(* and frame_lock.  Nothing here but the order of taking and releasing; a  *)
(* piece of code is the sequence of the sets of locks it holds.            *)
(*                                                                         *)
(* Beside a definition may stand the same with a plausible mistake in it   *)
(* (Always, Logging); none of them is used here.                           *)
(***************************************************************************)
EXTENDS Naturals, Sequences

CONSTANTS
    Threads,       \* native threads that run callbacks and are signalled
    Agent,         \* the agent thread
    Duties,        \* which callbacks a thread runs
    LoggingLevel,  \* the least severity that is logged
    SharedHeap,    \* do threads share an arena of the heap, and so its lock?
    UnknownErrors  \* may AsyncGetCallTrace return a number below its error codes?

\* spdlog's severities, and the level above them all.
trace == 0
debug == 1
info  == 2
error == 4
off   == 6

CallbackNames == {"ThreadStart", "ThreadEnd", "ClassPrepare", "VMInit", "VMDeath"}

ASSUME ConstantsAssumption ==
    /\ Agent \notin Threads
    /\ Duties \in [Threads -> SUBSET CallbackNames]
    /\ LoggingLevel \in trace .. off
    /\ SharedHeap \in BOOLEAN /\ UnknownErrors \in BOOLEAN

Actors == Threads \cup {Agent}
Locks == {"class_prep", "user_threads", "logger", "heap", "in_scope", "frame"}

VARIABLES
    code,    \* what each thread's own code holds, now and later on
    handler  \* the same of the handler on top of it

vars == <<code, handler>>

-----------------------------------------------------------------------------
(* Pieces of code: what is held, step after step, up to nothing *)

Nothing == <<>>

Hold(lock, body) ==
    <<{lock}>> \o [i \in 1 .. Len(body) |-> body[i] \cup {lock}] \o <<{}>>

\* spdlog's file sink, in whatever context the agent logs.
Log(severity) == IF severity >= LoggingLevel THEN Hold("logger", Nothing) ELSE Nothing

\* malloc and free, behind new, delete and the containers.
Heap == IF SharedHeap THEN Hold("heap", Nothing) ELSE Nothing

ThreadStart == {
    Log(debug),
    Log(debug) \o Log(debug) \o Heap \o Hold("user_threads", Heap) }

ThreadEnd == {
    Log(debug),
    Log(debug) \o Log(debug) \o Hold("user_threads", Heap) \o Heap }

\* Two methods: the trace line and the insertion are inside of the lock.
AddInScopeMethodsLogging ==
    Hold("in_scope", Log(info) \o Heap)

AddInScopeMethods ==
    Log(debug) \o Hold("in_scope", Log(trace) \o Heap)

ProgressPoint == {
    Nothing,
    Log(info),
    Log(info) \o Log(info) \o Log(debug) \o Log(debug),
    Log(info) \o Log(info) \o Log(debug) \o Log(info) }

ClassPrepared ==
    {Log(error)} \cup
    {Log(debug) \o scope \o Heap \o point :
        scope \in {Nothing, AddInScopeMethods}, point \in ProgressPoint}

ClassPrepare == {
    Log(trace) \o Hold("class_prep", Heap \o Log(trace) \o prepared) :
        prepared \in ClassPrepared }

\* run_profiler is a sequence of these, and of class preparations.
VMInit == {Log(info), Log(debug)} \cup ClassPrepare

\* Stop and what follows it, but for the wait for the agent thread, which holds
\* nothing.  Lines of one severity in a row count as one.
VMDeath == {
    Log(info) \o Log(debug) \o Hold("in_scope", Heap) \o Log(debug) \o Log(info) }

Callback(name) ==
    CASE name = "ThreadStart"  -> ThreadStart
      [] name = "ThreadEnd"    -> ThreadEnd
      [] name = "ClassPrepare" -> ClassPrepare
      [] name = "VMInit"       -> VMInit
      [] name = "VMDeath"      -> VMDeath

\* runAgentThread: leaving user_threads, a sampling signal, and from the copying of
\* the frames to the next round, with an experiment or without.  call_frames has room
\* for all frames from the start.
AgentRound ==
    Hold("frame", Nothing) \o Log(trace)

AgentCode == {
    Hold("user_threads", Heap),
    Log(debug) \o Hold("user_threads", Nothing) \o Log(trace),
    AgentRound \o Log(debug),
    AgentRound \o Log(debug) \o Log(info) \o Hold("user_threads", Nothing) \o Heap
               \o Log(info) \o Log(debug) \o Hold("frame", Nothing) \o Log(trace) }

-----------------------------------------------------------------------------
(* The handler, by what the thread it interrupts holds *)

StoreFrame == {Nothing, Hold("frame", Nothing)}

SamplingAlways(held) == {Hold("in_scope", store) : store \in StoreFrame}

Sampling(held) ==
    IF "in_scope" \in held THEN StoreFrame
    ELSE {Hold("in_scope", store) : store \in StoreFrame}

Handle(held) ==
    {Nothing} \cup Sampling(held) \cup (IF UnknownErrors THEN {Log(debug)} ELSE {})

-----------------------------------------------------------------------------

HeldBy(t) == Head(code[t]) \cup Head(handler[t])

Free(lock) == \A t \in Actors : lock \notin HeldBy(t)

Over(path) == Len(path) = 1

\* What a path takes next.
Wanted(path) == IF Over(path) THEN {} ELSE path[2] \ path[1]

Init ==
    /\ code = [t \in Actors |-> <<{}>>]
    /\ handler = [t \in Actors |-> <<{}>>]

RunCallback(t) ==
    /\ Over(code[t]) /\ Over(handler[t])
    /\ \E name \in Duties[t] : \E path \in Callback(name) :
          code' = [code EXCEPT ![t] = <<{}>> \o path]
    /\ UNCHANGED handler

RunAgent ==
    /\ Over(code[Agent])
    /\ \E path \in AgentCode : code' = [code EXCEPT ![Agent] = <<{}>> \o path]
    /\ UNCHANGED handler

\* One step of a thread's own code, a lock taken or released, while no handler is on
\* top of it.
CodeStep(t) ==
    /\ Over(handler[t]) /\ ~Over(code[t])
    /\ \A lock \in Wanted(code[t]) : Free(lock)
    /\ code' = [code EXCEPT ![t] = Tail(@)]
    /\ UNCHANGED handler

Signal(t) ==
    /\ Over(handler[t])
    /\ \E path \in Handle(Head(code[t])) : handler' = [handler EXCEPT ![t] = <<{}>> \o path]
    /\ UNCHANGED code

HandlerStep(t) ==
    /\ ~Over(handler[t])
    /\ \A lock \in Wanted(handler[t]) : Free(lock)
    /\ handler' = [handler EXCEPT ![t] = Tail(@)]
    /\ UNCHANGED code

Next ==
    \/ RunAgent \/ CodeStep(Agent)
    \/ \E t \in Threads : RunCallback(t) \/ CodeStep(t) \/ Signal(t) \/ HandlerStep(t)

Spec == Init /\ [][Next]_vars

\* Locks are held for microseconds, and signals come milliseconds apart: who wants a
\* lock that is free again and again gets it, and a thread that is interrupted again
\* and again goes on in between.
Fairness ==
    /\ SF_vars(CodeStep(Agent))
    /\ \A t \in Threads : SF_vars(CodeStep(t)) /\ SF_vars(HandlerStep(t))

FairSpec == Spec /\ Fairness

-----------------------------------------------------------------------------
(* Properties *)

\* What keeps a thread from going on: its handler's next lock, if one runs, or its own.
Blocking(t) == IF Over(handler[t]) THEN Wanted(code[t]) ELSE Wanted(handler[t])

WaitsFor(t, u) == Blocking(t) \cap HeldBy(u) # {}

\* No threads wait in a circle, each for a lock that the next one holds; a thread may
\* also wait for itself, if its handler wants what its own code holds.
NoDeadlock ==
    \A group \in (SUBSET Actors) \ {{}} :
        ~ \A t \in group : \E u \in group : WaitsFor(t, u)

\* Handle returns, wherever it interrupted its thread and whatever others hold: the
\* program goes on.
HandlersReturn == \A t \in Threads : ~Over(handler[t]) ~> Over(handler[t])

=============================================================================
