---------------------------- MODULE FrameSampling ----------------------------
(***************************************************************************)
(* How src/src/profiler.cc catches the frame an experiment is run on: the  *)
(* handler's sampling branch, the two spin locks it takes, the agent's     *)
(* cycle of copying, choosing and clearing frames, the set of in-scope     *)
(* methods that class-prepare callbacks fill, and the life of the line     *)
(* ranges the handler reads during an experiment.                          *)
(*                                                                         *)
(* in_scope_lock holds the id of its owner, so that a handler running on   *)
(* top of its own thread's addInScopeMethods finds the lock its own and    *)
(* neither takes nor releases it.  frame_lock has no owner: nobody who     *)
(* holds it is ever interrupted by a SIGPROF of his own.                   *)
(*                                                                         *)
(* Next to a definition stands, where its name says so, the same with a    *)
(* plausible mistake in it (Anywhere, Nothing, Releasing, Keeping,         *)
(* Anything, NoSleep, Unlocked, Untested); none of them is used here.      *)
(***************************************************************************)
EXTENDS Integers, Sequences

CONSTANTS
    Threads,     \* the user threads
    Methods,     \* method ids
    LineTables,  \* the methods whose line-number table GetLineNumberTable returns
    Classes,     \* allowed classes, each the set of its methods
    Traces,      \* stacks AsyncGetCallTrace may return, as sequences of methods
    Slots,       \* NUM_STATIC_CALL_FRAMES
    Grace,       \* TRUE: no handler outlives the millisecond the agent sleeps for it
    Free,        \* the value of in_scope_lock when nobody holds it
    Null         \* the method id of a frame cleared by memset

ASSUME ConstantsAssumption ==
    /\ LineTables \subseteq Methods
    /\ Classes \subseteq SUBSET Methods
    /\ Traces \subseteq Seq(Methods)
    /\ Slots \in Nat \ {0}
    /\ Grace \in BOOLEAN
    /\ Free \notin Threads
    /\ Null \notin Methods

VARIABLES
    agent_pc,            \* where the agent thread is
    running,             \* Profiler::_running
    in_experiment,       \* Profiler::in_experiment
    call_frames,         \* the agent's copy of the frames, as a set
    method_id,           \* current_experiment.method_id
    ranges,              \* current_experiment.location_ranges: "none", "live" or "freed"
    frame_lock,          \* Profiler::frame_lock
    call_index,          \* call_index, saturating above Slots
    static_call_frames,  \* static_call_frames, a method id per slot
    in_scope_lock,       \* Profiler::in_scope_lock
    in_scope_ids,        \* Profiler::in_scope_ids
    thread_pc,           \* where each user thread is in its own code
    adding,              \* the methods its addInScopeMethods has still to insert
    pending,             \* threads with a SIGPROF on its way
    handler_pc,          \* where its handler is
    trace,               \* the handler's stack, then the one frame it caught
    has_lock,            \* the handler's has_lock
    index                \* the handler's index into static_call_frames

agentVars  == <<agent_pc, running, in_experiment, call_frames, method_id, ranges>>
frameVars  == <<frame_lock, call_index, static_call_frames>>
scopeVars  == <<in_scope_lock, in_scope_ids>>
threadVars == <<thread_pc, adding>>
handlerVars == <<handler_pc, trace, has_lock, index>>
vars == <<agentVars, frameVars, scopeVars, threadVars, pending, handlerVars>>

AgentPCs == {"loop", "sampled", "copy", "copied", "choose", "resetAgain", "begin",
             "experiment", "endSignal", "delete", "lockToClear", "clear", "done"}
ThreadPCs == {"java", "lockToAdd", "add", "clear", "stopped"}
HandlerPCs == {"idle", "lockScope", "scan", "lockFrame", "claim", "store", "leave", "match"}

SlotIds == 0..(Slots - 1)

Init ==
    /\ agent_pc = "loop" /\ running = TRUE /\ in_experiment = FALSE
    /\ call_frames = {} /\ method_id = Null /\ ranges = "none"
    /\ frame_lock = FALSE /\ call_index = 0
    /\ static_call_frames = [i \in SlotIds |-> Null]
    /\ in_scope_lock = Free /\ in_scope_ids = {}
    /\ thread_pc = [t \in Threads |-> "java"]
    /\ adding = [t \in Threads |-> {}]
    /\ pending = {}
    /\ handler_pc = [t \in Threads |-> "idle"]
    /\ trace = [t \in Threads |-> <<>>]
    /\ has_lock = [t \in Threads |-> FALSE]
    /\ index = [t \in Threads |-> 0]

-----------------------------------------------------------------------------
(* The agent thread *)

AgentGoto(from, to) == agent_pc = from /\ agent_pc' = to

\* What the agent's sleep of SIGNAL_FREQ is for: handlers signalled before it are
\* over after it.  Nothing but time ensures it, hence the constant.
NoSleep == TRUE
HandlersOver == Grace => pending = {} /\ \A t \in Threads : handler_pc[t] = "idle"

AgentLoop ==
    /\ ~running
    /\ AgentGoto("loop", "done")
    /\ UNCHANGED <<running, in_experiment, call_frames, method_id, ranges,
                   frameVars, scopeVars, threadVars, pending, handlerVars>>

\* A round of the sampling loop: every user thread is signalled.
SampleRound ==
    /\ agent_pc = "sampled" \/ (agent_pc = "loop" /\ running)
    /\ agent_pc' = "sampled"
    /\ pending' = Threads
    /\ UNCHANGED <<running, in_experiment, call_frames, method_id, ranges,
                   frameVars, scopeVars, threadVars, handlerVars>>

AgentCopyUnlocked ==
    /\ AgentGoto("sampled", "copy")
    /\ frame_lock' = TRUE
    /\ UNCHANGED <<running, in_experiment, call_frames, method_id, ranges, call_index,
                   static_call_frames, scopeVars, threadVars, pending, handlerVars>>

AgentLockToCopy ==
    /\ AgentGoto("sampled", "copy")
    /\ frame_lock = FALSE /\ frame_lock' = TRUE
    /\ UNCHANGED <<running, in_experiment, call_frames, method_id, ranges, call_index,
                   static_call_frames, scopeVars, threadVars, pending, handlerVars>>

\* The filled slots are copied and the lock is released.
CopyFrames ==
    /\ AgentGoto("copy", "copied")
    /\ call_frames' = {static_call_frames[i] : i \in {j \in SlotIds : j < call_index}}
    /\ frame_lock' = FALSE
    /\ UNCHANGED <<running, in_experiment, method_id, ranges, call_index,
                   static_call_frames, scopeVars, threadVars, pending, handlerVars>>

\* Nothing was caught: back to sampling.  Otherwise the index is reset, unlocked.
ResetIndex ==
    /\ agent_pc = "copied"
    /\ agent_pc' = IF call_frames = {} THEN "loop" ELSE "choose"
    /\ call_index' = IF call_frames = {} THEN call_index ELSE 0
    /\ UNCHANGED <<running, in_experiment, call_frames, method_id, ranges, frame_lock,
                   static_call_frames, scopeVars, threadVars, pending, handlerVars>>

\* The frames are tried in random order until one has a line-number table.
ChooseAnything ==
    /\ AgentGoto("choose", "resetAgain")
    /\ method_id' \in call_frames
    /\ ranges' = "live"
    /\ UNCHANGED <<running, in_experiment, call_frames,
                   frameVars, scopeVars, threadVars, pending, handlerVars>>

ChooseFrame ==
    /\ AgentGoto("choose", "resetAgain")
    /\ method_id' \in call_frames \cap LineTables
    /\ ranges' = "live"
    /\ UNCHANGED <<running, in_experiment, call_frames,
                   frameVars, scopeVars, threadVars, pending, handlerVars>>

NoLineTable ==
    /\ AgentGoto("choose", "loop")
    /\ call_frames \cap LineTables = {}
    /\ call_frames' = {}
    /\ UNCHANGED <<running, in_experiment, method_id, ranges,
                   frameVars, scopeVars, threadVars, pending, handlerVars>>

ResetIndexAgain ==
    /\ AgentGoto("resetAgain", "begin")
    /\ call_index' = 0
    /\ UNCHANGED <<running, in_experiment, call_frames, method_id, ranges, frame_lock,
                   static_call_frames, scopeVars, threadVars, pending, handlerVars>>

BeginExperiment ==
    /\ AgentGoto("begin", "experiment")
    /\ in_experiment' = TRUE
    /\ UNCHANGED <<running, call_frames, method_id, ranges,
                   frameVars, scopeVars, threadVars, pending, handlerVars>>

ExperimentRound ==
    /\ agent_pc = "experiment"
    /\ pending' = Threads
    /\ UNCHANGED <<agentVars, frameVars, scopeVars, threadVars, handlerVars>>

EndExperiment ==
    /\ AgentGoto("experiment", "endSignal")
    /\ HandlersOver
    /\ in_experiment' = FALSE
    /\ UNCHANGED <<running, call_frames, method_id, ranges,
                   frameVars, scopeVars, threadVars, pending, handlerVars>>

EndSignal ==
    /\ AgentGoto("endSignal", "delete")
    /\ pending' = Threads
    /\ UNCHANGED <<running, in_experiment, call_frames, method_id, ranges,
                   frameVars, scopeVars, threadVars, handlerVars>>

\* After another sleep the ranges are deleted, unless the sample turns out bad;
\* then they are never deleted.  The copied frames go too.
DeleteRanges ==
    /\ AgentGoto("delete", "lockToClear")
    /\ HandlersOver
    /\ \/ ranges' = "freed"
       \/ running /\ ranges' = "none"
    /\ call_frames' = {}
    /\ UNCHANGED <<running, in_experiment, method_id,
                   frameVars, scopeVars, threadVars, pending, handlerVars>>

AgentLockToClear ==
    /\ AgentGoto("lockToClear", "clear")
    /\ frame_lock = FALSE /\ frame_lock' = TRUE
    /\ UNCHANGED <<running, in_experiment, call_frames, method_id, ranges, call_index,
                   static_call_frames, scopeVars, threadVars, pending, handlerVars>>

\* memset and release; call_index stays.
ClearFrames ==
    /\ AgentGoto("clear", "loop")
    /\ static_call_frames' = [i \in SlotIds |-> Null]
    /\ frame_lock' = FALSE
    /\ UNCHANGED <<running, in_experiment, call_frames, method_id, ranges, call_index,
                   scopeVars, threadVars, pending, handlerVars>>

AgentNext ==
    \/ AgentLoop \/ SampleRound \/ AgentLockToCopy \/ CopyFrames
    \/ ResetIndex \/ ChooseFrame \/ NoLineTable \/ ResetIndexAgain
    \/ BeginExperiment \/ ExperimentRound \/ EndExperiment \/ EndSignal
    \/ DeleteRanges \/ AgentLockToClear \/ ClearFrames

-----------------------------------------------------------------------------
(* The SIGPROF handler of a user thread *)

HandlerGoto(t, from, to) == handler_pc[t] = from /\ handler_pc' = [handler_pc EXCEPT ![t] = to]

\* Is the handler running on top of its own thread's critical section?
OwnsNothing(t) == FALSE
OwnsScopeLock(t) == in_scope_lock = t

\* The handler walks the stack and reads in_experiment.
Deliver(t) ==
    /\ t \in pending /\ pending' = pending \ {t}
    /\ trace' \in {[trace EXCEPT ![t] = s] : s \in Traces}
    /\ has_lock' = [has_lock EXCEPT ![t] = ~in_experiment /\ OwnsScopeLock(t)]
    /\ HandlerGoto(t, "idle", IF in_experiment THEN "match"
                              ELSE IF OwnsScopeLock(t) THEN "scan" ELSE "lockScope")
    /\ UNCHANGED <<agentVars, frameVars, scopeVars, threadVars, index>>

\* The experiment branch compares the frames with current_experiment's method and
\* location_ranges (what it charges: module ExperimentProtocol).
Match(t) ==
    /\ HandlerGoto(t, "match", "idle")
    /\ trace' = [trace EXCEPT ![t] = <<>>]
    /\ UNCHANGED <<agentVars, frameVars, scopeVars, threadVars, pending, has_lock, index>>

LockScope(t) ==
    /\ HandlerGoto(t, "lockScope", "scan")
    /\ in_scope_lock = Free /\ in_scope_lock' = t
    /\ UNCHANGED <<agentVars, frameVars, in_scope_ids, threadVars, pending, trace, has_lock, index>>

\* frameInScope left out: the innermost frame is caught, whatever it is.
ScopeSeenUntested(t) == {Methods}

\* The sets of methods a scan may find in in_scope_ids.  On top of its own thread's
\* insertion or clearing it reads a hash table in the middle of a change.
ScopeSeen(t) ==
    IF has_lock[t] THEN SUBSET (in_scope_ids \cup adding[t]) ELSE {in_scope_ids}

\* The innermost frame in scope is the one caught, if there is one.
Scan(t) ==
    /\ \E scope \in ScopeSeen(t) :
          \/ /\ \E i \in DOMAIN trace[t] :
                   /\ trace[t][i] \in scope
                   /\ \A j \in 1..(i - 1) : trace[t][j] \notin scope
                   /\ trace' = [trace EXCEPT ![t] = <<trace[t][i]>>]
             /\ HandlerGoto(t, "scan", "lockFrame")
          \/ /\ \A i \in DOMAIN trace[t] : trace[t][i] \notin scope
             /\ HandlerGoto(t, "scan", "leave")
             /\ trace' = [trace EXCEPT ![t] = <<>>]
    /\ UNCHANGED <<agentVars, frameVars, scopeVars, threadVars, pending, has_lock, index>>

LockFrame(t) ==
    /\ HandlerGoto(t, "lockFrame", "claim")
    /\ frame_lock = FALSE /\ frame_lock' = TRUE
    /\ UNCHANGED <<agentVars, call_index, static_call_frames, scopeVars, threadVars, pending,
                   trace, has_lock, index>>

\* call_index.fetch_add(1), saturating: above Slots only "too large" matters.
ClaimIndex(t) ==
    /\ HandlerGoto(t, "claim", "store")
    /\ index' = [index EXCEPT ![t] = call_index]
    /\ call_index' = IF call_index > Slots THEN call_index ELSE call_index + 1
    /\ UNCHANGED <<agentVars, frame_lock, static_call_frames, scopeVars, threadVars, pending,
                   trace, has_lock>>

\* static_call_frames with frame f in slot i, if there is such a slot.
StoredAnywhere(i, f) ==
    [j \in SlotIds \cup {i} |-> IF j = i THEN f ELSE static_call_frames[j]]
Stored(i, f) ==
    IF i < Slots THEN [static_call_frames EXCEPT ![i] = f] ELSE static_call_frames

\* The frame goes into its slot, if there is one, and the frame lock is released.
StoreFrame(t) ==
    /\ HandlerGoto(t, "store", "leave")
    /\ static_call_frames' = Stored(index[t], Head(trace[t]))
    /\ frame_lock' = FALSE
    /\ trace' = [trace EXCEPT ![t] = <<>>] /\ index' = [index EXCEPT ![t] = 0]
    /\ UNCHANGED <<agentVars, call_index, scopeVars, threadVars, pending, has_lock>>

\* The scope lock is released by the handler that took it, not by one that found it.
LeaveReleasing(t) ==
    /\ HandlerGoto(t, "leave", "idle")
    /\ in_scope_lock' = Free
    /\ has_lock' = [has_lock EXCEPT ![t] = FALSE]
    /\ UNCHANGED <<agentVars, frameVars, in_scope_ids, threadVars, pending, trace, index>>

LeaveKeeping(t) ==
    /\ HandlerGoto(t, "leave", "idle")
    /\ has_lock' = [has_lock EXCEPT ![t] = FALSE]
    /\ UNCHANGED <<agentVars, frameVars, scopeVars, threadVars, pending, trace, index>>

Leave(t) ==
    /\ HandlerGoto(t, "leave", "idle")
    /\ in_scope_lock' = IF has_lock[t] THEN in_scope_lock ELSE Free
    /\ has_lock' = [has_lock EXCEPT ![t] = FALSE]
    /\ UNCHANGED <<agentVars, frameVars, in_scope_ids, threadVars, pending, trace, index>>

HandlerStep(t) ==
    \/ Match(t) \/ LockScope(t) \/ Scan(t)
    \/ LockFrame(t) \/ ClaimIndex(t) \/ StoreFrame(t) \/ Leave(t)

Handler(t) == Deliver(t) \/ HandlerStep(t)

-----------------------------------------------------------------------------
(* The user thread itself: class-prepare callbacks, and Stop *)

\* A thread runs its own code only while its handler does not.
ThreadGoto(t, from, to) ==
    /\ handler_pc[t] = "idle"
    /\ thread_pc[t] = from /\ thread_pc' = [thread_pc EXCEPT ![t] = to]

\* A class in scope is prepared: addInScopeMethods is called with its methods.
ClassPrepare(t) ==
    /\ ThreadGoto(t, "java", "lockToAdd")
    /\ running
    /\ \E class \in Classes : adding' = [adding EXCEPT ![t] = class]
    /\ UNCHANGED <<agentVars, frameVars, scopeVars, pending, handlerVars>>

LockToAdd(t) ==
    /\ ThreadGoto(t, "lockToAdd", "add")
    /\ in_scope_lock = Free /\ in_scope_lock' = t
    /\ UNCHANGED <<agentVars, frameVars, in_scope_ids, adding, pending, handlerVars>>

AddMethod(t) ==
    /\ ThreadGoto(t, "add", "add")
    /\ \E m \in adding[t] :
          /\ in_scope_ids' = in_scope_ids \cup {m}
          /\ adding' = [adding EXCEPT ![t] = @ \ {m}]
    /\ UNCHANGED <<agentVars, frameVars, in_scope_lock, pending, handlerVars>>

UnlockAdd(t) ==
    /\ ThreadGoto(t, "add", "java")
    /\ adding[t] = {}
    /\ in_scope_lock' = Free
    /\ UNCHANGED <<agentVars, frameVars, in_scope_ids, adding, pending, handlerVars>>

\* Stop, on whichever thread the VM dies: once the agent is done, the scope is cleared.
LockToClear(t) ==
    /\ ThreadGoto(t, "java", "clear")
    /\ agent_pc = "done"
    /\ \A u \in Threads : thread_pc[u] \notin {"clear", "stopped"}
    /\ in_scope_lock = Free /\ in_scope_lock' = t
    /\ UNCHANGED <<agentVars, frameVars, in_scope_ids, adding, pending, handlerVars>>

ClearScope(t) ==
    /\ ThreadGoto(t, "clear", "stopped")
    /\ in_scope_ids' = {}
    /\ in_scope_lock' = Free
    /\ UNCHANGED <<agentVars, frameVars, adding, pending, handlerVars>>

ThreadCode(t) ==
    \/ ClassPrepare(t) \/ LockToAdd(t) \/ AddMethod(t) \/ UnlockAdd(t)
    \/ LockToClear(t) \/ ClearScope(t)

StopRunning ==
    /\ running /\ running' = FALSE
    /\ UNCHANGED <<agent_pc, in_experiment, call_frames, method_id, ranges,
                   frameVars, scopeVars, threadVars, pending, handlerVars>>

-----------------------------------------------------------------------------

Next == AgentNext \/ StopRunning \/ \E t \in Threads : Handler(t) \/ ThreadCode(t)

Spec == Init /\ [][Next]_vars

\* Every thread keeps being scheduled, in its handler and between two signals, and
\* no spinning thread loses the race for a lock for ever: the locks are held for
\* microseconds, the signals and the agent's cycles come milliseconds apart.
Fairness ==
    /\ WF_vars(CopyFrames \/ ClearFrames)
    /\ \A t \in Threads :
          /\ SF_vars(HandlerStep(t))
          /\ SF_vars(LockToAdd(t) \/ AddMethod(t) \/ UnlockAdd(t) \/ ClearScope(t))

FairSpec == Spec /\ Fairness

-----------------------------------------------------------------------------
(* Properties *)

TypeOK ==
    /\ agent_pc \in AgentPCs
    /\ running \in BOOLEAN /\ in_experiment \in BOOLEAN
    /\ call_frames \subseteq Methods \cup {Null} /\ method_id \in Methods \cup {Null}
    /\ ranges \in {"none", "live", "freed"}
    /\ frame_lock \in BOOLEAN /\ call_index \in 0..(Slots + 1)
    /\ static_call_frames \in [SlotIds -> Methods \cup {Null}]
    /\ in_scope_lock \in Threads \cup {Free} /\ in_scope_ids \subseteq Methods
    /\ thread_pc \in [Threads -> ThreadPCs]
    /\ adding \in [Threads -> SUBSET Methods]
    /\ pending \subseteq Threads
    /\ handler_pc \in [Threads -> HandlerPCs]
    /\ trace \in [Threads -> Seq(Methods)]
    /\ has_lock \in [Threads -> BOOLEAN]
    /\ index \in [Threads -> 0..(Slots + 1)]

AgentInFrames == agent_pc \in {"copy", "clear"}
HandlerInFrames(t) == handler_pc[t] \in {"claim", "store"}

\* Nobody copies, clears or stores frames while somebody else does, although
\* call_index is reset without the lock and handlers interrupt their threads anywhere.
FrameLockExclusive ==
    /\ \A t, u \in Threads : HandlerInFrames(t) /\ HandlerInFrames(u) => t = u
    /\ AgentInFrames => \A t \in Threads : ~HandlerInFrames(t)

HandlerInScope(t) == handler_pc[t] \in {"scan", "lockFrame", "claim", "store", "leave"}
ThreadInScope(t) == thread_pc[t] \in {"add", "clear"}

\* A thread that reads or changes in_scope_ids owns the lock all the time, also
\* while its own handler runs on top of it and leaves again: so the only change a
\* scan can meet half done is one of the very thread it interrupts.
ScopeLockHeld ==
    \A t \in Threads : HandlerInScope(t) \/ ThreadInScope(t) => in_scope_lock = t

\* The thread's own critical section, and its handler's on top of it.
Depth(t) == (IF ThreadInScope(t) THEN 1 ELSE 0) + (IF HandlerInScope(t) THEN 1 ELSE 0)

ScopeLock == INSTANCE ReentrantLock WITH owner <- in_scope_lock,
                                         depth <- [t \in Threads |-> Depth(t)]

\* in_scope_lock and has_lock, one a plain spin lock and the other a handler's local
\* variable, make a reentrant lock: a handler enters the critical section its own
\* thread is in, and the lock stays taken until both have left.
ImplementsReentrantLock == ScopeLock!LockSpec

\* The handler reads location_ranges only between their allocation and deletion,
\* if the agent's sleeps outlast the handlers.
RangesLiveWhileMatched ==
    Grace => \A t \in Threads : handler_pc[t] = "match" => ranges = "live"

\* The methods of the classes in scope that have been prepared, or are just now.
PreparedMethods == in_scope_ids \cup UNION {adding[t] : t \in Threads}

\* An experiment is run on a method with line numbers of a prepared class in scope,
\* although the stacks also have others, the scope may be read in the middle of an
\* insertion, and the agent may copy slots that are cleared or filled by an earlier
\* round.
ExperimentMethodAllowed ==
    agent_pc \in {"resetAgain", "begin", "experiment", "endSignal"} =>
        method_id \in LineTables \cap PreparedMethods

\* A signal handler always comes back, whatever its thread was doing when it was
\* interrupted, and whoever holds the locks.
HandlerReturns == \A t \in Threads : (handler_pc[t] # "idle") ~> (handler_pc[t] = "idle")

\* profiler.cc:509-514: between copying and clearing nothing needs the lock.  If that
\* were so, the agent would only ever copy frames that a handler stored.
OnlyStoredFramesCopied == agent_pc = "copied" => Null \notin call_frames

=============================================================================
