--------------------------- MODULE ThreadRegistry ---------------------------
(***************************************************************************)
(* Who is signalled, and what a signal finds: Profiler::user_threads with  *)
(* its spin lock, the thread-local curr_ut, and the life of a UserThread   *)
(* record from OnThreadStart (src/src/entry.cc, src/src/profiler.cc:       *)
(* addUserThread) to OnThreadEnd (removeUserThread), against the agent     *)
(* thread, which goes through the set with pthread_kill, and against the   *)
(* handlers it causes, which read the record through curr_ut.              *)
(*                                                                         *)
(* Whether thread_in_main says yes depends on the thread's group and on    *)
(* the VM's phase, and is a free choice.  What the callbacks and the       *)
(* handler do to delays and hits is in module ExperimentProtocol.          *)
(*                                                                         *)
(* Next to a definition stands, where its name says so, the same with a    *)
(* plausible mistake in it (Unlocked, Always, Registered, Keeping,         *)
(* Staying); none of them is used here.                                    *)
(***************************************************************************)
EXTENDS Naturals

CONSTANTS
    Threads,     \* native threads of the program, attached to the VM or not
    Agent,       \* the thread RunAgentThread starts
    None,        \* nobody holds the lock
    MaxStarts    \* bound: how often one thread attaches

ASSUME ConstantsAssumption ==
    /\ Agent \notin Threads /\ None \notin Threads \cup {Agent}
    /\ MaxStarts \in Nat

JavaThreads == Threads \cup {Agent}

VARIABLES
    thread_pc,         \* where each thread is in its own code
    starts,            \* how often it has attached, bounds the run
    jni_env,           \* threads whose Accessors::env_ is set
    curr_ut,           \* what the thread-local curr_ut points to
    user_threads,      \* Profiler::user_threads, a record by its thread
    user_threads_lock, \* Profiler::user_threads_lock, with its holder
    agent_pc,          \* where the agent thread is in runAgentThread
    to_signal,         \* what its iteration over user_threads has still to visit
    prof_ready,        \* Profiler::prof_ready
    pending,           \* threads with a SIGPROF on its way
    handling,          \* threads in Handle, past its first two tests
    late,              \* history: threads whose signal was still on its way, or is now
                       \* handled, when they have already deleted their record
    stop_pc,           \* where the VM-death callback is in Stop
    exited             \* exit(1) was called

threadVars == <<thread_pc, starts, jni_env, curr_ut>>
setVars    == <<user_threads, user_threads_lock>>
agentVars  == <<agent_pc, to_signal, prof_ready>>
signalVars == <<pending, handling, late>>
endVars    == <<stop_pc, exited>>
vars == <<threadVars, setVars, agentVars, signalVars, endVars>>

ThreadPCs == {"detached", "insert", "inserting", "java", "hit",
              "erase", "erasing", "delete", "gone"}
AgentPCs == {"start", "self", "warmup", "loop", "kill", "done"}

Init ==
    /\ thread_pc = [t \in JavaThreads |-> "detached"]
    /\ starts = [t \in JavaThreads |-> 0]
    /\ jni_env = {}
    /\ curr_ut = [t \in JavaThreads |-> "null"]
    /\ user_threads = {} /\ user_threads_lock = None
    /\ agent_pc = "start" /\ to_signal = {} /\ prof_ready = FALSE
    /\ pending = {} /\ handling = {} /\ late = {}
    /\ stop_pc = "vm" /\ exited = FALSE

-----------------------------------------------------------------------------
(* A thread's own code, which runs only while its handler does not *)

ThreadGoto(t, from, to) ==
    /\ t \notin handling
    /\ thread_pc[t] = from /\ thread_pc' = [thread_pc EXCEPT ![t] = to]

TakeUnlocked(t) == user_threads_lock' = t
Take(t) == user_threads_lock = None /\ user_threads_lock' = t

\* OnThreadStart: the JNI environment, then addUserThread's record, if thread_in_main
\* says that there is one to be made.
OnThreadStartAlways(t) ==
    /\ starts[t] < (IF t = Agent THEN 1 ELSE MaxStarts)
    /\ starts' = [starts EXCEPT ![t] = @ + 1]
    /\ jni_env' = jni_env \cup {t}
    /\ ThreadGoto(t, "detached", "insert")
    /\ \E record \in {"live", "null"} : curr_ut' = [curr_ut EXCEPT ![t] = record]
    /\ UNCHANGED <<setVars, agentVars, signalVars, endVars>>

OnThreadStart(t) ==
    /\ starts[t] < (IF t = Agent THEN 1 ELSE MaxStarts)
    /\ starts' = [starts EXCEPT ![t] = @ + 1]
    /\ jni_env' = jni_env \cup {t}
    /\ \/ /\ ThreadGoto(t, "detached", "insert")
          /\ curr_ut' = [curr_ut EXCEPT ![t] = "live"]
       \/ /\ ThreadGoto(t, "detached", "java")
          /\ curr_ut' = [curr_ut EXCEPT ![t] = "null"]
    /\ UNCHANGED <<setVars, agentVars, signalVars, endVars>>

\* GetThreadInfo or GetThreadGroupInfo fails, and not for the phase.
ThreadInfoFails(t) ==
    /\ thread_pc[t] = "detached" /\ starts[t] < MaxStarts
    /\ exited' = TRUE
    /\ UNCHANGED <<threadVars, setVars, agentVars, signalVars, stop_pc>>

LockToInsert(t) ==
    /\ ThreadGoto(t, "insert", "inserting")
    /\ Take(t)
    /\ UNCHANGED <<starts, jni_env, curr_ut, user_threads, agentVars, signalVars, endVars>>

Insert(t) ==
    /\ ThreadGoto(t, "inserting", "java")
    /\ user_threads' = user_threads \cup {t} /\ user_threads_lock' = None
    /\ UNCHANGED <<starts, jni_env, curr_ut, agentVars, signalVars, endVars>>

\* HandleBreakpoint, and back: it goes through curr_ut.
Breakpoint(t) ==
    /\ ThreadGoto(t, "java", "hit") \/ ThreadGoto(t, "hit", "java")
    /\ t # Agent
    /\ UNCHANGED <<starts, jni_env, curr_ut, setVars, agentVars, signalVars, endVars>>

\* OnThreadEnd, for the agent thread when runAgentThread has returned: there is
\* something to remove if curr_ut is set.
OnThreadEndRegistered(t) ==
    /\ ThreadGoto(t, "java", IF curr_ut[t] # "null" THEN "delete" ELSE "detached")
    /\ t = Agent => agent_pc = "done"
    /\ UNCHANGED <<starts, jni_env, curr_ut, setVars, agentVars, signalVars, endVars>>

OnThreadEnd(t) ==
    /\ ThreadGoto(t, "java", IF curr_ut[t] # "null" THEN "erase" ELSE "detached")
    /\ t = Agent => agent_pc = "done"
    /\ UNCHANGED <<starts, jni_env, curr_ut, setVars, agentVars, signalVars, endVars>>

LockToErase(t) ==
    /\ ThreadGoto(t, "erase", "erasing")
    /\ Take(t)
    /\ UNCHANGED <<starts, jni_env, curr_ut, user_threads, agentVars, signalVars, endVars>>

EraseKeeping(t) ==
    /\ ThreadGoto(t, "erasing", "delete")
    /\ user_threads' = user_threads \ {t}
    /\ UNCHANGED <<starts, jni_env, curr_ut, user_threads_lock, agentVars, signalVars, endVars>>

Erase(t) ==
    /\ ThreadGoto(t, "erasing", "delete")
    /\ user_threads' = user_threads \ {t} /\ user_threads_lock' = None
    /\ UNCHANGED <<starts, jni_env, curr_ut, agentVars, signalVars, endVars>>

\* The record is deleted; curr_ut still points to it.  Nothing waits for a signal that
\* was sent while the record was registered.
Delete(t) ==
    /\ ThreadGoto(t, "delete", "detached")
    /\ curr_ut' = [curr_ut EXCEPT ![t] = "deleted"]
    /\ late' = late \cup (pending \cap {t})
    /\ UNCHANGED <<starts, jni_env, setVars, agentVars, pending, handling, endVars>>

\* The native thread ends, with whatever was on its way to it.
Exit(t) ==
    /\ ThreadGoto(t, "detached", "gone")
    /\ starts[t] > 0
    /\ pending' = pending \ {t} /\ late' = late \ {t}
    /\ UNCHANGED <<starts, jni_env, curr_ut, setVars, agentVars, handling, endVars>>

InCallback(t) ==
    LockToInsert(t) \/ Insert(t) \/ LockToErase(t) \/ Erase(t) \/ Delete(t)

ThreadCode(t) ==
    \/ OnThreadStart(t) \/ ThreadInfoFails(t) \/ Breakpoint(t) \/ OnThreadEnd(t)
    \/ InCallback(t) \/ Exit(t)

-----------------------------------------------------------------------------
(* The agent thread *)

AgentGoto(from, to) ==
    /\ thread_pc[Agent] = "java"
    /\ agent_pc = from /\ agent_pc' = to

LockToEraseSelf ==
    /\ AgentGoto("start", "self")
    /\ Take(Agent)
    /\ UNCHANGED <<threadVars, user_threads, to_signal, prof_ready, signalVars, endVars>>

\* The agent thread takes itself out of user_threads; its record is never deleted.
EraseSelfStaying ==
    /\ AgentGoto("self", "warmup")
    /\ user_threads_lock' = None
    /\ curr_ut' = [curr_ut EXCEPT ![Agent] = "null"]
    /\ UNCHANGED <<thread_pc, starts, jni_env, user_threads, to_signal, prof_ready, signalVars,
                   endVars>>

EraseSelf ==
    /\ AgentGoto("self", "warmup")
    /\ user_threads' = user_threads \ {Agent} /\ user_threads_lock' = None
    /\ curr_ut' = [curr_ut EXCEPT ![Agent] = "null"]
    /\ UNCHANGED <<thread_pc, starts, jni_env, to_signal, prof_ready, signalVars, endVars>>

GetReady ==
    /\ AgentGoto("warmup", "loop")
    /\ prof_ready' = TRUE
    /\ UNCHANGED <<threadVars, setVars, to_signal, signalVars, endVars>>

\* signal_user_threads: lock, pthread_kill for each record of the set, unlock.
LockToSignal ==
    /\ AgentGoto("loop", "kill")
    /\ Take(Agent)
    /\ to_signal' = user_threads
    /\ UNCHANGED <<threadVars, user_threads, prof_ready, signalVars, endVars>>

Kill(t) ==
    /\ AgentGoto("kill", "kill")
    /\ t \in to_signal /\ to_signal' = to_signal \ {t}
    /\ pending' = pending \cup {t} /\ late' = late \ {t}
    /\ UNCHANGED <<threadVars, setVars, prof_ready, handling, endVars>>

UnlockSignal ==
    /\ AgentGoto("kill", "loop")
    /\ to_signal = {}
    /\ user_threads_lock' = None
    /\ UNCHANGED <<threadVars, user_threads, to_signal, prof_ready, signalVars, endVars>>

AgentDone ==
    /\ AgentGoto("loop", "done")
    /\ stop_pc # "vm"
    /\ UNCHANGED <<threadVars, setVars, to_signal, prof_ready, signalVars, endVars>>

AgentCode ==
    \/ LockToEraseSelf \/ EraseSelf \/ GetReady \/ LockToSignal
    \/ (\E t \in JavaThreads : Kill(t)) \/ UnlockSignal \/ AgentDone

-----------------------------------------------------------------------------
(* The SIGPROF handler *)

TakeSignal(t) ==
    /\ t \in pending /\ t \notin handling /\ thread_pc[t] # "gone"
    /\ pending' = pending \ {t}

\* Only when the profiler is ready and the thread has a JNI environment does Handle
\* go on, and then through curr_ut until it returns.
Handle(t) ==
    /\ TakeSignal(t)
    /\ handling' = IF prof_ready /\ t \in jni_env THEN handling \cup {t} ELSE handling
    /\ UNCHANGED <<threadVars, setVars, agentVars, late, endVars>>

HandlerReturns(t) ==
    /\ t \in handling /\ handling' = handling \ {t} /\ late' = late \ {t}
    /\ UNCHANGED <<threadVars, setVars, agentVars, pending, endVars>>

-----------------------------------------------------------------------------
(* Stop: the end of the run, and of SIGPROF *)

StopRunning ==
    /\ stop_pc = "vm" /\ stop_pc' = "waiting"
    /\ UNCHANGED <<threadVars, setVars, agentVars, signalVars, exited>>

IgnoreSignals ==
    /\ stop_pc = "waiting" /\ stop_pc' = "stopped"
    /\ agent_pc = "done"
    /\ pending' = {} /\ late' = late \cap handling
    /\ UNCHANGED <<threadVars, setVars, agentVars, handling, exited>>

Stop == StopRunning \/ IgnoreSignals

-----------------------------------------------------------------------------

Running ==
    \/ AgentCode \/ Stop
    \/ \E t \in JavaThreads : ThreadCode(t) \/ Handle(t) \/ HandlerReturns(t)

Next == ~exited /\ Running

Spec == Init /\ [][Next]_vars

\* Signals arrive and handlers come back (module LockOrder), the agent thread goes
\* through with what it does under the lock, and nobody loses the race for the lock
\* for ever: the agent thread holds it for microseconds and then sleeps for a
\* millisecond, so that a handler that is in its way again and again also returns
\* while the lock is free.
Fairness ==
    /\ WF_vars(~exited /\ (EraseSelf \/ (\E t \in JavaThreads : Kill(t)) \/ UnlockSignal))
    /\ \A t \in JavaThreads :
          /\ WF_vars(~exited /\ (Handle(t) \/ HandlerReturns(t)))
          /\ SF_vars(~exited /\ user_threads_lock = None /\ HandlerReturns(t))
          /\ SF_vars(~exited /\ InCallback(t))

FairSpec == Spec /\ Fairness

-----------------------------------------------------------------------------
(* Properties *)

TypeOK ==
    /\ thread_pc \in [JavaThreads -> ThreadPCs]
    /\ starts \in [JavaThreads -> Nat]
    /\ jni_env \subseteq JavaThreads
    /\ curr_ut \in [JavaThreads -> {"null", "live", "deleted"}]
    /\ user_threads \subseteq JavaThreads
    /\ user_threads_lock \in JavaThreads \cup {None}
    /\ agent_pc \in AgentPCs /\ to_signal \subseteq JavaThreads
    /\ prof_ready \in BOOLEAN /\ exited \in BOOLEAN
    /\ pending \subseteq JavaThreads /\ handling \subseteq JavaThreads
    /\ late \subseteq JavaThreads
    /\ stop_pc \in {"vm", "waiting", "stopped"}

\* Handle reads and writes its thread's record through curr_ut without a test.  A
\* signalled thread has one, wherever it is between OnThreadStart and the end of
\* OnThreadEnd, the first time and when it has attached again, with one exception:
\* the signal was on its way when the thread deleted the record.
HandlerHasRecord == \A t \in handling : curr_ut[t] = "live" \/ t \in late

\* What removeUserThread would have to see to: no handler finds the record it deleted.
\* It does not hold, since nothing waits for the signals on their way at
\* profiler.cc:717.
RecordOutlivesSignals == \A t \in handling : curr_ut[t] = "live"

\* signal_user_threads dereferences every record of the set: none is deleted, and
\* each stands for a thread that pthread_kill may be called for.
RegisteredRecordsLive ==
    \A t \in user_threads :
        curr_ut[t] = "live" /\ thread_pc[t] \notin {"detached", "gone"}

\* The agent thread neither delays nor samples itself: no signal is ever sent to it,
\* although it registers like any thread of the main group.
AgentNeverSignalled == Agent \notin pending \cup handling

\* Nobody changes user_threads while the agent thread goes through it.
IterationUndisturbed == [][agent_pc = "kill" => UNCHANGED user_threads]_vars

\* A thread gets through its callbacks, whoever wants the lock and however often its
\* handler interrupts it, also while it holds the lock itself.
CallbacksEnd ==
    \A t \in JavaThreads :
        thread_pc[t] \in {"insert", "erase"} ~> (thread_pc[t] \in {"java", "detached"} \/ exited)

\* HandleBreakpoint goes through curr_ut without a test, too: a thread that runs the
\* progress point's line would have to be one that was given a record.
BreakpointHasRecord ==
    \A t \in JavaThreads : thread_pc[t] = "hit" => curr_ut[t] = "live"

=============================================================================
