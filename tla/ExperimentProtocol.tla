------------------------- MODULE ExperimentProtocol -------------------------
(***************************************************************************)
(* The virtual-speedup protocol of src/src/profiler.cc.                    *)
(*                                                                         *)
(* The agent thread (runAgentThread, runExperiment) samples, then runs one *)
(* experiment at a time and signals the registered user threads.  A user   *)
(* thread caught by SIGPROF on the chosen line charges itself the delay of *)
(* the experiment; every CheckPeriod-th signal it compares its own charge  *)
(* (local_delay) with the delay everybody has to serve (global_delay), and *)
(* either sleeps off the difference or adds its surplus to global_delay.   *)
(* Breakpoints count progress-point hits per thread; the handler flushes   *)
(* them to the profiler's counter.  Stop ends the run.                     *)
(*                                                                         *)
(* Each access to a variable that another thread writes is a step of its   *)
(* own.  A thread's signal handler (handler_pc) can run between any two    *)
(* steps of the thread's own code (thread_pc), never the other way round.  *)
(* A delay is counted in units; the speedup chosen is named by its delay.  *)
(*                                                                         *)
(* Next to a definition stands, where its name says so, the same with a    *)
(* plausible mistake in it (Swapped, Signed, Forgotten, Keeping, UntilHit);*)
(* none of them is used here.                                              *)
(***************************************************************************)
EXTENDS Integers, FiniteSets, Functions

CONSTANTS
    Threads,         \* the user threads that may live during the run
    Delays,          \* delays of the speedups that can be drawn; 0 is the baseline
    CheckPeriod,     \* signals between two comparisons with global_delay (10 in the code)
    Oversleep,       \* by how much nanosleep may exceed the time asked for
    NanosleepLimit,  \* first duration nanosleep refuses (10^9 ns in tv_nsec)
    TraceErrors,     \* may AsyncGetCallTrace report a code out of its documented range?
    EndToEnd,        \* values the end-to-end option may have
    Early,           \* threads registered before the agent's first cycle
    Leaving,         \* bound: threads that may end before the VM dies
    MaxExperiments,  \* bound: experiments started
    MaxRounds,       \* bound: signal rounds in one experiment
    MaxHits          \* bound: progress-point hits made by user threads

ASSUME ConstantsAssumption ==
    /\ IsFiniteSet(Threads)
    /\ Delays \subseteq Nat /\ 0 \in Delays
    /\ Oversleep \subseteq Nat /\ Oversleep # {}
    /\ CheckPeriod \in Nat \ {0}
    /\ NanosleepLimit \in Nat \ {0}
    /\ EndToEnd \subseteq BOOLEAN /\ TraceErrors \in BOOLEAN
    /\ Early \subseteq Threads /\ Leaving \subseteq Threads
    /\ MaxExperiments \in Nat /\ MaxRounds \in Nat /\ MaxHits \in Nat

VARIABLES
    agent_pc,            \* where the agent thread is
    end_to_end,          \* Profiler::end_to_end, set with the options
    running,             \* Profiler::_running
    in_experiment,       \* Profiler::in_experiment
    current_experiment,  \* Profiler::current_experiment
    points_hit,          \* Profiler::points_hit
    global_delay,        \* Profiler::global_delay
    experiments,         \* experiments started, bounds the run
    rounds,              \* signal rounds of this experiment, bounds it
    stop_pc,             \* where the VM-death callback is in Stop
    thread_pc,           \* where each user thread is in its own code
    handler_pc,          \* where its signal handler is, "idle" when not in it
    pending,             \* threads with a SIGPROF on its way
    user_threads,        \* Profiler::user_threads
    local_delay,         \* UserThread::local_delay
    ut_points_hit,       \* UserThread::points_hit
    num_signals_received,\* UserThread::num_signals_received
    sleep_diff,          \* the handler's local variable
    exit_hits,           \* curr_ut->points_hit as removeUserThread loaded it
    sleep_time           \* removeUserThread's local variable

\* History variables: read by properties, never by the program.
VARIABLES
    stale,      \* threads whose charge is left over from an earlier experiment
    unsettled,  \* delay a thread was charged since it last settled with global_delay
    sampled,    \* delay a thread was charged in this experiment while not stale
    leaked,     \* delay added to global_delay by stale threads in this experiment
    interrupted,\* threads that settled in their handler while they settled in removeUserThread
    repushed,   \* delay such threads added in removeUserThread, in this experiment
    made,       \* hits made so far
    made_before,\* hits made before this experiment
    lines,      \* result lines written
    hits_written\* hits in those lines

agentVars  == <<agent_pc, running, in_experiment, current_experiment, experiments, rounds,
                end_to_end>>
signalVars == <<pending, user_threads>>
delayVars  == <<global_delay, local_delay, num_signals_received, sleep_diff, sleep_time>>
hitVars    == <<points_hit, ut_points_hit, exit_hits>>
delayGhost == <<stale, unsettled, sampled, leaked, interrupted, repushed>>
hitGhost   == <<made, made_before, lines, hits_written>>
vars == <<agentVars, signalVars, delayVars, hitVars, delayGhost, hitGhost,
          stop_pc, thread_pc, handler_pc>>

AgentPCs == {"loop", "sampling", "sampled", "zeroHits", "choose", "rounds", "signal",
             "endSignal", "check", "readHits", "resetHits", "resetDelay", "record", "done"}
ThreadPCs == {"unborn", "register", "live", "hit", "exitFlush", "exitClear", "exitRead",
              "exitDiff", "exitSleep", "exitPush", "exitErase", "dead"}
HandlerPCs == {"idle", "sample", "count", "check", "sleep", "push", "flush"}
StopPCs == {"vm", "clear", "waiting", "stopped"}

Zero == [t \in Threads |-> 0]

Init ==
    /\ end_to_end \in EndToEnd
    /\ agent_pc = "loop" /\ running = TRUE /\ in_experiment = FALSE
    /\ current_experiment = [speedup |-> 0, delay |-> 0, points_hit |-> 0]
    /\ experiments = 0 /\ rounds = 0
    /\ pending = {} /\ user_threads = Early
    /\ global_delay = 0 /\ local_delay = Zero /\ num_signals_received = Zero
    /\ sleep_diff = Zero /\ sleep_time = Zero
    /\ points_hit = 0 /\ ut_points_hit = Zero /\ exit_hits = Zero
    /\ stale = {} /\ unsettled = Zero /\ sampled = Zero /\ leaked = 0
    /\ interrupted = {} /\ repushed = 0
    /\ made = 0 /\ made_before = 0 /\ lines = 0 /\ hits_written = 0
    /\ stop_pc = "vm"
    /\ thread_pc = [t \in Threads |-> IF t \in Early THEN "live" ELSE "unborn"]
    /\ handler_pc = [t \in Threads |-> "idle"]

-----------------------------------------------------------------------------
(* The agent thread *)

AgentGoto(from, to) == agent_pc = from /\ agent_pc' = to

\* signal_user_threads: a SIGPROF for every registered thread.  SIGPROF does not
\* queue, so a thread that already has one on its way gets no second one.
SignalUserThreads == pending' = pending \cup user_threads

AgentLoop ==
    /\ AgentGoto("loop", IF running THEN "sampling" ELSE "done")
    /\ UNCHANGED <<end_to_end, running, in_experiment, current_experiment, experiments, rounds,
                   signalVars, delayVars, hitVars, delayGhost, hitGhost, stop_pc, thread_pc,
                   handler_pc>>

\* One sleep-and-signal round of the sampling loop; at least one is made.
SampleRound ==
    /\ agent_pc \in {"sampling", "sampled"} /\ agent_pc' = "sampled"
    /\ SignalUserThreads
    /\ UNCHANGED <<end_to_end, running, in_experiment, current_experiment, experiments, rounds,
                   user_threads, delayVars, hitVars, delayGhost, hitGhost, stop_pc, thread_pc,
                   handler_pc>>

\* No frame was caught, or none with a line table: back to the top of the loop.
NoFrameInScope ==
    /\ AgentGoto("sampled", "loop")
    /\ UNCHANGED <<end_to_end, running, in_experiment, current_experiment, experiments, rounds,
                   signalVars, delayVars, hitVars, delayGhost, hitGhost, stop_pc, thread_pc,
                   handler_pc>>

BeginExperiment ==
    /\ AgentGoto("sampled", "zeroHits")
    /\ experiments < MaxExperiments
    /\ experiments' = experiments + 1 /\ rounds' = 0
    /\ in_experiment' = TRUE
    /\ made_before' = made
    /\ UNCHANGED <<end_to_end, running, current_experiment, signalVars, delayVars, hitVars,
                   delayGhost, made, lines, hits_written, stop_pc, thread_pc, handler_pc>>

ZeroHits ==
    /\ AgentGoto("zeroHits", "choose")
    /\ points_hit' = 0
    /\ UNCHANGED <<end_to_end, running, in_experiment, current_experiment, experiments, rounds,
                   signalVars, delayVars, ut_points_hit, exit_hits, delayGhost, hitGhost,
                   stop_pc, thread_pc, handler_pc>>

ChooseSpeedup ==
    /\ AgentGoto("choose", "rounds")
    /\ \E d \in Delays :
          current_experiment' = [current_experiment EXCEPT !.speedup = d, !.delay = d]
    /\ UNCHANGED <<end_to_end, running, in_experiment, experiments, rounds, signalVars,
                   delayVars, hitVars, delayGhost, hitGhost, stop_pc, thread_pc, handler_pc>>

\* The loop goes on while _running and, in end-to-end mode, until a hit; the
\* experiment's duration may run out at any test.
MustGoOnUntilHit == end_to_end /\ points_hit = 0
MustGoOn == running /\ end_to_end /\ points_hit = 0

EnterRound ==
    /\ AgentGoto("rounds", "signal")
    /\ running /\ rounds < MaxRounds
    /\ rounds' = rounds + 1
    /\ UNCHANGED <<end_to_end, running, in_experiment, current_experiment, experiments,
                   signalVars, delayVars, hitVars, delayGhost, hitGhost, stop_pc, thread_pc,
                   handler_pc>>

SignalRound ==
    /\ AgentGoto("signal", "rounds")
    /\ SignalUserThreads
    /\ UNCHANGED <<end_to_end, running, in_experiment, current_experiment, experiments, rounds,
                   user_threads, delayVars, hitVars, delayGhost, hitGhost, stop_pc, thread_pc,
                   handler_pc>>

EndExperiment ==
    /\ AgentGoto("rounds", "endSignal")
    /\ ~MustGoOn
    /\ in_experiment' = FALSE
    /\ UNCHANGED <<end_to_end, running, current_experiment, experiments, rounds, signalVars,
                   delayVars, hitVars, delayGhost, hitGhost, stop_pc, thread_pc, handler_pc>>

EndSignal ==
    /\ AgentGoto("endSignal", "check")
    /\ SignalUserThreads
    /\ UNCHANGED <<end_to_end, running, in_experiment, current_experiment, experiments, rounds,
                   user_threads, delayVars, hitVars, delayGhost, hitGhost, stop_pc, thread_pc,
                   handler_pc>>

\* The experiment is abandoned when Stop has cleared _running meanwhile.
AbandonExperiment ==
    /\ AgentGoto("check", "loop")
    /\ ~running
    /\ UNCHANGED <<end_to_end, running, in_experiment, current_experiment, experiments, rounds,
                   signalVars, delayVars, hitVars, delayGhost, hitGhost, stop_pc, thread_pc,
                   handler_pc>>

\* The same field served as the delay per sample; it now holds the total.
ReadDelay ==
    /\ AgentGoto("check", "readHits")
    /\ running
    /\ current_experiment' = [current_experiment EXCEPT !.delay = global_delay]
    /\ UNCHANGED <<end_to_end, running, in_experiment, experiments, rounds, signalVars,
                   delayVars, hitVars, delayGhost, hitGhost, stop_pc, thread_pc, handler_pc>>

ReadHits ==
    /\ AgentGoto("readHits", "resetHits")
    /\ current_experiment' = [current_experiment EXCEPT !.points_hit = points_hit]
    /\ UNCHANGED <<end_to_end, running, in_experiment, experiments, rounds, signalVars,
                   delayVars, hitVars, delayGhost, hitGhost, stop_pc, thread_pc, handler_pc>>

ResetHits ==
    /\ AgentGoto("resetHits", "resetDelay")
    /\ points_hit' = 0
    /\ UNCHANGED <<end_to_end, running, in_experiment, current_experiment, experiments, rounds,
                   signalVars, delayVars, ut_points_hit, exit_hits, delayGhost, hitGhost,
                   stop_pc, thread_pc, handler_pc>>

\* Thread t has read a delay in removeUserThread and not pushed the difference yet.
Leaves(t) == thread_pc[t] \in {"exitDiff", "exitPush"}

\* Threads that still hold a charge, whose handler is still dealing with a signal of
\* the experiment, or that are settling on their way out, carry it past the reset.
CarriesCharge(t) ==
    \/ local_delay[t] # 0
    \/ handler_pc[t] \in {"count", "check", "sleep", "push"}
    \/ Leaves(t)

ResetDelayForgotten ==
    /\ AgentGoto("resetDelay", "record")
    /\ stale' = {t \in Threads : CarriesCharge(t)}
    /\ unsettled' = Zero /\ sampled' = Zero /\ leaked' = 0 /\ repushed' = 0
    /\ UNCHANGED interrupted
    /\ UNCHANGED <<end_to_end, running, in_experiment, current_experiment, experiments, rounds,
                   signalVars, delayVars, hitVars, hitGhost, stop_pc, thread_pc, handler_pc>>

ResetDelay ==
    /\ AgentGoto("resetDelay", "record")
    /\ global_delay' = 0
    /\ stale' = {t \in Threads : CarriesCharge(t)}
    /\ unsettled' = Zero /\ sampled' = Zero /\ leaked' = 0 /\ repushed' = 0
    /\ UNCHANGED interrupted
    /\ UNCHANGED <<end_to_end, running, in_experiment, current_experiment, experiments, rounds,
                   signalVars, local_delay, num_signals_received, sleep_diff, sleep_time,
                   hitVars, hitGhost, stop_pc, thread_pc, handler_pc>>

Record ==
    /\ AgentGoto("record", "loop")
    /\ lines' = lines + 1
    /\ hits_written' = hits_written + current_experiment.points_hit
    /\ UNCHANGED <<end_to_end, running, in_experiment, current_experiment, experiments, rounds,
                   signalVars, delayVars, hitVars, delayGhost, made, made_before, stop_pc,
                   thread_pc, handler_pc>>

\* The class of the chosen method is gone: the experiment leaves no line.
DropBadSample ==
    /\ AgentGoto("record", "loop")
    /\ UNCHANGED <<end_to_end, running, in_experiment, current_experiment, experiments, rounds,
                   signalVars, delayVars, hitVars, delayGhost, hitGhost, stop_pc, thread_pc,
                   handler_pc>>

LeaveSampling == NoFrameInScope \/ BeginExperiment

AgentNext ==
    \/ AgentLoop \/ SampleRound \/ LeaveSampling
    \/ ZeroHits \/ ChooseSpeedup \/ EnterRound \/ SignalRound
    \/ EndExperiment \/ EndSignal \/ AbandonExperiment
    \/ ReadDelay \/ ReadHits \/ ResetHits \/ ResetDelay
    \/ Record \/ DropBadSample

-----------------------------------------------------------------------------
(* The SIGPROF handler of a user thread *)

HandlerGoto(t, from, to) == handler_pc[t] = from /\ handler_pc' = [handler_pc EXCEPT ![t] = to]

TakeSignal(t) == t \in pending /\ handler_pc[t] = "idle" /\ pending' = pending \ {t}

\* The handler starts and reads in_experiment, once.
Deliver(t) ==
    /\ TakeSignal(t)
    /\ HandlerGoto(t, "idle", IF in_experiment THEN "count" ELSE "sample")
    /\ UNCHANGED <<agentVars, user_threads, delayVars, hitVars, delayGhost, hitGhost,
                   stop_pc, thread_pc>>

\* AsyncGetCallTrace reports an error out of its range: the signal has no effect.
IgnoreSignal(t) ==
    /\ TraceErrors
    /\ TakeSignal(t)
    /\ UNCHANGED <<agentVars, user_threads, delayVars, hitVars, delayGhost, hitGhost,
                   stop_pc, thread_pc, handler_pc>>

\* Outside an experiment the charge is forgotten (the frames: module FrameSampling).
\* A thread past its test in removeUserThread will push what it read there all the same.
Forget(t) ==
    /\ unsettled' = IF thread_pc[t] = "exitPush" THEN unsettled ELSE [unsettled EXCEPT ![t] = 0]
    /\ stale' = IF Leaves(t) THEN stale ELSE stale \ {t}

SampleBranchKeeping(t) ==
    /\ HandlerGoto(t, "sample", "idle")
    /\ Forget(t)
    /\ UNCHANGED <<agentVars, signalVars, delayVars, hitVars, sampled, leaked, interrupted,
                   repushed, hitGhost, stop_pc, thread_pc>>

SampleBranch(t) ==
    /\ HandlerGoto(t, "sample", "idle")
    /\ local_delay' = [local_delay EXCEPT ![t] = 0]
    /\ Forget(t)
    /\ UNCHANGED <<agentVars, signalVars, global_delay, num_signals_received, sleep_diff,
                   sleep_time, hitVars, sampled, leaked, interrupted, repushed, hitGhost,
                   stop_pc, thread_pc>>

\* The delay once when a frame of the stack is on the chosen line, nothing when none is.
Charges == {0, current_experiment.delay}

\* What a stale thread is charged counts as leaked, once it gets to global_delay.
Sample(t, amount) ==
    sampled' = IF t \in stale THEN sampled ELSE [sampled EXCEPT ![t] = @ + amount]

\* One signal of the experiment; every CheckPeriod-th signal compares the delays.
CountSignal(t) ==
    /\ HandlerGoto(t, "count",
                   IF num_signals_received[t] + 1 = CheckPeriod THEN "check" ELSE "flush")
    /\ num_signals_received' = [num_signals_received EXCEPT ![t] = @ + 1]
    /\ \E charge \in Charges :
          /\ local_delay' = [local_delay EXCEPT ![t] = @ + charge]
          /\ unsettled' = [unsettled EXCEPT ![t] = @ + charge]
          /\ Sample(t, charge)
    /\ UNCHANGED <<agentVars, signalVars, global_delay, sleep_diff, sleep_time, hitVars,
                   stale, leaked, interrupted, repushed, hitGhost, stop_pc, thread_pc>>

\* How far a thread is behind global_delay; ahead of it when not positive.
LagSwapped(t) == local_delay[t] - global_delay
Lag(t) == global_delay - local_delay[t]

CheckDelay(t) ==
    /\ HandlerGoto(t, "check", IF Lag(t) > 0 THEN "sleep" ELSE "push")
    /\ sleep_diff' = [sleep_diff EXCEPT ![t] = Lag(t)]
    /\ UNCHANGED <<agentVars, signalVars, global_delay, local_delay, num_signals_received,
                   sleep_time, hitVars, delayGhost, hitGhost, stop_pc, thread_pc>>

\* What jcoz_sleep may return: the time slept, with the remainder slept after
\* every interruption.  A duration nanosleep refuses becomes no sleep at all.
SleepReturns(ns) ==
    IF ns < NanosleepLimit THEN {ns + e : e \in Oversleep} ELSE Oversleep

\* A settlement of the handler in the middle of the thread's own settlement.
Interrupt(t) == interrupted' = IF Leaves(t) THEN interrupted \cup {t} ELSE interrupted

SettleSleep(t) ==
    /\ HandlerGoto(t, "sleep", "flush")
    /\ num_signals_received' = [num_signals_received EXCEPT ![t] = 0]
    /\ \E slept \in SleepReturns(sleep_diff[t]) :
          LET extra == IF slept > sleep_diff[t] THEN slept - sleep_diff[t] ELSE 0 IN
          /\ local_delay' = [local_delay EXCEPT ![t] = @ + slept]
          /\ unsettled' = [unsettled EXCEPT ![t] = extra]
          /\ Sample(t, extra)
    /\ sleep_diff' = [sleep_diff EXCEPT ![t] = 0]
    /\ Interrupt(t)
    /\ UNCHANGED <<agentVars, signalVars, global_delay, sleep_time, hitVars,
                   stale, leaked, repushed, hitGhost, stop_pc, thread_pc>>

\* std::labs of a difference that is not positive.
SurplusSigned(diff) == diff
Surplus(diff) == -diff

Leak(t, amount) == leaked' = IF t \in stale THEN leaked + amount ELSE leaked

SettlePush(t) ==
    /\ HandlerGoto(t, "push", "flush")
    /\ global_delay' = global_delay + Surplus(sleep_diff[t])
    /\ num_signals_received' = [num_signals_received EXCEPT ![t] = 0]
    /\ unsettled' = [unsettled EXCEPT ![t] = 0]
    /\ Leak(t, Surplus(sleep_diff[t]))
    /\ sleep_diff' = [sleep_diff EXCEPT ![t] = 0]
    /\ Interrupt(t)
    /\ UNCHANGED <<agentVars, signalVars, local_delay, sleep_time, hitVars,
                   stale, sampled, repushed, hitGhost, stop_pc, thread_pc>>

FlushKeeping(t) ==
    /\ HandlerGoto(t, "flush", "idle")
    /\ points_hit' = points_hit + ut_points_hit[t]
    /\ UNCHANGED <<agentVars, signalVars, delayVars, ut_points_hit, exit_hits, delayGhost,
                   hitGhost, stop_pc, thread_pc>>

Flush(t) ==
    /\ HandlerGoto(t, "flush", "idle")
    /\ points_hit' = points_hit + ut_points_hit[t]
    /\ ut_points_hit' = [ut_points_hit EXCEPT ![t] = 0]
    /\ UNCHANGED <<agentVars, signalVars, delayVars, exit_hits, delayGhost, hitGhost,
                   stop_pc, thread_pc>>

Handler(t) ==
    \/ Deliver(t) \/ IgnoreSignal(t) \/ SampleBranch(t) \/ CountSignal(t)
    \/ CheckDelay(t) \/ SettleSleep(t) \/ SettlePush(t) \/ Flush(t)

-----------------------------------------------------------------------------
(* The user thread itself: callbacks of the VM in its context *)

\* A thread runs its own code only while its handler does not.
ThreadGoto(t, from, to) ==
    /\ handler_pc[t] = "idle"
    /\ thread_pc[t] = from /\ thread_pc' = [thread_pc EXCEPT ![t] = to]

\* addUserThread: the record starts level with global_delay ...
ThreadStart(t) ==
    /\ ThreadGoto(t, "unborn", "register")
    /\ local_delay' = [local_delay EXCEPT ![t] = global_delay]
    /\ UNCHANGED <<agentVars, signalVars, global_delay, num_signals_received, sleep_diff,
                   sleep_time, hitVars, delayGhost, hitGhost, stop_pc, handler_pc>>

\* ... and is visible to signal_user_threads from here on.
Register(t) ==
    /\ ThreadGoto(t, "register", "live")
    /\ user_threads' = user_threads \cup {t}
    /\ UNCHANGED <<agentVars, pending, delayVars, hitVars, delayGhost, hitGhost,
                   stop_pc, handler_pc>>

\* HandleBreakpoint adds in_experiment: nothing outside an experiment.  The read
\* and the addition are two instructions, and the handler may run between them.
\* (An end-to-end run has no breakpoint: addProgressPoint sets none.)
HitProgressPoint(t) ==
    /\ ThreadGoto(t, "live", "hit")
    /\ ~end_to_end /\ in_experiment /\ made < MaxHits
    /\ UNCHANGED <<agentVars, signalVars, delayVars, hitVars, delayGhost, hitGhost,
                   stop_pc, handler_pc>>

AddHit(t) ==
    /\ ThreadGoto(t, "hit", "live")
    /\ ut_points_hit' = [ut_points_hit EXCEPT ![t] = @ + 1]
    /\ made' = made + 1
    /\ UNCHANGED <<agentVars, signalVars, delayVars, points_hit, exit_hits, delayGhost,
                   made_before, lines, hits_written, stop_pc, handler_pc>>

\* removeUserThread, access by access: the thread's handler may run in between.
\* points_hit += curr_ut->points_hit loads the thread's counter, and then adds.
ExitLoad(t) ==
    /\ t \in Leaving
    /\ ThreadGoto(t, "live", "exitFlush")
    /\ exit_hits' = [exit_hits EXCEPT ![t] = ut_points_hit[t]]
    /\ UNCHANGED <<agentVars, signalVars, delayVars, points_hit, ut_points_hit, delayGhost,
                   hitGhost, stop_pc, handler_pc>>

ExitFlush(t) ==
    /\ ThreadGoto(t, "exitFlush", "exitClear")
    /\ points_hit' = points_hit + exit_hits[t]
    /\ UNCHANGED <<agentVars, signalVars, delayVars, ut_points_hit, exit_hits, delayGhost,
                   hitGhost, stop_pc, handler_pc>>

ExitClear(t) ==
    /\ ThreadGoto(t, "exitClear", "exitRead")
    /\ ut_points_hit' = [ut_points_hit EXCEPT ![t] = 0]
    /\ UNCHANGED <<agentVars, signalVars, delayVars, points_hit, exit_hits, delayGhost,
                   hitGhost, stop_pc, handler_pc>>

\* global_delay - curr_ut->local_delay reads the left operand first, an atomic ...
ExitReadGlobal(t) ==
    /\ ThreadGoto(t, "exitRead", "exitDiff")
    /\ sleep_time' = [sleep_time EXCEPT ![t] = global_delay]
    /\ UNCHANGED <<agentVars, signalVars, global_delay, local_delay, num_signals_received,
                   sleep_diff, hitVars, delayGhost, hitGhost, stop_pc, handler_pc>>

\* ... and then the other.
ExitDiffSigned(t) ==
    LET diff == local_delay[t] - sleep_time[t]
    IN  /\ ThreadGoto(t, "exitDiff", IF diff > 0 THEN "exitSleep" ELSE "exitPush")
        /\ sleep_time' = [sleep_time EXCEPT ![t] = diff]
        /\ UNCHANGED <<agentVars, signalVars, global_delay, local_delay, num_signals_received,
                       sleep_diff, hitVars, delayGhost, hitGhost, stop_pc, handler_pc>>

ExitDiff(t) ==
    LET diff == sleep_time[t] - local_delay[t]
    IN  /\ ThreadGoto(t, "exitDiff", IF diff > 0 THEN "exitSleep" ELSE "exitPush")
        /\ sleep_time' = [sleep_time EXCEPT ![t] = diff]
        /\ UNCHANGED <<agentVars, signalVars, global_delay, local_delay, num_signals_received,
                       sleep_diff, hitVars, delayGhost, hitGhost, stop_pc, handler_pc>>

ExitSleep(t) ==
    /\ ThreadGoto(t, "exitSleep", "exitErase")
    /\ UNCHANGED <<agentVars, signalVars, delayVars, hitVars, delayGhost, hitGhost,
                   stop_pc, handler_pc>>

ExitPush(t) ==
    /\ ThreadGoto(t, "exitPush", "exitErase")
    /\ global_delay' = global_delay + Surplus(sleep_time[t])
    /\ Leak(t, Surplus(sleep_time[t]))
    /\ repushed' = IF t \in interrupted \ stale THEN repushed + Surplus(sleep_time[t])
                   ELSE repushed
    /\ UNCHANGED <<agentVars, signalVars, local_delay, num_signals_received, sleep_diff,
                   sleep_time, hitVars, stale, unsettled, sampled, interrupted, hitGhost,
                   stop_pc, handler_pc>>

\* Erased and deleted, the thread's record is gone (a signal that arrives later still:
\* module ThreadRegistry).
ExitErase(t) ==
    /\ ThreadGoto(t, "exitErase", "dead")
    /\ user_threads' = user_threads \ {t}
    /\ pending' = pending \ {t}
    /\ local_delay' = [local_delay EXCEPT ![t] = 0]
    /\ ut_points_hit' = [ut_points_hit EXCEPT ![t] = 0]
    /\ num_signals_received' = [num_signals_received EXCEPT ![t] = 0]
    /\ sleep_time' = [sleep_time EXCEPT ![t] = 0]
    /\ unsettled' = [unsettled EXCEPT ![t] = 0]
    /\ stale' = stale \ {t} /\ interrupted' = interrupted \ {t}
    /\ UNCHANGED <<agentVars, global_delay, sleep_diff, points_hit, exit_hits, sampled, leaked,
                   repushed, hitGhost, stop_pc, handler_pc>>

ThreadCode(t) ==
    \/ ThreadStart(t) \/ Register(t) \/ HitProgressPoint(t) \/ AddHit(t)
    \/ ExitLoad(t) \/ ExitFlush(t) \/ ExitClear(t) \/ ExitReadGlobal(t) \/ ExitDiff(t)
    \/ ExitSleep(t) \/ ExitPush(t) \/ ExitErase(t)

-----------------------------------------------------------------------------
(* Stop, on the thread that delivers the VM-death event *)

StopGoto(from, to) == stop_pc = from /\ stop_pc' = to

\* The end of an end-to-end run is its progress point.
StopHit ==
    /\ StopGoto("vm", "clear")
    /\ points_hit' = IF end_to_end THEN points_hit + 1 ELSE points_hit
    /\ made' = IF end_to_end THEN made + 1 ELSE made
    /\ UNCHANGED <<agentVars, signalVars, delayVars, ut_points_hit, exit_hits, delayGhost,
                   made_before, lines, hits_written, thread_pc, handler_pc>>

StopRunning ==
    /\ StopGoto("clear", "waiting")
    /\ running' = FALSE
    /\ UNCHANGED <<agent_pc, in_experiment, current_experiment, experiments, rounds, end_to_end,
                   signalVars, delayVars, hitVars, delayGhost, hitGhost, thread_pc, handler_pc>>

\* The spin on profile_done ends; SIGPROF is ignored from here on.
Stopped ==
    /\ StopGoto("waiting", "stopped")
    /\ agent_pc = "done"
    /\ pending' = {}
    /\ UNCHANGED <<agentVars, user_threads, delayVars, hitVars, delayGhost, hitGhost,
                   thread_pc, handler_pc>>

Stop == StopHit \/ StopRunning \/ Stopped

-----------------------------------------------------------------------------

Next == AgentNext \/ Stop \/ \E t \in Threads : Handler(t) \/ ThreadCode(t)

Spec == Init /\ [][Next]_vars

\* The scheduler keeps running the agent thread, whose sleeps all end, and the
\* thread in Stop once it is there; the VM need not ever die.  The sampling
\* loop is left when its time is up.
Fairness ==
    /\ WF_vars(AgentNext) /\ WF_vars(LeaveSampling)
    /\ WF_vars(StopRunning) /\ WF_vars(Stopped)

FairSpec == Spec /\ Fairness

HandlersDone == pending = {} /\ \A t \in Threads : handler_pc[t] = "idle"

\* The timing runExperiment counts on: the millisecond it sleeps before it clears
\* in_experiment, and again after its last signal, is enough for every handler.
SleepsOutlastHandlers ==
    agent_pc \in {"endSignal", "readHits", "resetHits", "resetDelay", "record"} => HandlersDone

\* Moreover no signal of the sampling loop, which has no sleep behind its last
\* one, is still being handled when the experiment begins.
SamplingOutlastsHandlers == agent_pc \in {"zeroHits", "choose"} => HandlersDone

\* Runs with that timing.
QuietNext == Next /\ SleepsOutlastHandlers' /\ SamplingOutlastsHandlers'

QuietSpec == Init /\ [][QuietNext]_vars

-----------------------------------------------------------------------------
(* Properties *)

Fields == [speedup : Nat, delay : Nat, points_hit : Nat]

TypeOK ==
    /\ agent_pc \in AgentPCs /\ stop_pc \in StopPCs
    /\ running \in BOOLEAN /\ in_experiment \in BOOLEAN /\ end_to_end \in BOOLEAN
    /\ current_experiment \in Fields
    /\ experiments \in 0..MaxExperiments /\ rounds \in 0..MaxRounds
    /\ thread_pc \in [Threads -> ThreadPCs]
    /\ handler_pc \in [Threads -> HandlerPCs]
    /\ user_threads \subseteq Threads /\ pending \subseteq user_threads
    /\ points_hit \in Nat /\ ut_points_hit \in [Threads -> Nat] /\ exit_hits \in [Threads -> Nat]
    /\ global_delay \in Nat /\ local_delay \in [Threads -> Nat]
    /\ num_signals_received \in [Threads -> 0..CheckPeriod]
    /\ sleep_diff \in [Threads -> Int] /\ sleep_time \in [Threads -> Int]
    /\ stale \subseteq Threads /\ interrupted \subseteq Threads /\ repushed \in Nat
    /\ unsettled \in [Threads -> Nat] /\ sampled \in [Threads -> Nat] /\ leaked \in Nat
    /\ made \in Nat /\ made_before \in Nat /\ lines \in Nat /\ hits_written \in Nat

\* A thread never runs further ahead of global_delay than what it was charged
\* since it last settled with it (Handle: the charge, the test of the tenth
\* signal, the sleep, the push; addUserThread's starting value).  Otherwise a
\* settlement would put onto the others a delay nobody was charged.
AheadOnlyByUnsettled ==
    \A t \in Threads \ stale : local_delay[t] <= global_delay + unsettled[t]

\* What a handler (Handle), or a thread on its way out (removeUserThread), is about
\* to add to global_delay is covered by what the thread was charged since it last
\* settled, although others add to global_delay between its test of the difference
\* and its addition.  The exception is a thread whose own handler settled while it
\* was itself settling on its way out.
PushIsCovered ==
    \A t \in Threads \ stale :
        /\ handler_pc[t] = "push" => -sleep_diff[t] <= unsettled[t]
        /\ thread_pc[t] = "exitPush" /\ t \notin interrupted => -sleep_time[t] <= unsettled[t]

\* Every unit of global_delay was charged to some thread in this experiment,
\* or was carried past the end of an earlier one, or was pushed by a thread whose
\* handler settled too while removeUserThread did: check-then-act settlements by
\* several threads at once create none.
GlobalDelayIsBacked ==
    global_delay <= SumFunctionOnSet(sampled, Threads) + leaked + repushed

\* The README's total delay is made of delays that somebody was charged, whether in
\* this experiment or in one before.  It is not: a thread's handler and, around it,
\* removeUserThread both push the same charge.
EveryPushWasCharged ==
    global_delay <= SumFunctionOnSet(sampled, Threads) + leaked

\* A thread sleeps in its handler only for what others were charged, carried over
\* or pushed twice, never for its own charge: that is what makes the slept time a
\* virtual speedup of the line.
NoSelfDelay ==
    \A t \in Threads \ stale :
        handler_pc[t] = "sleep" =>
            sleep_diff[t] <= SumFunctionOnSet(sampled, Threads \ {t}) + leaked + repushed

\* Hits still on their way: in the per-thread counters, or loaded from one that
\* removeUserThread is going to clear; in the profiler's counter; or read from it
\* for a line not written yet.
Unflushed(t) ==
    CASE thread_pc[t] = "exitFlush" -> exit_hits[t]
      [] thread_pc[t] = "exitClear" -> 0
      [] OTHER -> ut_points_hit[t]

UnflushedHits == SumFunctionOnSet([t \in Threads |-> Unflushed(t)], Threads)

UnwrittenHits == IF agent_pc \in {"resetDelay", "record"} THEN current_experiment.points_hit ELSE 0

\* On its way from HandleBreakpoint through the handler, removeUserThread and
\* runExperiment into the output a hit is counted once, except that a thread's last
\* hits, those removeUserThread finds in its counter, may be flushed by its handler
\* too; more than twice no hit is counted.
HitsNeverInvented ==
    hits_written + UnwrittenHits + points_hit + UnflushedHits
        <= made + SumFunctionOnSet(exit_hits, Threads)

\* Once the VM-death callback spins in Stop, the agent thread finishes its cycle
\* and lets it go, whichever of _running, points_hit and the experiment's end it
\* races with.
StopReturns == (stop_pc = "waiting") ~> (stop_pc = "stopped")

\* profiler.cc:337-338: experiments with speedup 0 are the baseline the other
\* speedups are read against, so no delay must have been inserted in one.
BaselineHasNoDelay ==
    agent_pc = "record" /\ current_experiment.speedup = 0 => current_experiment.delay = 0

\* A line's hits are hits of its own experiment (app.R:93 divides them by that
\* experiment's duration).
HitsOfThisExperiment ==
    agent_pc = "record" => current_experiment.points_hit <= made - made_before

\* README: in end-to-end mode the progress point is the end of the application,
\* so a run that reached an experiment writes a line for it.
EndToEndRecorded ==
    end_to_end /\ stop_pc = "stopped" /\ experiments > 0 => lines > 0

=============================================================================
