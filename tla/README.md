# A verification of JCoz

JCoz is a causal profiler for the JVM: a JVMTI agent that runs *experiments*.
In an experiment one line of the program is "virtually sped up": each time a
thread is caught on it, all *other* threads are made to lose some time, and the
hits of a progress point during the experiment are written to a CSV file. A
speedup of 0 is the baseline the others are read against.

This directory holds TLA+ models of the agent, configurations for TLC, and
theorems that TLAPS checks. `PROJECT.json` links each definition to the source
lines it stands for; line numbers below are those of `src/src/profiler.cc`
unless another file is named.

## 1. Inventory

### Threads of control

| Who | What it runs |
|---|---|
| agent thread | `runAgentThread`: sampling loop, choice of a line, `runExperiment`, clearing of frames |
| user threads | the program; callbacks `OnThreadStart`/`OnThreadEnd`, `OnClassPrepare`, `Breakpoint` in their context |
| SIGPROF handlers | `Profiler::Handle`, on top of whatever the user thread was doing, callbacks included |
| VMInit thread | `OnVMInit` and `run_profiler`: start, events, the scan of loaded classes, `RunAgentThread` |
| VMDeath thread | `OnVMDeath` and `Stop`: ends the run, waits for the agent thread |

They share memory through plain fields, a few atomics and four spin locks
(`user_threads_lock`, `in_scope_lock`, `frame_lock`, `class_prep_lock`). The
agent thread's only way to wait for handlers is to sleep for a millisecond.

### Components

**Virtual-speedup protocol** (`runExperiment` 372-459, the experiment branch of
`Handle` 906-943, `addUserThread`, `removeUserThread`, `HandleBreakpoint`,
`Stop`). State: `_running`, `in_experiment`, `current_experiment`,
`points_hit`, `global_delay`, and for each thread `local_delay`, `points_hit`,
`num_signals_received`. Hard: settlement with `global_delay` is check-then-act
from many handlers at once; handlers outlast the agent's sleeps; threads come
and go; a field serves as delay per sample and as total; `Stop` may come at any
time. Correct when no delay comes from nowhere, no thread is delayed for its
own samples, no hit is counted more often than the exit path allows, a baseline is
undisturbed, a line reports its own experiment, and `Stop` returns.

**Frame sampling** (the sampling branch of `Handle` 868-904, `runAgentThread`'s
cycle 483-627, `addInScopeMethods`, `clearInScopeMethods`). State:
`static_call_frames`, `call_index`, `frame_lock`, `in_scope_ids`,
`in_scope_lock`, `location_ranges`. Hard: a handler may interrupt its own
thread inside the critical section it wants to enter; `call_index` is reset
without the lock; the ranges are freed after a fixed sleep. Correct when locks
exclude, handlers return, nothing freed is read, and experiments are only on
allowed methods with line numbers.

**Experiment line** (558-608, `inExperiment`). From a bytecode index to a line
and to the line's ranges. Hard: lines owning several entries, the last entry.
Correct when a frame is charged exactly if it is on the line.

**Experiment length and speedup** (`update_experiment_length`,
`calculate_random_speedup`). Pure arithmetic. Correct when the length stays in
its range and grows when hits are missing, and the speedups are equally likely.

**Class preparation and VM lifecycle** (`entry.cc`, `addProgressPoint`,
`clearProgressPoint`). State: JVMTI phase, enabled events, `class_prep_lock`,
the progress point, breakpoints. Hard: classes prepared while the scan is under
way; two classes of one name; errors inside the lock; VM death under running
callbacks. Correct when no class is missed, there is one breakpoint, and
callbacks return.

**Agent options** (`ParseOptions`, `args.h`). State: the static settings.
Correct when settings are what the option string asks for, and refusals have
a cause.

**Thread registry** (`addUserThread` 666-689, `removeUserThread` 709-719,
`signal_user_threads` 311-326, the start of `runAgentThread` 468-485). State:
`user_threads` with its spin lock, `curr_ut`, the `UserThread` records,
`prof_ready`. Hard: `pthread_kill` against thread end, signals under way when
the record is deleted, callbacks interrupted while they hold the lock, the agent
thread, which registers like any other. Correct when every record the agent or a
handler goes through is alive, the set stays as it is while it is iterated over,
and callbacks end.

**Scope matching** (`entry.cc` 143-222). `strstr` on class signatures, for
searched and ignored scopes and for the progress point's class. Correct when it
decides as a test of names would.

**Locks** (all of `profiler.cc` and `entry.cc`). Four spin locks, and the
logger's and the heap's mutex behind calls; a handler may want two of them on top
of code that holds any. Correct when nobody waits in a circle.

**JVMTI set-up** (`Agent_OnLoad`, `entry.cc` 262-387). Capabilities, callbacks,
events, `AsyncGetCallTrace`, the `Profiler`. Hard: every call may fail, some in
the middle. Correct when a VM that goes on has the whole agent or none of it.

Not to be modelled: the bytecode-index histogram (a counter printed at the end),
the Shiny viewer, the example programs and build rules.

### Interaction

The agent thread's `runExperiment` is entered from its sampling cycle and uses
the line found there; `ExperimentProtocol` models the cycle as far as it
matters to delays and hits, `FrameSampling` the same cycle as far as it matters
to frames, locks and ranges. Class preparation fills `in_scope_ids`, which the
sampling branch reads. `HandleBreakpoint` is reached through the breakpoint
`addProgressPoint` sets. `Stop` is the meeting point: `ExperimentProtocol` has
its effect on experiments, `FrameSampling` its clearing of the scope,
`ClassPrepare` its race with callbacks, `ThreadRegistry` the end of SIGPROF. What
the components share without knowing of each other is time on the same threads:
`LockOrder` puts all their locks side by side. Loading (`AgentLoad`) comes before
all else and hands over the options (`AgentOptions`).

The hazards of this code, each at its line, are listed in `PROJECT.json`.

## 2. Modules

Each component has a module, an `MC...` module that instantiates it for TLC,
and where there are theorems a `...Proofs` module.

### ExperimentProtocol

One action per access to a variable another thread writes. `agent_pc` follows
`runExperiment`; `thread_pc` a user thread's own code; `handler_pc` its handler.
A handler step needs nothing of the thread; a step of the thread needs its
handler to be idle: that is what a signal handler is. SIGPROF does not queue,
hence `pending` is a set.

| Code | Actions |
|---|---|
| sampling loop 489-508 | `AgentLoop`, `SampleRound`, `NoFrameInScope` |
| `runExperiment` | `BeginExperiment`, `ZeroHits`, `ChooseSpeedup`, `EnterRound`, `SignalRound`, `EndExperiment`, `EndSignal`, `AbandonExperiment`, `ReadDelay`, `ReadHits`, `ResetHits`, `ResetDelay`, `Record`, `DropBadSample` |
| `Handle` | `Deliver`, `IgnoreSignal`, `SampleBranch`, `CountSignal`, `CheckDelay`, `SettleSleep`, `SettlePush`, `Flush` |
| `addUserThread`, `removeUserThread` | `ThreadStart`, `Register`; `ExitLoad`, `ExitFlush`, `ExitClear` (696-697), `ExitReadGlobal`, `ExitDiff` (699), `ExitSleep`, `ExitPush`, `ExitErase` |
| `HandleBreakpoint` | `HitProgressPoint`, `AddHit` |
| `Stop` | `StopHit`, `StopRunning`, `Stopped` |

Delays are counted in units and a speedup is named by its delay. Whether a
stack is on the line is a free choice (`Charges`). `jcoz_sleep` returns what
was asked for and some more (`Oversleep`); a duration at or above
`NanosleepLimit` goes into `tv_nsec` alone, is refused by `nanosleep` and
becomes no sleep. `EndToEnd` is the set of values the end-to-end option may have.
How many experiments, signal rounds and hits there are is
bounded by constants in the guards; the real program has no such bounds.

History variables record what the program cannot know: `unsettled` and
`sampled` (charges since the last settlement, and in this experiment), `stale`
(threads that carry a charge past the reset of `global_delay`), `leaked` (what
those add afterwards; while a thread is stale its charges are not in `sampled`
either), `interrupted` (threads whose handler settled between the read at 699 and
the push at 706), `repushed` (what those pushed in `removeUserThread`
nevertheless), `made` and `made_before` (hits), `lines`, `hits_written`. Stale
threads are exempt from the per-thread properties and are accounted for in
`leaked`; that they exist at all is what the two baseline configurations show.

The exit path races with the thread's own handler. The read of `global_delay`, the
read of `local_delay` and the push are steps, as are the load, the addition and the
clearing of `points_hit`, and a signal may come between any two. The code pushes a
charge twice there, and counts hits twice; the properties say how far this goes
(`repushed` only grows by such a thread, a hit is counted at most twice), and
`ExitTwice` shows that it happens.

### FrameSampling

The two spin locks with their different disciplines, every step of the
handler's sampling branch, `addInScopeMethods` one method at a time, the
agent's cycle. A frame is its method, and a stack may hold methods of classes that
are not in scope, with line numbers like any other (`lib` in the instances).
`call_index` saturates above `Slots`, where only "too large" matters. `Grace` states
that handlers are over when the agent's sleep is; nothing else in the code ensures it, so what rests on it says
so. (With `Grace` nobody competes for `frame_lock` when the frames are cleared; it
is for the copying that the lock is needed then.) When a handler interrupts its own
thread in the middle of a change of the hash set, the look-up may return any answer
for the methods of the class being added, and for no others (`ScopeSeen`).

`ReentrantLock` is what `in_scope_lock` and `has_lock` amount to: a lock its owner
may acquire again and which is free for others when released as often as
acquired. `FrameSampling` implements it under the mapping `owner <- in_scope_lock`,
`depth <- Depth`, where `Depth` counts the critical sections a thread and its
handler are in (`ScopeLock`, `ImplementsReentrantLock`).

### ThreadRegistry

A record is named by its thread; `curr_ut` is null, points to a live record or to
a deleted one (`removeUserThread` does not clear it). A native thread may attach,
end, and attach again. Taking and releasing `user_threads_lock` are steps of
their own, `pthread_kill` one for each record. A signal is a member of `pending`
until its thread takes it, between any two steps of its own code. Nothing
in the code waits for a signal before the record is deleted (717), and no step of the
model does. The history variable `late` holds the threads whose signal was
under way when their record was deleted; `HandlerHasRecord` says that only their
handlers meet a deleted record, and `LateSignals` that they do.

| Code | Actions |
|---|---|
| `OnThreadStart`, `addUserThread` | `OnThreadStart`, `ThreadInfoFails`, `LockToInsert`, `Insert` |
| `OnThreadEnd`, `removeUserThread` | `OnThreadEnd`, `LockToErase`, `Erase`, `Delete`, `Exit` |
| `runAgentThread` 468-489 | `LockToEraseSelf`, `EraseSelf`, `GetReady`, `AgentDone` |
| `signal_user_threads` | `LockToSignal`, `Kill`, `UnlockSignal` |
| `Handle` | `Handle`, `HandlerReturns` |
| `HandleBreakpoint`, `Stop` | `Breakpoint`, `StopRunning`, `IgnoreSignals` |

### LockOrder

Only locks: a piece of code is the sequence of the sets of locks it holds, and
pieces are put together in the order of the source (`Hold`, `\o`). A callback
picks one of its paths, and so does a handler, depending on what the thread it
interrupts holds (`has_lock`). `Log` takes the logger's mutex if its severity is
logged, `Heap` the mutex of an arena if threads share one; both are modelled from
what the agent calls, and both are constants. The lock that an error of
`GetClassSignature` leaves taken (`entry.cc:186`) belongs to `ClassPrepare`; here
calls into the VM succeed.

### ClassNames

Signatures and scopes are sequences of characters. `is_class_fqn_prefix` is
`strstr` with the first occurrence it returns; a scope that occurs at the leading
`L` already would not be found behind it. `StartsWith` and `Name` say what is
asked for. `ClassPrepare` decides by the former and is checked against the latter.

### AgentLoad

`Agent_OnLoad` call by call, on top of `AgentOptions`, whose option string is
parsed as one phase of it. `load_pc = "continues"` is a return value of 0,
`"refused"` any other. `GetPotentialCapabilities` may fail without consequence
(281), and then the breakpoint event cannot be enabled: registration fails.

### ClassPrepare

`run_profiler` in its order (start, enable the event, list the loaded classes,
scan them, run the agent thread), callbacks on other threads, one step per
JVMTI call that can fail. Classes have an identity, so that loaders may share a
name, and a signature, by which `ClassNames` puts them in scope or not. `Failing` is
the set of the JVMTI functions that may return an error while the VM lives; in the
dead phase all do (`Succeeds`). A null signature crashes. An error of
`GetClassSignature` in `ReportError` returns from the middle of
`CreateJMethodIDsForClass` with `class_prep_lock` taken, in either phase. An error of
`GetLoadedClasses`, after which the scan would read an uninitialized count, is not
modelled. A method is not told apart from its class here.

### LineRanges

Line tables are sequences of entries in ascending order, as compilers write
them (`WellFormed`); the JVM specification would allow others. All line
tables within the bounds are initial states. The search loops of the code are
definitions by what they find (`CaughtEntry`, `EntryEnd`).

### ExperimentLength

`NextLength` is `update_experiment_length`; the number of hits is free. The
option `fix-exp` is a variable, chosen at the start. `Speedup` maps the 25
values of `rand() % 25` to twentieths.

### AgentOptions

The option string is cut at underscores, so that what a user writes is a
sequence of items; an item is its option's name and what its value amounts to.
`ParseItem` has the switch with its exits and the exceptions of `std::stoi`
and `std::stol`. `ConstantsAssumption` says what an item is: scopes are names with
a separator, and a value is one number or not a number. What users may rely on is
stated apart from `Rejected`, from the table in the repository's README and the usage
message (`DocumentedNames`, `DocumentedLevels`, `BadItem`). The table calls one
option `fix_exp`; written so it arrives as the items `fix` and `exp` (`FixExpAt`).

### Plausible mistakes

Beside some definitions stands the same definition with a mistake a programmer
might make (`LagSwapped`, `FlushKeeping`, `AcquireTrying`, ...). No
specification uses them. Put in the place of the right one, each makes TLC
report the property named beside it under `mutants` in `PROJECT.json`: the
properties can fail.

## 3. What TLC checks

| Run | Bounds | Shows |
|---|---|---|
| `ExperimentDelays` | 2 threads, 2 experiments of one round, delays 0 and 1, oversleep 0 and 1, sleeps of 2 and more refused, check at every signal | nobody is ahead of `global_delay` by more than it was charged (`AheadOnlyByUnsettled`); a push is covered by a charge whatever others add between test and push (`PushIsCovered`); nobody sleeps for its own charge (`NoSelfDelay`); every unit of `global_delay` was charged to somebody (`GlobalDelayIsBacked`) |
| `ThreadLife` | 1 thread that arrives and leaves, VM death at any time, 1 experiment of two rounds, delays 0 and 1, check at every 2nd signal, sleeps of 2 and more refused, 1 hit, trace errors, with and without end-to-end | what a leaving thread pushes was charged to it (`PushIsCovered`), at most twice (`GlobalDelayIsBacked`, which counts the second time apart), and hits are counted at most twice (`HitsNeverInvented`), wherever its own handler interrupts `removeUserThread`; the spin in `Stop` ends (`StopReturns`) |
| `FrameLocks` | 2 threads, 2 slots, 3 methods: one in scope with lines, one in scope without, one library method with lines, innermost on a stack | the locks exclude, also for handlers on top of critical sections; `in_scope_lock` is a re-entrant lock; no freed ranges are read under `Grace`; experiments are on methods with lines of classes in scope although cleared frames are copied and the hash set is read in the middle of an insertion |
| `Registry` | 2 threads that attach up to twice, the agent thread | a handler finds a live record unless its signal was sent before the deletion and came after (`HandlerHasRecord`), all of `user_threads` is alive (`RegisteredRecordsLive`) and undisturbed in the iteration (`IterationUndisturbed`), the agent thread is not signalled, callbacks end (`CallbacksEnd`) |
| `LockOrder` | one thread that starts, ends and meets VM death, one that prepares classes, the agent thread; level `info`, no shared arena, unknown errors of `AsyncGetCallTrace` | no circle of waiting threads (`NoDeadlock`), every handler returns (`HandlersReturn`) |
| `LengthSettings` | the code's settings, up to 25 hits | no length falls below `MIN_EXP_TIME` (`NeverBelowMin`), and lengths grow to `MAX_EXP_TIME` while hits stay *below* `HITS_TO_INC_EXP_TIME` (`GrowsToMax`, as `globals.h:54` and `README.md:132` say; the code also lengthens at exactly that many, see `LengthBoundary`) |
| `ClassScan` | 2 threads, 4 classes in any state: two of the progress point's name, one whose name starts so and which is ignored, one with a scope's letters further behind; names and scopes that start with an `L`; no JVMTI error while the VM lives | no class asked for is missed (`NoClassMissed`) and no other taken (`OnlyAskedFor`), one breakpoint (`OneBreakpoint`) in a class of its name (`PointInItsClass`), callbacks return while the VM lives (`CallbacksReturn`) |
| `LineCharged` | 2 methods, 2 lines, up to 3 entries, indices 0 to 4 | the caught frame is charged; a frame is charged exactly when on the line |
| `OptionsParsed` | every failure of loading, all strings of up to 3 out of 18 options, `fix_exp` not among them | settings as asked for; refusals only for an item no document offers, or an incomplete string (`RefusedForCause`); the whole agent or none (`AllOrNothing`) |
| `BaselineStart` (violated) | as `ExperimentDelays`, with handlers over in the agent's sleeps | a baseline experiment can report a delay |
| `EndToEndLine` (violated) | 1 thread, end-to-end mode | an end-to-end run can end without a line |
| `FixExpOption` (violated) | the README's examples | the option `README.md:121` calls `fix_exp` is refused |

**Why the bounds are enough.** The protocol's races are between two parties:
two handlers, a handler and the agent's reset, a handler and its own thread's
exit. Two threads and the agent have them all; a second experiment brings
everything that is carried across a reset; a check period of 1 makes each
signal settle (2, in `ThreadLife`, lets a charge wait for the next signal, and for
the thread's exit); a unit delay is
enough because settlement only compares and adds. The limit of
`NanosleepLimit` is low so that refused sleeps happen. `SmallCharges` bounds
delays at 2 and leaves VM death to `ThreadLife`, as `Stop` does nothing to
delays. Three methods tell a line table from none and in scope from not, two slots a full array from
one with room; one slot and one method keep `FrameLiveness` small. Three line
entries have a first, a middle and a last one, and let one line own two. A record
that is reused takes a thread that attaches twice, and two threads compete for
the lock beside the agent thread. A circle of locks takes two threads with
different duties and the agent thread; more threads would repeat their paths. Two
letters are enough for a scope at the front, further behind, and inside a longer
name.

**Symmetry.** Threads with the same role are interchangeable and are
permuted in `ExperimentDelays` and `FrameLocks`, which have no liveness property
(`ImplementsReentrantLock` treats threads alike); the other runs use no symmetry.

**Timing.** `SleepsOutlastHandlers` is the assumption that the agent's sleep of a
millisecond is enough for all handlers, which is how the code is meant to work;
`SamplingOutlastsHandlers` adds that the last sampling signal, which has no sleep
behind it, is handled before the experiment starts. `BaselineStart` assumes the
first only (as the constraint `PromptHandlers`), and needs no more than a late
*sampling* signal. `QuietSpec` is the specification of runs with both;
`PromptRegistration` adds, in `BaselineExit`, that no thread takes longer than a
sampling phase to get through `addUserThread`. The other constraints are bounds.

**Deadlock** is not checked where the VM may die and the run ends.

**Fairness.** `ExperimentProtocol`: the agent thread's sleeps end and the
scheduler runs it and the thread in `Stop` (weak fairness); the sampling loop
is left when its time is up, hence fairness of `LeaveSampling`. Nothing is
assumed of user threads. `FrameSampling`: strong fairness of handlers and of
critical sections, because locks are held for microseconds while signals and
the agent's cycles come milliseconds apart, so no spinning thread loses the
race every time; weak fairness of the agent inside its own critical sections.
`ClassPrepare`: weak fairness of running callbacks and of `run_profiler`; a
spinning callback only competes with finitely many others, one for each class.
`ThreadRegistry`: weak fairness of the agent thread where it holds the lock and
of handlers; strong fairness of the steps of a callback, and of a handler's return
while the lock is free, because the agent thread holds the lock for microseconds
and then sleeps for a millisecond. `LockOrder`: strong fairness of every step that
takes or releases a lock, for the same reason; nobody has to start a callback or
be signalled. `ExperimentLength`: experiments follow each other.

### Further configurations

These are not among the listed runs; each can be run with
`tlc -config X.cfg MC<module>`.

| Configuration | Outcome |
|---|---|
| `QuietBaseline` | `BaselineHasNoDelay` holds if handlers are prompt in the sense of `QuietSpec` and no thread arrives or exits: the anomaly of `BaselineStart` comes from those alone |
| `BaselineExit` | violated: prompt handlers do not help against a thread that starts at the end of one experiment with the old `global_delay` as its `local_delay` (673) and exits in the next one (706) |
| `LateHits` | `HitsOfThisExperiment` violated: hits made after a thread's last signal of an experiment are flushed by the first signal of the next (939) |
| `ClearedFrames` | `OnlyStoredFramesCopied` violated: `call_index` survives the `memset` (614), and the agent copies cleared frames; `ExperimentMethodAllowed` shows they do no harm |
| `LengthBoundary` | `OnlyBelowIncreases` violated: exactly `HITS_TO_INC_EXP_TIME` hits lengthen the experiment (356), where `globals.h:54` and `README.md:132` say "below" |
| `StopWithoutAgent` | `StopEnds` violated if `RunAgentThread` fails: its error is dropped, and `Stop` waits for a thread that does not exist |
| `LockLeft` | `CallbacksReturn` violated if `GetClassSignature` may fail while the VM lives: `entry.cc:186` returns with `class_prep_lock` taken, and the next callback waits for ever |
| `OutputDirectory` | `OutputWhereAsked` violated: the path is cut at its first dot (`args.h:119`), so `../out.csv` ends up in the working directory |
| `ExperimentExits` | the properties of `ExperimentDelays` hold with two threads of which one leaves, in one experiment of one round |
| `ExitTwice` | `EveryPushWasCharged` violated: the handler pushes a charge between the read at 699 and the push at 706, which pushes it again |
| `FrameLiveness` | `HandlerReturns` holds: no handler of `FrameSampling` spins for ever |
| `LateSignals` | `RecordOutlivesSignals` violated: a signal that is still under way when `removeUserThread` deletes the record (717) makes the handler use it |
| `UnregisteredHit` | `BreakpointHasRecord` violated: a thread outside of the main group runs the progress point with a null `curr_ut` (1074) |
| `LockTrace` | `NoDeadlock` violated at level `trace`: a thread logs inside `in_scope_lock` (752), another's handler interrupts a log line and spins for `in_scope_lock` (881) |
| `LockHeap` | `NoDeadlock` violated if threads share an arena: the insertion (753) allocates inside `in_scope_lock`, and another's handler interrupts an allocation |
| `LockDebugErrors` | `NoDeadlock` violated at level `debug`: the handler's own log line (869) on top of a log line of its thread, if `AsyncGetCallTrace` returns a number below its error codes |
| `NoTracer` | `TracerFound` violated: nobody looks at the pointer `GetJvmFunction` returns (`entry.cc:380`) before a handler calls it (862) |

## 4. Where code and intention differ

1. **A delay in a baseline experiment** (`BaselineStart`). `in_experiment` is
   set (376) before `current_experiment.delay` is (381); the field still holds
   the total of the last experiment (413). A handler of a late sampling signal
   charges its thread that total. The comment at 338 says the other speedups
   are interpreted relative to speedup 0.
2. **No line in end-to-end mode** (`EndToEndLine`). `Stop` raises the hit the
   experiment waits for and clears `_running`, and `runExperiment` abandons an
   experiment that ends with `_running` false (405): the line that would have had the
   hit is not written. `README.md:120` makes the end of the application the progress
   point.
3. **`fix_exp` is refused** (`FixExpOption`). The option is `fix-exp` (`args.h:38`),
   underscores separate options, and an unknown option ends the program.
   `README.md:121` writes it with an underscore.

The further configurations above show others: the double push of a leaving thread
(`ExitTwice`), the record used after its deletion (`LateSignals`), the lock left
taken (`LockLeft`), the boundary of 5 hits (`LengthBoundary`).

## 5. What is proved

All theorems hold for any values of the constants that satisfy the modules'
named assumptions; no theorem uses fairness.

| Theorem | Argument |
|---|---|
| `ExperimentProtocolProofs!TypeCorrect` | types, the signs of kept differences (`Signs`) and the counter below the period (`CountBelowPeriod`) are inductive together: a push of `-sleep_diff` stays in `Nat` only because of `Signs` |
| `...!NeverAheadOfItsCharge`, `PushesAreCovered` | between a test of the difference and the sleep or push it leads to, others raise `global_delay`; what survives is `local_delay + sleep_diff <= global_delay` (`DifferenceKept`), because only the reset lowers `global_delay`, and the reset makes every thread caught in between stale. For `removeUserThread`, which reads the two sides of the difference apart, `HalfReadIsCovered` says the same between the reads |
| `...!DelayIsBacked` | threads that tested and did not push yet have been charged what is not in `global_delay`. What a thread owes is the push it is committed to, or what it would push if it settled now (`Owed`), and `Paid` is its charges less that. `global_delay` is at most the sum of `Paid` over all threads, `leaked` and `repushed` (`LedgerBalanced`): a push pays off what it adds, or is by a stale thread and goes to `leaked`, or comes on top of its own handler's and goes to `repushed` (`BalancedByPayment`), and a push by others only lowers what a thread owes |
| `...!NobodyDelaysItself` | from the same ledger (`DelaysFromLedger`): all that a thread which is not stale was charged in this experiment is in its own `local_delay` (`ChargedLocally`), and `local_delay` with the sleep ahead is at most `global_delay`; so the rest of `global_delay`, which covers the sleep, was paid by others, leaked or pushed twice. That charges of two experiments do not mix needs the order of the agent's reset (`ChargesOfExperiment`) |
| `...!BaselineUndisturbed` (if `SettledThreads`, for `QuietSpec`) | if the agent's sleeps outlast the handlers, and nobody arrives or leaves, the sampling phase makes every thread forget its charge (`ForgettingCharges`), so that a baseline starts from zero and nothing is charged in it (`BaselineQuiet`). `QuietBaseline` runs the same |
| `...!HitsNotInvented` | every step moves hits from one place to the next, or loses them (`HitsByBalance`); between reading and clearing `points_hit` the line has what the counter still shows (`ReadHitsCovered`), and what `removeUserThread` has loaded from a thread's counter, once for each thread, is all that a signal can flush once more (`LoadedOnce`) |
| `FrameSamplingProofs!FramesExclusive`, `ScopeOwnerKeepsLock` | who is in a critical section has the lock taken (`FrameLockTaken`, `ScopeLockUsed`), and a handler that did not take `in_scope_lock` runs on top of its owner and leaves it as it is (`NestedOnOwner`) |
| `...!ReentrantLockImplemented` | under the same invariant every step acquires, releases or leaves alone (`AcquireStep`, `ReleaseStep`, `StutterStep`), one case per action (`LockStep`) |
| `...!MatchedRangesLive` | from the choice of a frame to the deletion the ranges live, and handlers of the experiment are over before (`RangesInv`, with `Grace`) |
| `...!TypeCorrect`, `ExperimentsInScope` | every frame in the array, in the agent's copy or on its way there is null or of a class that was found in scope (`CaughtInv`): a look-up during an insertion can only let in methods of the class being added; the choice drops null ones and those without lines |
| `ThreadRegistryProofs!HandlersFindRecord`, `RegisteredAlive`, `AgentLeftAlone`, `IterationSafe` | one invariant ties `thread_pc`, `curr_ut`, membership in `user_threads` and the lock's holder together; a thread was registered when it was sent a signal, so its record lives, or was deleted while the signal was under way, which is `late` (`SignalInv`) |
| `LockOrderProofs!DeadlockFree` (if `QuietAndPrivate`) | the locks have ranks, every path takes locks upwards (`CallbackPieces`, `AgentPieces`, `HandlerPieces`; put together by `JoinPieces`, `HoldPiece`), and a handler starts above what its thread holds or does not take it; so who waits waits for a higher rank, and a circle has a highest (`WaitsUpwards`, `NoCircle`) |
| `ClassPrepareProofs!TypeCorrect`, `EveryClassReachesScope` (if `PlainOptions` and `Failing = {}`) | from the list of loaded classes on, every allowed prepared class is added, still to be scanned, or has a thread on its way (`ScanInv`); that a callback is not turned away needs `_running` and the event to be set before the list is taken (`Phases`); allowed is asked for, as `strstr` finds a plain scope behind the `L` first (`AllowedIsAskedFor`) |
| `...!NothingElseReachesScope` (if `PlainOptions`), `ProgressPointInItsClass` (if `PlainOptions`) | only allowed classes are added, and who is past both checks has the progress point's signature (`ScopeInv`, `NamedBySignature`) |
| `...!ProgressPointIsOneBreakpoint` (if `SetBreakpoint` is not in `Failing`) | `class_prep_lock` is held from `GetClassMethods` to the release (`LockHeld`), so the test for an earlier progress point is still true when the new one is recorded (`PointInv`) |
| `LineRangesProofs!ChargesExactlyTheLine`, `SampledFrameIsCharged`, `TypeCorrect` | in an ascending table the entry that holds an index is unique (`TableIsAscending`, `EntryHoldsIndex`), and the ranges are those of the current line (`RangesInv`); the entry the search picks exists and holds the caught index, as a set of numbers has a least element (`CaughtEntryHolds`) |
| `ExperimentLengthProofs!LengthStaysInRange`, `TypeCorrect` | the division only happens above `MinTime` (`NextLengthBounded`); any factor 1 or 2, settings off the doubling ladder included |
| `...!LengthNeverBelowMin` (if `DoublingLadder`) | with the code's settings all lengths are on the ladder 5000, 10000, ..., 80000, off which a division could fall below the least length |
| `...!SpeedupsAreEquallyLikely` | by cases on the draw |
| `AgentLoadProofs!NeverHalfLoaded` | the events are enabled in order and only with all capabilities once the breakpoint event is among them; options are accepted only when complete (`ParsingAccepts`, `AcceptedKept`) |
| `...!SettingsAsAsked`, `OptionTypes`, `NeverRefusedWithoutCause` (if nobody writes `fix_exp`) | after `n` options the settings are what those `n` ask for (`AsAsked`), where the last option of a name among the first `n` takes the part of the last one of all; one case per option (`AppliedFields`, `ParseItemAsked`). At the end `n` is all of them, and what `Incomplete` finds is a cause the string shows; an item that is rejected is one that no document offers, unless it is a piece of `fix_exp` (`RejectedIsBad`) |

The assumptions in brackets are conditions under which the code is right and
without which it is not, or not always: each of `LockTrace`, `LockHeap`,
`LockDebugErrors`, `BaselineStart`, `BaselineExit` and `FixExpOption` above breaks
one, `LockLeft` shows what a member of `Failing` can do. `PlainOptions` excludes scopes
made of the letter L alone or containing a semicolon, which no name has.

**Sums and concatenations.** Delays are summed over all threads, and scopes
concatenated over all options, by recursive functions of the community modules.
What such a function does after a change at one place is an induction, which is
out of the prover's reach as a theorem about operators. It is replaced by a least
counterexample: among the sets, or numbers, for which a given formula fails there
is one without a smaller one (`MinimalSubset`, `LeastNatural`), and the formula is
written out each time. From that come the two equations that are used: a sum with
one element taken out (`SumSplit`), with its monotonicity, and a concatenation
prolonged by one (`FlattenStep`).

**Only model-checked.** Liveness (`StopReturns`, `HandlersReturn`,
`CallbacksReturn`, `CallbacksEnd`, `GrowsToMax`), since the prover has no fairness
or `ENABLED`. Every other property of a run that holds is also a theorem.

## 6. What is not modelled

- Wall-clock time: durations written to a line, the length of the warm-up, the
  exact 1 ms and 100 µs sleeps. Where an order of events depends on them it is
  free, or an assumption with a name.
- The bytecode-index histogram (`bci_hits.cc`): only the agent thread fills it,
  and `Stop` prints it when that thread is done; nothing else reads it.
- `create_thread`'s exits when the VM lacks `java/lang/Thread`,
  `Agent_OnUnload`, the scoped pointers and macros of `globals.h`.
- Memory-model effects beyond interleaving, torn or reordered accesses to plain
  fields, and what a broken hash table does beyond a wrong look-up.
- Line tables out of ascending order, and progress-point lines in several methods
  (the first found is taken).
- The content of the output file and of the log; clean class names
  (`cleanSignature`), which only the output shows.
- The Shiny viewer, the examples, the build.

## 7. Plan

Done: the core protocol, sampling and its locks, class preparation with names,
options and loading, the thread registry, the order of all locks, the
refinement of `in_scope_lock`, and theorems about every safety property. Left:

1. Composition of `ClassPrepare` and `FrameSampling` through `in_scope_ids`
   method by method, up to VM death; of `ThreadRegistry` and `ExperimentProtocol`
   through a record that is deleted and made again.
2. An abstract ledger of virtual time (charged, served, owed per thread) that
   `ExperimentProtocol` implements within an experiment; `LedgerBalanced` is the
   invariant such a mapping would rest on.

## 8. Running

    tlc -workers 2 -config ExperimentDelays.cfg MCExperimentProtocol
    tlapm ExperimentProtocolProofs.tla
