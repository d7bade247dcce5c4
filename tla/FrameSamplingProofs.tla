------------------------ MODULE FrameSamplingProofs ------------------------
(***************************************************************************)
(* Proofs about FrameSampling for any number of threads, methods, traces   *)
(* and slots: the two spin locks protect what they are meant to protect,   *)
(* although a handler may interrupt its thread inside a critical section   *)
(* and then works under the lock without taking it.                        *)
(***************************************************************************)
EXTENDS FrameSampling, TLAPS

LockTypes ==
    /\ frame_lock \in BOOLEAN
    /\ in_scope_lock \in Threads \cup {Free}
    /\ thread_pc \in [Threads -> ThreadPCs]
    /\ handler_pc \in [Threads -> HandlerPCs]
    /\ has_lock \in [Threads -> BOOLEAN]

\* Whoever is among the frames has set frame_lock.
FrameLockTaken ==
    AgentInFrames \/ (\E t \in Threads : HandlerInFrames(t)) => frame_lock = TRUE

\* The scope lock is not left behind: its owner is at work under it.
ScopeLockUsed ==
    \A t \in Threads : in_scope_lock = t => HandlerInScope(t) \/ ThreadInScope(t)

\* has_lock says exactly that the handler runs on top of its thread's critical section.
NestedOnOwner ==
    \A t \in Threads :
        /\ HandlerInScope(t) => (has_lock[t] <=> ThreadInScope(t))
        /\ has_lock[t] => HandlerInScope(t)

IInv ==
    /\ LockTypes
    /\ FrameLockExclusive /\ FrameLockTaken
    /\ ScopeLockHeld /\ ScopeLockUsed /\ NestedOnOwner

-----------------------------------------------------------------------------
\* Nobody holds a lock at the start.
LEMMA InitLocks == Init => IInv
BY ConstantsAssumption
   DEF Init, IInv, LockTypes, FrameLockExclusive, FrameLockTaken, ScopeLockHeld, ScopeLockUsed, NestedOnOwner,
       AgentInFrames, HandlerInFrames, HandlerInScope, ThreadInScope, ThreadPCs, HandlerPCs

\* Every step keeps both locks in order.
LEMMA LocksStep ==
    ASSUME IInv, [Next]_vars
    PROVE  IInv'
<1> USE ConstantsAssumption DEF IInv, LockTypes, FrameLockExclusive, FrameLockTaken, ScopeLockHeld, ScopeLockUsed, NestedOnOwner,
                AgentInFrames, HandlerInFrames, HandlerInScope, ThreadInScope, ThreadPCs, HandlerPCs,
                vars, agentVars, frameVars, scopeVars, threadVars, handlerVars
<1>1. CASE AgentLoop
  BY <1>1 DEF AgentLoop, AgentGoto
<1>2. CASE SampleRound
  BY <1>2 DEF SampleRound
<1>3. CASE AgentLockToCopy
  BY <1>3 DEF AgentLockToCopy, AgentGoto
<1>4. CASE CopyFrames
  BY <1>4 DEF CopyFrames, AgentGoto
<1>5. CASE ResetIndex
  BY <1>5 DEF ResetIndex
<1>6. CASE ChooseFrame
  BY <1>6 DEF ChooseFrame, AgentGoto
<1>7. CASE NoLineTable
  BY <1>7 DEF NoLineTable, AgentGoto
<1>8. CASE ResetIndexAgain
  BY <1>8 DEF ResetIndexAgain, AgentGoto
<1>9. CASE BeginExperiment
  BY <1>9 DEF BeginExperiment, AgentGoto
<1>10. CASE ExperimentRound
  BY <1>10 DEF ExperimentRound
<1>11. CASE EndExperiment
  BY <1>11 DEF EndExperiment, AgentGoto
<1>12. CASE EndSignal
  BY <1>12 DEF EndSignal, AgentGoto
<1>13. CASE DeleteRanges
  BY <1>13 DEF DeleteRanges, AgentGoto
<1>14. CASE AgentLockToClear
  BY <1>14 DEF AgentLockToClear, AgentGoto
<1>15. CASE ClearFrames
  BY <1>15 DEF ClearFrames, AgentGoto
<1>16. ASSUME NEW t \in Threads, Deliver(t) PROVE IInv'
  <2>1. /\ handler_pc[t] = "idle" /\ has_lock[t] = FALSE
        /\ has_lock' = [has_lock EXCEPT ![t] = ~in_experiment /\ in_scope_lock = t]
        /\ UNCHANGED <<agent_pc, frame_lock, in_scope_lock, thread_pc>>
    BY <1>16 DEF Deliver, HandlerGoto, OwnsScopeLock
  <2>2. handler_pc' = [handler_pc EXCEPT ![t] =
                         IF in_experiment THEN "match"
                         ELSE IF in_scope_lock = t THEN "scan" ELSE "lockScope"]
    BY <1>16 DEF Deliver, HandlerGoto, OwnsScopeLock
  <2>3. CASE in_experiment \/ in_scope_lock # t
    <3>1. has_lock' = [has_lock EXCEPT ![t] = FALSE] /\ handler_pc'[t] \in {"match", "lockScope"}
      BY <2>1, <2>2, <2>3
    <3>2. QED
      BY <2>1, <2>2, <3>1
  <2>4. CASE ~in_experiment /\ in_scope_lock = t
    <3>1. has_lock' = [has_lock EXCEPT ![t] = TRUE] /\ handler_pc'[t] = "scan"
      BY <2>1, <2>2, <2>4
    <3>2. QED
      BY <2>1, <2>2, <2>4, <3>1
  <2>5. QED
    BY <2>3, <2>4
<1>17. ASSUME NEW t \in Threads, Match(t) PROVE IInv'
  BY <1>17 DEF Match, HandlerGoto
<1>18. ASSUME NEW t \in Threads, LockScope(t) PROVE IInv'
  BY <1>18 DEF LockScope, HandlerGoto
<1>19. ASSUME NEW t \in Threads, Scan(t) PROVE IInv'
  BY <1>19 DEF Scan, HandlerGoto
<1>20. ASSUME NEW t \in Threads, LockFrame(t) PROVE IInv'
  BY <1>20 DEF LockFrame, HandlerGoto
<1>21. ASSUME NEW t \in Threads, ClaimIndex(t) PROVE IInv'
  BY <1>21 DEF ClaimIndex, HandlerGoto
<1>22. ASSUME NEW t \in Threads, StoreFrame(t) PROVE IInv'
  <2>1. /\ handler_pc[t] = "store" /\ handler_pc' = [handler_pc EXCEPT ![t] = "leave"]
        /\ frame_lock' = FALSE
        /\ UNCHANGED <<agent_pc, in_scope_lock, thread_pc, has_lock>>
    BY <1>22 DEF StoreFrame, HandlerGoto
  <2>2. ~AgentInFrames /\ \A u \in Threads : HandlerInFrames(u) => u = t
    BY <2>1
  <2>3. \A u \in Threads : ~HandlerInFrames(u)'
    BY <2>1, <2>2
  <2>4. FrameLockExclusive' /\ FrameLockTaken'
    BY <2>1, <2>2, <2>3
  <2>5. LockTypes' /\ ScopeLockHeld' /\ ScopeLockUsed' /\ NestedOnOwner'
    BY <2>1
  <2>6. QED
    BY <2>4, <2>5
<1>23. ASSUME NEW t \in Threads, Leave(t) PROVE IInv'
  BY <1>23 DEF Leave, HandlerGoto
<1>24. ASSUME NEW t \in Threads, ClassPrepare(t) PROVE IInv'
  BY <1>24 DEF ClassPrepare, ThreadGoto
<1>25. ASSUME NEW t \in Threads, LockToAdd(t) PROVE IInv'
  BY <1>25 DEF LockToAdd, ThreadGoto
<1>26. ASSUME NEW t \in Threads, AddMethod(t) PROVE IInv'
  BY <1>26 DEF AddMethod, ThreadGoto
<1>27. ASSUME NEW t \in Threads, UnlockAdd(t) PROVE IInv'
  BY <1>27 DEF UnlockAdd, ThreadGoto
<1>28. ASSUME NEW t \in Threads, LockToClear(t) PROVE IInv'
  BY <1>28 DEF LockToClear, ThreadGoto
<1>29. ASSUME NEW t \in Threads, ClearScope(t) PROVE IInv'
  BY <1>29 DEF ClearScope, ThreadGoto
<1>30. CASE StopRunning
  BY <1>30 DEF StopRunning
<1>31. CASE UNCHANGED vars
  BY <1>31
<1>32. QED
  BY <1>1, <1>2, <1>3, <1>4, <1>5, <1>6, <1>7, <1>8, <1>9, <1>10, <1>11, <1>12,
     <1>13, <1>14, <1>15, <1>16, <1>17, <1>18, <1>19, <1>20, <1>21, <1>22, <1>23,
     <1>24, <1>25, <1>26, <1>27, <1>28, <1>29, <1>30, <1>31
  DEF Next, AgentNext, Handler, HandlerStep, ThreadCode

\* Both locks are in order in every reachable state.
THEOREM LocksInvariant == Spec => []IInv
<1>1. IInv /\ [Next]_vars => IInv'
  BY LocksStep
<1>2. QED
  BY InitLocks, <1>1, PTL DEF Spec

\* The agent's copying and clearing and the handlers' storing of frames exclude each
\* other (profiler.cc: frame_lock).
THEOREM FramesExclusive == Spec => []FrameLockExclusive
<1>1. IInv => FrameLockExclusive
  BY DEF IInv
<1>2. QED
  BY LocksInvariant, <1>1, PTL

\* A thread in the scope's critical section owns in_scope_lock from its first step to
\* its last, whatever its own handler does in between (profiler.cc: has_lock).
THEOREM ScopeOwnerKeepsLock == Spec => []ScopeLockHeld
<1>1. IInv => ScopeLockHeld
  BY DEF IInv
<1>2. QED
  BY LocksInvariant, <1>1, PTL

-----------------------------------------------------------------------------
(* in_scope_lock and has_lock implement ReentrantLock *)

DepthOf == [t \in Threads |-> Depth(t)]

\* A thread that is alone in changing its depth, by one, and owns the lock after.
LEMMA AcquireStep ==
    ASSUME NEW t \in Threads, in_scope_lock \in {Free, t}, in_scope_lock' = t,
           Depth(t)' = Depth(t) + 1,
           \A u \in Threads \ {t} : Depth(u)' = Depth(u)
    PROVE  [ScopeLock!LockNext]_(ScopeLock!lockVars)
<1>1. DepthOf' = [DepthOf EXCEPT ![t] = @ + 1]
  BY DEF DepthOf
<1>2. ScopeLock!Acquire(t)
  BY <1>1 DEF ScopeLock!Acquire, DepthOf
<1>3. QED
  BY <1>2 DEF ScopeLock!LockNext

\* The same for leaving: the last to leave frees the lock, the handler above its
\* thread does not.
LEMMA ReleaseStep ==
    ASSUME NEW t \in Threads, Depth(t) > 0,
           in_scope_lock' = IF Depth(t) = 1 THEN Free ELSE in_scope_lock,
           Depth(t)' = Depth(t) - 1,
           \A u \in Threads \ {t} : Depth(u)' = Depth(u)
    PROVE  [ScopeLock!LockNext]_(ScopeLock!lockVars)
<1>1. DepthOf' = [DepthOf EXCEPT ![t] = @ - 1] /\ DepthOf[t] = Depth(t)
  BY DEF DepthOf
<1>2. ScopeLock!Release(t)
  BY <1>1 DEF ScopeLock!Release, DepthOf
<1>3. QED
  BY <1>2 DEF ScopeLock!LockNext

\* A step that takes nobody in or out leaves the abstract lock alone.
LEMMA StutterStep ==
    ASSUME in_scope_lock' = in_scope_lock, \A u \in Threads : Depth(u)' = Depth(u)
    PROVE  [ScopeLock!LockNext]_(ScopeLock!lockVars)
<1>1. DepthOf' = DepthOf
  BY DEF DepthOf
<1>2. QED
  BY <1>1 DEF ScopeLock!lockVars, DepthOf

\* Nobody is in at the start.
LEMMA LockInitially == Init => ScopeLock!LockInit
BY DEF Init, ScopeLock!LockInit, Depth, HandlerInScope, ThreadInScope

\* Every step acquires the lock, releases it, or leaves it alone.
LEMMA LockStep ==
    ASSUME IInv, [Next]_vars
    PROVE  [ScopeLock!LockNext]_(ScopeLock!lockVars)
<1> USE ConstantsAssumption DEF IInv, LockTypes, ScopeLockHeld, ScopeLockUsed, NestedOnOwner,
            HandlerInScope, ThreadInScope, Depth, ThreadPCs, HandlerPCs,
            vars, agentVars, frameVars, scopeVars, threadVars, handlerVars
<1>1. CASE AgentNext \/ StopRunning \/ UNCHANGED vars
  <2>1. UNCHANGED <<in_scope_lock, thread_pc, handler_pc>>
    BY <1>1 DEF AgentNext, StopRunning, AgentLoop, SampleRound, AgentLockToCopy, CopyFrames,
         ResetIndex, ChooseFrame, NoLineTable, ResetIndexAgain, BeginExperiment, ExperimentRound,
         EndExperiment, EndSignal, DeleteRanges, AgentLockToClear, ClearFrames
  <2>2. QED
    BY <2>1, StutterStep
<1>2. ASSUME NEW t \in Threads,
             \/ Match(t) \/ Scan(t) \/ LockFrame(t) \/ ClaimIndex(t) \/ StoreFrame(t)
             \/ ClassPrepare(t) \/ AddMethod(t)
      PROVE  [ScopeLock!LockNext]_(ScopeLock!lockVars)
  <2>1. in_scope_lock' = in_scope_lock
    BY <1>2 DEF Match, Scan, LockFrame, ClaimIndex, StoreFrame, ClassPrepare, AddMethod
  <2>2. \A u \in Threads : HandlerInScope(u)' = HandlerInScope(u)
    BY <1>2 DEF Match, Scan, LockFrame, ClaimIndex, StoreFrame, ClassPrepare, AddMethod,
         HandlerGoto, ThreadGoto
  <2>3. \A u \in Threads : ThreadInScope(u)' = ThreadInScope(u)
    BY <1>2 DEF Match, Scan, LockFrame, ClaimIndex, StoreFrame, ClassPrepare, AddMethod,
         HandlerGoto, ThreadGoto
  <2>4. QED
    BY <2>1, <2>2, <2>3, StutterStep
<1>3. ASSUME NEW t \in Threads, Deliver(t)
      PROVE  [ScopeLock!LockNext]_(ScopeLock!lockVars)
  <2>1. /\ handler_pc[t] = "idle"
        /\ UNCHANGED <<in_scope_lock, thread_pc>>
        /\ handler_pc' = [handler_pc EXCEPT ![t] =
                             IF in_experiment THEN "match"
                             ELSE IF in_scope_lock = t THEN "scan" ELSE "lockScope"]
    BY <1>3 DEF Deliver, HandlerGoto, OwnsScopeLock
  <2>2. CASE ~in_experiment /\ in_scope_lock = t
    <3>1. handler_pc' = [handler_pc EXCEPT ![t] = "scan"]
      BY <2>1, <2>2
    <3>2. Depth(t)' = Depth(t) + 1 /\ \A u \in Threads \ {t} : Depth(u)' = Depth(u)
      BY <2>1, <3>1
    <3>3. QED
      BY <2>1, <2>2, <3>2, AcquireStep
  <2>3. CASE in_experiment \/ in_scope_lock # t
    <3>1. handler_pc'[t] \in {"match", "lockScope"}
      BY <2>1, <2>3
    <3>2. \A u \in Threads : Depth(u)' = Depth(u)
      BY <2>1, <3>1
    <3>3. QED
      BY <2>1, <3>2, StutterStep
  <2>4. QED
    BY <2>2, <2>3
<1>4. ASSUME NEW t \in Threads, LockScope(t)
      PROVE  [ScopeLock!LockNext]_(ScopeLock!lockVars)
  <2>1. Depth(t)' = Depth(t) + 1 /\ \A u \in Threads \ {t} : Depth(u)' = Depth(u)
    BY <1>4 DEF LockScope, HandlerGoto
  <2>2. in_scope_lock = Free /\ in_scope_lock' = t
    BY <1>4 DEF LockScope
  <2>3. QED
    BY <2>1, <2>2, AcquireStep
<1>5. ASSUME NEW t \in Threads, Leave(t)
      PROVE  [ScopeLock!LockNext]_(ScopeLock!lockVars)
  <2>1. /\ handler_pc[t] = "leave" /\ handler_pc' = [handler_pc EXCEPT ![t] = "idle"]
        /\ thread_pc' = thread_pc
        /\ in_scope_lock' = IF has_lock[t] THEN in_scope_lock ELSE Free
    BY <1>5 DEF Leave, HandlerGoto
  <2>2. Depth(t)' = Depth(t) - 1 /\ \A u \in Threads \ {t} : Depth(u)' = Depth(u)
    BY <2>1
  <2>3. Depth(t) > 0 /\ (has_lock[t] <=> Depth(t) # 1)
    BY <2>1
  <2>4. QED
    BY <2>1, <2>2, <2>3, ReleaseStep
<1>6. ASSUME NEW t \in Threads, LockToAdd(t) \/ LockToClear(t)
      PROVE  [ScopeLock!LockNext]_(ScopeLock!lockVars)
  <2>1. Depth(t)' = Depth(t) + 1 /\ \A u \in Threads \ {t} : Depth(u)' = Depth(u)
    BY <1>6 DEF LockToAdd, LockToClear, ThreadGoto
  <2>2. in_scope_lock = Free /\ in_scope_lock' = t
    BY <1>6 DEF LockToAdd, LockToClear
  <2>3. QED
    BY <2>1, <2>2, AcquireStep
<1>7. ASSUME NEW t \in Threads, UnlockAdd(t) \/ ClearScope(t)
      PROVE  [ScopeLock!LockNext]_(ScopeLock!lockVars)
  <2>1. Depth(t)' = Depth(t) - 1 /\ \A u \in Threads \ {t} : Depth(u)' = Depth(u)
    BY <1>7 DEF UnlockAdd, ClearScope, ThreadGoto
  <2>2. Depth(t) = 1 /\ in_scope_lock' = Free
    BY <1>7 DEF UnlockAdd, ClearScope, ThreadGoto
  <2>3. QED
    BY <2>1, <2>2, ReleaseStep
<1>8. QED
  BY <1>1, <1>2, <1>3, <1>4, <1>5, <1>6, <1>7 DEF Next, Handler, HandlerStep, ThreadCode

\* The sampling and the class-prepare callbacks implement a reentrant lock: a handler
\* enters the section its own thread is in, nobody else does, and the lock is free
\* only when both have left (profiler.cc: has_lock in Handle and addInScopeMethods).
THEOREM ReentrantLockImplemented == Spec => ImplementsReentrantLock
<1>1. IInv /\ [Next]_vars => [ScopeLock!LockNext]_(ScopeLock!lockVars)
  BY LockStep
<1>2. QED
  BY LocksInvariant, LockInitially, <1>1, PTL
  DEF Spec, ImplementsReentrantLock, ScopeLock!LockSpec

-----------------------------------------------------------------------------
\* location_ranges are there from the choice of the frame to their deletion, and with
\* sleeps that outlast the handlers nobody matches frames outside an experiment.
RangesInv ==
    /\ handler_pc \in [Threads -> HandlerPCs]
    /\ agent_pc \in {"resetAgain", "begin", "experiment"} => ranges = "live"
    /\ in_experiment => agent_pc = "experiment"
    /\ Grace => \A t \in Threads : handler_pc[t] = "match" => in_experiment

\* There are no ranges, and no experiment, at the start.
LEMMA InitRanges == Init => RangesInv
BY ConstantsAssumption DEF Init, RangesInv, HandlerPCs

\* Every step keeps the ranges live while handlers may match.
LEMMA RangesStep ==
    ASSUME RangesInv, [Next]_vars
    PROVE  RangesInv'
<1> USE ConstantsAssumption DEF RangesInv, HandlerPCs,
                vars, agentVars, frameVars, scopeVars, threadVars, handlerVars
<1>1. CASE AgentLoop
  BY <1>1 DEF AgentLoop, AgentGoto
<1>2. CASE SampleRound
  BY <1>2 DEF SampleRound
<1>3. CASE AgentLockToCopy
  BY <1>3 DEF AgentLockToCopy, AgentGoto
<1>4. CASE CopyFrames
  BY <1>4 DEF CopyFrames, AgentGoto
<1>5. CASE ResetIndex
  BY <1>5 DEF ResetIndex
<1>6. CASE ChooseFrame
  BY <1>6 DEF ChooseFrame, AgentGoto
<1>7. CASE NoLineTable
  BY <1>7 DEF NoLineTable, AgentGoto
<1>8. CASE ResetIndexAgain
  BY <1>8 DEF ResetIndexAgain, AgentGoto
<1>9. CASE BeginExperiment
  BY <1>9 DEF BeginExperiment, AgentGoto
<1>10. CASE ExperimentRound
  BY <1>10 DEF ExperimentRound
<1>11. CASE EndExperiment
  BY <1>11 DEF EndExperiment, AgentGoto, HandlersOver
<1>12. CASE EndSignal
  BY <1>12 DEF EndSignal, AgentGoto
<1>13. CASE DeleteRanges
  BY <1>13 DEF DeleteRanges, AgentGoto
<1>14. CASE AgentLockToClear
  BY <1>14 DEF AgentLockToClear, AgentGoto
<1>15. CASE ClearFrames
  BY <1>15 DEF ClearFrames, AgentGoto
<1>16. ASSUME NEW t \in Threads, Deliver(t) PROVE RangesInv'
  BY <1>16 DEF Deliver, HandlerGoto, OwnsScopeLock
<1>17. ASSUME NEW t \in Threads, Match(t) PROVE RangesInv'
  BY <1>17 DEF Match, HandlerGoto
<1>18. ASSUME NEW t \in Threads, LockScope(t) PROVE RangesInv'
  BY <1>18 DEF LockScope, HandlerGoto
<1>19. ASSUME NEW t \in Threads, Scan(t) PROVE RangesInv'
  BY <1>19 DEF Scan, HandlerGoto
<1>20. ASSUME NEW t \in Threads, LockFrame(t) PROVE RangesInv'
  BY <1>20 DEF LockFrame, HandlerGoto
<1>21. ASSUME NEW t \in Threads, ClaimIndex(t) PROVE RangesInv'
  BY <1>21 DEF ClaimIndex, HandlerGoto
<1>22. ASSUME NEW t \in Threads, StoreFrame(t) PROVE RangesInv'
  BY <1>22 DEF StoreFrame, HandlerGoto
<1>23. ASSUME NEW t \in Threads, Leave(t) PROVE RangesInv'
  BY <1>23 DEF Leave, HandlerGoto
<1>24. ASSUME NEW t \in Threads, ClassPrepare(t) PROVE RangesInv'
  BY <1>24 DEF ClassPrepare, ThreadGoto
<1>25. ASSUME NEW t \in Threads, LockToAdd(t) PROVE RangesInv'
  BY <1>25 DEF LockToAdd, ThreadGoto
<1>26. ASSUME NEW t \in Threads, AddMethod(t) PROVE RangesInv'
  BY <1>26 DEF AddMethod, ThreadGoto
<1>27. ASSUME NEW t \in Threads, UnlockAdd(t) PROVE RangesInv'
  BY <1>27 DEF UnlockAdd, ThreadGoto
<1>28. ASSUME NEW t \in Threads, LockToClear(t) PROVE RangesInv'
  BY <1>28 DEF LockToClear, ThreadGoto
<1>29. ASSUME NEW t \in Threads, ClearScope(t) PROVE RangesInv'
  BY <1>29 DEF ClearScope, ThreadGoto
<1>30. CASE StopRunning
  BY <1>30 DEF StopRunning
<1>31. CASE UNCHANGED vars
  BY <1>31
<1>32. QED
  BY <1>1, <1>2, <1>3, <1>4, <1>5, <1>6, <1>7, <1>8, <1>9, <1>10, <1>11, <1>12,
     <1>13, <1>14, <1>15, <1>16, <1>17, <1>18, <1>19, <1>20, <1>21, <1>22, <1>23,
     <1>24, <1>25, <1>26, <1>27, <1>28, <1>29, <1>30, <1>31
  DEF Next, AgentNext, Handler, HandlerStep, ThreadCode

\* The handler never reads deleted location_ranges, if the agent's sleeps outlast the
\* handlers (profiler.cc: runExperiment's two sleeps and Handle's experiment branch).
THEOREM MatchedRangesLive == Spec => []RangesLiveWhileMatched
<1>1. RangesInv /\ [Next]_vars => RangesInv'
  BY RangesStep
<1>2. RangesInv => RangesLiveWhileMatched
  BY DEF RangesInv, RangesLiveWhileMatched
<1>3. QED
  BY InitRanges, <1>1, <1>2, PTL DEF Spec

-----------------------------------------------------------------------------
(* From the scope to the experiment: what is caught is a method of a class in scope *)

\* Until the agent thread is done, whatever is among the frames or caught by a handler
\* is a method of a prepared class in scope, or a cleared frame.  The scope is cleared
\* later, and a thread that inserts methods inserts them all.
Caught ==
    /\ agent_pc # "done" =>
          /\ call_frames \subseteq PreparedMethods \cup {Null}
          /\ static_call_frames \in [SlotIds -> PreparedMethods \cup {Null}]
    /\ \A t \in Threads :
          handler_pc[t] \in {"lockFrame", "claim", "store"} =>
              \E m \in Methods :
                  trace[t] = <<m>> /\ (agent_pc # "done" => m \in PreparedMethods)
    /\ \A t \in Threads :
          /\ adding[t] # {} => thread_pc[t] \in {"lockToAdd", "add"}
          /\ thread_pc[t] = "clear" => agent_pc = "done"

CaughtInv == TypeOK /\ Caught /\ ExperimentMethodAllowed

\* What is prepared are methods.
LEMMA PreparedAreMethods ==
    TypeOK => PreparedMethods \subseteq Methods /\ Null \notin PreparedMethods
<1> SUFFICES ASSUME TypeOK PROVE PreparedMethods \subseteq Methods
  BY ConstantsAssumption
<1>1. in_scope_ids \subseteq Methods /\ \A t \in Threads : adding[t] \subseteq Methods
  BY DEF TypeOK
<1> QED BY <1>1 DEF PreparedMethods

\* Nothing is caught at the start.
LEMMA InitCaught == Init => CaughtInv
<1> SUFFICES ASSUME Init PROVE CaughtInv
  OBVIOUS
<1>1. TypeOK
  <2>1. 0 \in 0..(Slots + 1)
    BY ConstantsAssumption
  <2>2. trace \in [Threads -> Seq(Methods)]
    BY DEF Init
  <2>3. QED
    BY <2>1, <2>2 DEF Init, TypeOK, AgentPCs, ThreadPCs, HandlerPCs
<1>2. Caught /\ ExperimentMethodAllowed
  BY DEF Init, Caught, ExperimentMethodAllowed
<1>3. QED
  BY <1>1, <1>2 DEF CaughtInv

\* The agent's steps: it copies, chooses and clears what the handlers caught.
LEMMA AgentCatches ==
    ASSUME CaughtInv, AgentNext
    PROVE  CaughtInv'
<1>p. PreparedMethods \subseteq Methods /\ Null \notin PreparedMethods
  BY PreparedAreMethods DEF CaughtInv
<1>u. PreparedMethods' = PreparedMethods
  <2>1. UNCHANGED <<in_scope_ids, adding>>
    BY DEF AgentNext, AgentLoop, SampleRound, AgentLockToCopy, CopyFrames, ResetIndex, ChooseFrame,
       NoLineTable, ResetIndexAgain, BeginExperiment, ExperimentRound, EndExperiment, EndSignal,
       DeleteRanges, AgentLockToClear, ClearFrames, agentVars, frameVars, scopeVars, threadVars
  <2>2. QED
    BY <2>1 DEF PreparedMethods
<1> USE ConstantsAssumption, <1>p, <1>u
        DEF CaughtInv, TypeOK, Caught, ExperimentMethodAllowed, AgentPCs, ThreadPCs, HandlerPCs,
            agentVars, frameVars, scopeVars, threadVars, handlerVars, AgentGoto
<1>1. CASE AgentLoop
  BY <1>1 DEF AgentLoop
<1>2. CASE SampleRound
  BY <1>2 DEF SampleRound
<1>3. CASE AgentLockToCopy
  BY <1>3 DEF AgentLockToCopy
<1>4. CASE CopyFrames
  <2>1. call_frames' \subseteq PreparedMethods \cup {Null}
    BY <1>4 DEF CopyFrames
  <2>2. /\ agent_pc' = "copied" /\ frame_lock' = FALSE
        /\ UNCHANGED <<running, in_experiment, method_id, ranges, call_index,
                       static_call_frames, scopeVars, threadVars, pending, handlerVars>>
    BY <1>4 DEF CopyFrames
  <2>3. agent_pc = "copy"
    BY <1>4 DEF CopyFrames
  <2>4. TypeOK'
    BY <2>1, <2>2
  <2>5. QED
    BY <2>1, <2>2, <2>3, <2>4
<1>5. CASE ResetIndex
  BY <1>5 DEF ResetIndex
<1>6. CASE ChooseFrame
  BY <1>6 DEF ChooseFrame
<1>7. CASE NoLineTable
  BY <1>7 DEF NoLineTable
<1>8. CASE ResetIndexAgain
  BY <1>8 DEF ResetIndexAgain
<1>9. CASE BeginExperiment
  BY <1>9 DEF BeginExperiment
<1>10. CASE ExperimentRound
  BY <1>10 DEF ExperimentRound
<1>11. CASE EndExperiment
  BY <1>11 DEF EndExperiment
<1>12. CASE EndSignal
  BY <1>12 DEF EndSignal
<1>13. CASE DeleteRanges
  BY <1>13 DEF DeleteRanges
<1>14. CASE AgentLockToClear
  BY <1>14 DEF AgentLockToClear
<1>15. CASE ClearFrames
  BY <1>15 DEF ClearFrames
<1>16. QED
  BY <1>1, <1>2, <1>3, <1>4, <1>5, <1>6, <1>7, <1>8, <1>9, <1>10, <1>11, <1>12, <1>13, <1>14, <1>15 DEF AgentNext

\* The handlers' steps: what they catch is in scope.
LEMMA HandlerCatches ==
    ASSUME CaughtInv, NEW t \in Threads, Handler(t)
    PROVE  CaughtInv'
<1>p. PreparedMethods \subseteq Methods /\ Null \notin PreparedMethods
  BY PreparedAreMethods DEF CaughtInv
<1>u. PreparedMethods' = PreparedMethods
  <2>1. UNCHANGED <<in_scope_ids, adding>>
    BY DEF Handler, HandlerStep, Deliver, Match, LockScope, Scan, LockFrame, ClaimIndex, StoreFrame,
       Leave, scopeVars, threadVars
  <2>2. QED
    BY <2>1 DEF PreparedMethods
<1> USE ConstantsAssumption, <1>p, <1>u
        DEF CaughtInv, TypeOK, Caught, ExperimentMethodAllowed, AgentPCs, ThreadPCs, HandlerPCs,
            agentVars, frameVars, scopeVars, threadVars, handlerVars, HandlerGoto
<1>1. CASE Deliver(t)
  <2>1. PICK s \in Traces : trace' = [trace EXCEPT ![t] = s]
    BY <1>1 DEF Deliver
  <2>2. s \in Seq(Methods)
    OBVIOUS
  <2>3. \E pc \in {"match", "scan", "lockScope"} : handler_pc' = [handler_pc EXCEPT ![t] = pc]
    BY <1>1 DEF Deliver
  <2>4. /\ pending' \subseteq pending /\ has_lock' \in [Threads -> BOOLEAN]
        /\ UNCHANGED <<agentVars, frameVars, scopeVars, threadVars, index>>
    BY <1>1 DEF Deliver, OwnsScopeLock
  <2>5. TypeOK'
    <3>1. trace' \in [Threads -> Seq(Methods)]
      BY <2>1, <2>2
    <3>2. handler_pc' \in [Threads -> HandlerPCs]
      BY <2>3
    <3>3. QED
      BY <2>4, <3>1, <3>2
  <2>6. Caught' /\ ExperimentMethodAllowed'
    BY <2>1, <2>3, <2>4
  <2>7. QED
    BY <2>5, <2>6
<1>2. CASE Match(t)
  BY <1>2 DEF Match
<1>3. CASE LockScope(t)
  BY <1>3 DEF LockScope
<1>4. CASE Scan(t)
  <2>1. PICK scope \in ScopeSeen(t) :
          \/ \E i \in DOMAIN trace[t] :
               /\ trace[t][i] \in scope
               /\ trace' = [trace EXCEPT ![t] = <<trace[t][i]>>]
               /\ handler_pc' = [handler_pc EXCEPT ![t] = "lockFrame"]
          \/ /\ trace' = [trace EXCEPT ![t] = <<>>]
             /\ handler_pc' = [handler_pc EXCEPT ![t] = "leave"]
    BY <1>4 DEF Scan
  <2>2. scope \subseteq PreparedMethods
    <3>1. CASE has_lock[t]
      BY <2>1, <3>1 DEF ScopeSeen, PreparedMethods
    <3>2. CASE ~has_lock[t]
      BY <2>1, <3>2 DEF ScopeSeen, PreparedMethods
    <3>3. QED
      BY <3>1, <3>2
  <2>3. \/ \E m \in PreparedMethods :
             /\ trace' = [trace EXCEPT ![t] = <<m>>]
             /\ handler_pc' = [handler_pc EXCEPT ![t] = "lockFrame"]
        \/ /\ trace' = [trace EXCEPT ![t] = <<>>]
           /\ handler_pc' = [handler_pc EXCEPT ![t] = "leave"]
    BY <2>1, <2>2
  <2>4. UNCHANGED <<agentVars, frameVars, scopeVars, threadVars, pending, has_lock, index>>
    BY <1>4 DEF Scan
  <2>5. CASE \E m \in PreparedMethods :
               /\ trace' = [trace EXCEPT ![t] = <<m>>]
               /\ handler_pc' = [handler_pc EXCEPT ![t] = "lockFrame"]
    <3>1. PICK m \in PreparedMethods :
            /\ trace' = [trace EXCEPT ![t] = <<m>>]
            /\ handler_pc' = [handler_pc EXCEPT ![t] = "lockFrame"]
      BY <2>5
    <3>2. <<m>> \in Seq(Methods)
      OBVIOUS
    <3>3. QED
      BY <2>4, <3>1, <3>2
  <2>6. CASE /\ trace' = [trace EXCEPT ![t] = <<>>]
             /\ handler_pc' = [handler_pc EXCEPT ![t] = "leave"]
    BY <2>4, <2>6
  <2>7. QED
    BY <2>3, <2>5, <2>6
<1>5. CASE LockFrame(t)
  BY <1>5 DEF LockFrame
<1>6. CASE ClaimIndex(t)
  BY <1>6 DEF ClaimIndex
<1>7. CASE StoreFrame(t)
  <2>1. PICK m \in Methods :
          trace[t] = <<m>> /\ (agent_pc # "done" => m \in PreparedMethods)
    BY <1>7 DEF StoreFrame
  <2>2. /\ static_call_frames' \in [SlotIds -> Methods \cup {Null}]
        /\ agent_pc # "done" => static_call_frames' \in [SlotIds -> PreparedMethods \cup {Null}]
    <3>1. static_call_frames' = Stored(index[t], m)
      BY <1>7, <2>1 DEF StoreFrame
    <3>2. CASE index[t] < Slots
      BY <2>1, <3>1, <3>2 DEF Stored
    <3>3. CASE ~(index[t] < Slots)
      BY <3>1, <3>3 DEF Stored
    <3>4. QED
      BY <3>2, <3>3
  <2>3. /\ handler_pc' = [handler_pc EXCEPT ![t] = "leave"] /\ frame_lock' = FALSE
        /\ trace' = [trace EXCEPT ![t] = <<>>] /\ index' = [index EXCEPT ![t] = 0]
        /\ UNCHANGED <<agentVars, call_index, scopeVars, threadVars, pending, has_lock>>
    BY <1>7 DEF StoreFrame
  <2>4. 0 \in 0..(Slots + 1) /\ <<>> \in Seq(Methods)
    OBVIOUS
  <2>5. TypeOK'
    BY <2>2, <2>3, <2>4
  <2>6. Caught' /\ ExperimentMethodAllowed'
    BY <2>2, <2>3
  <2>7. QED
    BY <2>5, <2>6
<1>8. CASE Leave(t)
  BY <1>8 DEF Leave
<1>9. QED
  BY <1>1, <1>2, <1>3, <1>4, <1>5, <1>6, <1>7, <1>8 DEF Handler, HandlerStep

\* The threads' steps: they only add to what is prepared, until the agent is done.
LEMMA ThreadCatches ==
    ASSUME CaughtInv, NEW t \in Threads, ThreadCode(t)
    PROVE  CaughtInv'
<1>p. PreparedMethods \subseteq Methods /\ Null \notin PreparedMethods
  BY PreparedAreMethods DEF CaughtInv
<1>u. agent_pc # "done" => PreparedMethods \subseteq PreparedMethods'
  <2> USE DEF CaughtInv, TypeOK, Caught, ThreadGoto, scopeVars, threadVars, ThreadPCs
  <2>1. CASE ClassPrepare(t)
    <3>1. adding[t] = {} /\ in_scope_ids' = in_scope_ids
      BY <2>1 DEF ClassPrepare
    <3>2. \A u \in Threads : adding[u] \subseteq adding'[u]
      BY <2>1, <3>1 DEF ClassPrepare
    <3>3. QED
      BY <3>1, <3>2 DEF PreparedMethods
  <2>2. CASE LockToAdd(t) \/ UnlockAdd(t)
    BY <2>2 DEF LockToAdd, UnlockAdd, PreparedMethods
  <2>3. CASE AddMethod(t)
    <3>1. PICK m \in adding[t] : /\ in_scope_ids' = in_scope_ids \cup {m}
                                 /\ adding' = [adding EXCEPT ![t] = @ \ {m}]
      BY <2>3 DEF AddMethod
    <3>2. \A u \in Threads : adding[u] \subseteq in_scope_ids' \cup adding'[u]
      BY <3>1
    <3>3. QED
      BY <3>1, <3>2 DEF PreparedMethods
  <2>4. CASE LockToClear(t) \/ ClearScope(t)
    BY <2>4 DEF LockToClear, ClearScope
  <2>5. QED
    BY <2>1, <2>2, <2>3, <2>4 DEF ThreadCode
<1> USE ConstantsAssumption, <1>p, <1>u
        DEF CaughtInv, TypeOK, Caught, ExperimentMethodAllowed, AgentPCs, ThreadPCs, HandlerPCs,
            agentVars, frameVars, scopeVars, threadVars, handlerVars, ThreadGoto
<1>1. CASE ClassPrepare(t)
  BY <1>1 DEF ClassPrepare
<1>2. CASE LockToAdd(t)
  BY <1>2 DEF LockToAdd
<1>3. CASE AddMethod(t)
  BY <1>3 DEF AddMethod
<1>4. CASE UnlockAdd(t)
  BY <1>4 DEF UnlockAdd
<1>5. CASE LockToClear(t)
  BY <1>5 DEF LockToClear
<1>6. CASE ClearScope(t)
  BY <1>6 DEF ClearScope
<1>7. QED
  BY <1>1, <1>2, <1>3, <1>4, <1>5, <1>6 DEF ThreadCode

\* Every reachable state catches only methods of prepared classes.
THEOREM CaughtInvariant == Spec => []CaughtInv
<1>1. CaughtInv /\ [Next]_vars => CaughtInv'
  <2> SUFFICES ASSUME CaughtInv, [Next]_vars PROVE CaughtInv'
    OBVIOUS
  <2>1. CASE StopRunning
    <3>1. /\ running' = FALSE
          /\ UNCHANGED <<agent_pc, in_experiment, call_frames, method_id, ranges>>
          /\ UNCHANGED <<frameVars, scopeVars, threadVars, pending, handlerVars>>
      BY <2>1 DEF StopRunning
    <3>2. PreparedMethods' = PreparedMethods
      BY <3>1 DEF PreparedMethods, scopeVars, threadVars
    <3>3. TypeOK'
      BY <3>1 DEF CaughtInv, TypeOK, frameVars, scopeVars, threadVars, handlerVars
    <3>4. Caught' /\ ExperimentMethodAllowed'
      BY <3>1, <3>2 DEF CaughtInv, Caught, ExperimentMethodAllowed,
         frameVars, scopeVars, threadVars, handlerVars
    <3>5. QED
      BY <3>3, <3>4 DEF CaughtInv
  <2>2. CASE UNCHANGED vars
    BY <2>2 DEF vars, CaughtInv, TypeOK, Caught, ExperimentMethodAllowed, PreparedMethods,
         agentVars, frameVars, scopeVars, threadVars, handlerVars
  <2>3. QED
    BY <2>1, <2>2, AgentCatches, HandlerCatches, ThreadCatches DEF Next
<1>2. QED
  BY InitCaught, <1>1, PTL DEF Spec

\* Type correctness of the sampling; among the rest, no frame is stored beyond the slots.
THEOREM TypeCorrect == Spec => []TypeOK
<1>1. CaughtInv => TypeOK
  BY DEF CaughtInv
<1>2. QED
  BY CaughtInvariant, <1>1, PTL

\* Whatever the index counts and whenever the frames are cleared, an experiment is run
\* on a method with line numbers of a prepared class in scope (profiler.cc:
\* runAgentThread).
THEOREM ExperimentsInScope == Spec => []ExperimentMethodAllowed
<1>1. CaughtInv => ExperimentMethodAllowed
  BY DEF CaughtInv
<1>2. QED
  BY CaughtInvariant, <1>1, PTL

=============================================================================
