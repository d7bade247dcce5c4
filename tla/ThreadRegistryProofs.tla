------------------------ MODULE ThreadRegistryProofs ------------------------
(***************************************************************************)
(* Proofs about ThreadRegistry: for any threads, however often they attach *)
(* and whatever thread_in_main says, the lock keeps the agent thread's     *)
(* iteration undisturbed, what it visits is alive, and a handler finds no  *)
(* record only if its signal was on its way when the record was deleted.   *)
(***************************************************************************)
EXTENDS ThreadRegistry, TLAPS

\* Whoever is between taking and releasing user_threads_lock is its holder.
LockInv ==
    /\ \A t \in JavaThreads : thread_pc[t] \in {"inserting", "erasing"} => user_threads_lock = t
    /\ agent_pc \in {"self", "kill"} => user_threads_lock = Agent /\ thread_pc[Agent] = "java"

\* curr_ut is alive from the record's making until its deletion, and the record is
\* in the set for a part of that time.
WithRecord == {"insert", "inserting", "erase", "erasing", "delete"}
Registered == {"java", "hit", "erase", "erasing"}

RecordInv ==
    \A t \in JavaThreads :
        /\ thread_pc[t] \in WithRecord => curr_ut[t] = "live"
        /\ thread_pc[t] \in {"java", "hit"} => curr_ut[t] # "deleted"
        /\ t \in user_threads => curr_ut[t] = "live" /\ thread_pc[t] \in Registered

\* The agent thread attaches once, and before it signals anybody it is out of the set.
AgentInv ==
    /\ starts[Agent] < 1 => thread_pc[Agent] = "detached" /\ agent_pc = "start"
    /\ agent_pc \notin {"start", "self"} => curr_ut[Agent] = "null" /\ Agent \notin user_threads
    /\ agent_pc \notin {"loop", "kill", "done"} => pending = {} /\ handling = {}
    /\ agent_pc = "kill" => to_signal \subseteq user_threads
    /\ Agent \notin pending \cup handling

\* Where a thread may be when a signal reaches it that is not late: its record is not
\* deleted yet.  A late signal that is handled is not on its way any more, and one
\* sent after it is not late.
SignalInv ==
    /\ \A t \in (pending \cup handling) \ late :
          curr_ut[t] = "live" /\ thread_pc[t] \in Registered \cup {"delete"}
    /\ pending \cap handling \cap late = {}

IInv == TypeOK /\ LockInv /\ RecordInv /\ AgentInv /\ SignalInv

USE DEF JavaThreads, ThreadPCs, AgentPCs

\* The invariant holds initially: nobody has attached yet.
LEMMA InitIInv == Init => IInv
<1> SUFFICES ASSUME Init PROVE IInv
    OBVIOUS
<1> USE DEF Init
<1>1. TypeOK
    BY ConstantsAssumption DEF TypeOK
<1>2. LockInv /\ RecordInv /\ AgentInv /\ SignalInv
    BY DEF LockInv, RecordInv, AgentInv, SignalInv, WithRecord
<1> QED BY <1>1, <1>2 DEF IInv

\* Each step of a thread's own code keeps the invariant: the steps under the lock
\* find it theirs, the others leave the set alone.
LEMMA ThreadKeepsIInv ==
    ASSUME IInv, NEW t \in JavaThreads, ThreadCode(t)
    PROVE  IInv'
<1> USE ConstantsAssumption
<1> USE DEF IInv, TypeOK, LockInv, RecordInv, AgentInv, SignalInv, WithRecord, Registered,
            ThreadGoto, Take, threadVars, setVars, agentVars, signalVars, endVars
<1>1. CASE OnThreadStart(t) BY <1>1 DEF OnThreadStart
<1>2. CASE ThreadInfoFails(t) BY <1>2 DEF ThreadInfoFails
<1>3. CASE LockToInsert(t) BY <1>3 DEF LockToInsert
<1>4. CASE Insert(t) BY <1>4 DEF Insert
<1>5. CASE Breakpoint(t) BY <1>5 DEF Breakpoint
<1>6. CASE OnThreadEnd(t) BY <1>6 DEF OnThreadEnd
<1>7. CASE LockToErase(t) BY <1>7 DEF LockToErase
<1>8. CASE Erase(t) BY <1>8 DEF Erase
<1>9. CASE Delete(t) BY <1>9 DEF Delete
<1>10. CASE Exit(t) BY <1>10 DEF Exit
<1> QED BY <1>1, <1>2, <1>3, <1>4, <1>5, <1>6, <1>7, <1>8, <1>9, <1>10
        DEF ThreadCode, InCallback

\* Each step of the agent thread keeps it: it signals only what is in the set.
LEMMA AgentKeepsIInv ==
    ASSUME IInv, AgentCode
    PROVE  IInv'
<1> USE ConstantsAssumption
<1> USE DEF IInv, TypeOK, LockInv, RecordInv, AgentInv, SignalInv, WithRecord, Registered,
            AgentGoto, Take, threadVars, setVars, agentVars, signalVars, endVars
<1>1. CASE LockToEraseSelf BY <1>1 DEF LockToEraseSelf
<1>2. CASE EraseSelf BY <1>2 DEF EraseSelf
<1>3. CASE GetReady BY <1>3 DEF GetReady
<1>4. CASE LockToSignal BY <1>4 DEF LockToSignal
<1>5. ASSUME NEW t \in JavaThreads, Kill(t) PROVE IInv' BY <1>5 DEF Kill
<1>6. CASE UnlockSignal BY <1>6 DEF UnlockSignal
<1>7. CASE AgentDone BY <1>7 DEF AgentDone
<1> QED BY <1>1, <1>2, <1>3, <1>4, <1>5, <1>6, <1>7 DEF AgentCode

\* Handlers and Stop keep it, and so does every step.
LEMMA NextIInv == IInv /\ [Next]_vars => IInv'
<1> SUFFICES ASSUME IInv, [Next]_vars PROVE IInv'
    OBVIOUS
<1>1. ASSUME NEW t \in JavaThreads, Handle(t) PROVE IInv'
    BY <1>1, ConstantsAssumption DEF Handle, TakeSignal, IInv, TypeOK, LockInv, RecordInv, AgentInv, SignalInv,
       threadVars, setVars, agentVars, endVars
<1>2. ASSUME NEW t \in JavaThreads, HandlerReturns(t) PROVE IInv'
    BY <1>2, ConstantsAssumption DEF HandlerReturns, IInv, TypeOK, LockInv, RecordInv, AgentInv, SignalInv,
       threadVars, setVars, agentVars, endVars
<1>3. CASE Stop
    BY <1>3, ConstantsAssumption DEF Stop, StopRunning, IgnoreSignals, IInv, TypeOK, LockInv, RecordInv, AgentInv,
       SignalInv, threadVars, setVars, agentVars, signalVars
<1>4. CASE UNCHANGED vars
    BY <1>4 DEF vars, IInv, TypeOK, LockInv, RecordInv, AgentInv, SignalInv,
       threadVars, setVars, agentVars, signalVars, endVars
<1> QED BY <1>1, <1>2, <1>3, <1>4, ThreadKeepsIInv, AgentKeepsIInv DEF Next, Running

\* The invariant holds in every state.
LEMMA Invariance == Spec => []IInv
<1> QED BY InitIInv, NextIInv, PTL DEF Spec

\* Type correctness of the registry.
THEOREM TypeCorrect == Spec => []TypeOK
<1> QED BY Invariance, PTL DEF IInv

\* Handle finds its thread's record alive, also when the thread is on its way out or
\* has attached a second time, unless the signal outlived the record.
THEOREM HandlersFindRecord == Spec => []HandlerHasRecord
<1>1. IInv => HandlerHasRecord
    BY DEF IInv, SignalInv, HandlerHasRecord
<1> QED BY <1>1, Invariance, PTL

\* Every record signal_user_threads dereferences is alive, and so is its thread.
THEOREM RegisteredAlive == Spec => []RegisteredRecordsLive
<1>1. IInv => RegisteredRecordsLive
    BY DEF IInv, TypeOK, RecordInv, Registered, RegisteredRecordsLive
<1> QED BY <1>1, Invariance, PTL

\* No signal is ever sent to the agent thread.
THEOREM AgentLeftAlone == Spec => []AgentNeverSignalled
<1>1. IInv => AgentNeverSignalled
    BY DEF IInv, AgentInv, AgentNeverSignalled
<1> QED BY <1>1, Invariance, PTL

\* The set does not change under the agent thread's iterator.
THEOREM IterationSafe == Spec => IterationUndisturbed
<1>1. IInv /\ [Next]_vars => [agent_pc = "kill" => UNCHANGED user_threads]_vars
  <2> SUFFICES ASSUME IInv, Next, agent_pc = "kill" PROVE user_threads' = user_threads
      OBVIOUS
  <2> USE ConstantsAssumption DEF IInv, LockInv, ThreadGoto, AgentGoto, threadVars, setVars, agentVars, signalVars, endVars
  <2>1. ASSUME NEW t \in JavaThreads, ThreadCode(t) PROVE user_threads' = user_threads
    <3>1. thread_pc[t] \notin {"inserting", "erasing"}
        BY <2>1
    <3> QED BY <2>1, <3>1 DEF ThreadCode, InCallback, OnThreadStart, ThreadInfoFails, LockToInsert, Insert,
          Breakpoint, OnThreadEnd, LockToErase, Erase, Delete, Exit
  <2>2. CASE AgentCode
      BY <2>2 DEF AgentCode, LockToEraseSelf, EraseSelf, GetReady, LockToSignal, Kill,
         UnlockSignal, AgentDone
  <2>3. ASSUME NEW t \in JavaThreads, Handle(t) \/ HandlerReturns(t) PROVE user_threads' = user_threads
      BY <2>3 DEF Handle, HandlerReturns
  <2>4. CASE Stop
      BY <2>4 DEF Stop, StopRunning, IgnoreSignals
  <2> QED BY <2>1, <2>2, <2>3, <2>4 DEF Next, Running
<1> QED BY <1>1, Invariance, PTL DEF Spec, IterationUndisturbed

=============================================================================
