------------------------ MODULE MCExperimentProtocol ------------------------
(* TLC instances of ExperimentProtocol: bounds on the runs, as state constraints. *)
EXTENDS ExperimentProtocol, TLC

CONSTANT MaxCharge   \* bound: the delays of the runs with two experiments

\* Bound: the VM does not die.  Stop only ever makes the agent thread leave its
\* loop, without the resets and the line of a completed experiment.
VMAlive == stop_pc = "vm"

SmallCharges ==
    /\ VMAlive
    /\ global_delay <= MaxCharge /\ leaked <= MaxCharge
    /\ \A t \in Threads : local_delay[t] <= MaxCharge /\ sampled[t] <= MaxCharge

\* The agent's sleeps are long enough for every handler.
PromptHandlers == SmallCharges /\ SleepsOutlastHandlers

\* No thread takes longer than a sampling phase to get through addUserThread.
PromptRegistration ==
    /\ SmallCharges
    /\ agent_pc \in {"zeroHits", "choose"} => \A t \in Threads : thread_pc[t] # "register"

\* Threads with the same part in the run are interchangeable.
ThreadSymmetry == Permutations(Early \cap Leaving) \cup Permutations(Early \ Leaving)

=============================================================================
