------------------------------ MODULE AgentLoad ------------------------------
(***************************************************************************)
(* Agent_OnLoad (src/src/entry.cc): how the VM loads the agent, with every *)
(* call into the VM that may fail on the way.  The options are parsed as   *)
(* in AgentOptions once the callbacks are registered.                      *)
(*                                                                         *)
(* The VM goes on if Agent_OnLoad returns 0 and gives up if it returns     *)
(* anything else; it posts no event before.                                *)
(*                                                                         *)
(* RegistrationFailedContinuing is RegistrationFailed as its message would *)
(* have it; it is not used here.                                           *)
(***************************************************************************)
EXTENDS AgentOptions

VARIABLES
    load_pc,       \* where Agent_OnLoad is
    capabilities,  \* the capabilities added to the JVMTI environment
    events,        \* the events enabled so far, in order
    asgct,         \* did GetJvmFunction find AsyncGetCallTrace?
    prof           \* "none", then "created", and "ready" once it has its jvmtiEnv

loadVars == <<load_pc, capabilities, events, asgct, prof>>

\* PrepareJvmti asks for these ...
caps == {"all_class_hook_events", "source_file_name", "line_numbers", "bytecodes",
         "constant_pool", "breakpoint_events"}

\* ... and RegisterJvmti enables these.
Events == <<"CLASS_LOAD", "BREAKPOINT", "THREAD_END", "THREAD_START", "VM_DEATH", "VM_INIT">>

\* The VM enables no breakpoint event without the capability.
MayEnable(event) == event = "BREAKPOINT" => "breakpoint_events" \in capabilities

LoadInit ==
    /\ Init
    /\ load_pc = "getEnv" /\ capabilities = {} /\ events = <<>>
    /\ asgct = FALSE /\ prof = "none"

Goto(from, to) == load_pc = from /\ load_pc' = to

\* JVMTI_VERSION is not to be had: the VM gives up.
GetEnv ==
    /\ Goto("getEnv", "prepare") \/ Goto("getEnv", "refused")
    /\ UNCHANGED <<vars, capabilities, events, asgct, prof>>

\* GetPotentialCapabilities may fail, and then nothing is asked for and all is well so far.
PrepareJvmti ==
    /\ Goto("prepare", "register")
    /\ capabilities' \in {{}, caps}
    /\ UNCHANGED <<vars, events, asgct, prof>>

\* A capability is missing or cannot be added: the VM goes on, without the profiler.
PrepareFailed ==
    /\ Goto("prepare", "continues")
    /\ UNCHANGED <<vars, capabilities, events, asgct, prof>>

SetEventCallbacks ==
    /\ Goto("register", "enable")
    /\ UNCHANGED <<vars, capabilities, events, asgct, prof>>

EnableEvent ==
    /\ load_pc = "enable"
    /\ MayEnable(Events[Len(events) + 1])
    /\ events' = Append(events, Events[Len(events) + 1])
    /\ load_pc' = IF Len(events') = Len(Events) THEN "asgct" ELSE "enable"
    /\ UNCHANGED <<vars, capabilities, asgct, prof>>

\* The VM refuses the callbacks, or an event when some may be enabled already.
RegistrationFailedContinuing ==
    /\ Goto("register", "continues") \/ Goto("enable", "continues")
    /\ UNCHANGED <<vars, capabilities, events, asgct, prof>>

RegistrationFailed ==
    /\ Goto("register", "refused") \/ Goto("enable", "refused")
    /\ UNCHANGED <<vars, capabilities, events, asgct, prof>>

\* dlopen and dlsym may find nothing, which nobody asks.
SetAsgct ==
    /\ Goto("asgct", "parse")
    /\ asgct' \in BOOLEAN
    /\ prof' = "created"
    /\ UNCHANGED <<vars, capabilities, events>>

\* The agent was loaded without an option string; no column names are written then.
MissingOptions ==
    /\ load_pc = "parse" /\ options = <<>> /\ outcome = "parsing"
    /\ outcome' = "exited"
    /\ UNCHANGED <<options, parsed, settings, loadVars>>

ParseOptions ==
    /\ load_pc = "parse"
    /\ Next
    /\ UNCHANGED loadVars

SetJVMTI ==
    /\ outcome = "accepted"
    /\ Goto("parse", "continues")
    /\ prof' = "ready"
    /\ UNCHANGED <<vars, capabilities, events, asgct>>

LoadNext ==
    \/ GetEnv \/ PrepareJvmti \/ PrepareFailed \/ SetEventCallbacks \/ EnableEvent
    \/ RegistrationFailed \/ SetAsgct \/ MissingOptions \/ ParseOptions \/ SetJVMTI

LoadSpec == LoadInit /\ [][LoadNext]_<<vars, loadVars>>

-----------------------------------------------------------------------------
(* Properties *)

\* A VM that goes on either posts the agent no event at all, or has everything the
\* callbacks rely on: all capabilities, all events, a profiler with its settings and
\* its JVMTI environment (entry.cc:373-375 fears a registration left half done).
AllOrNothing ==
    load_pc = "continues" /\ events # <<>> =>
        /\ capabilities = caps /\ events = Events
        /\ prof = "ready" /\ ~Incomplete(settings)

\* The handler calls AsyncGetCallTrace through a pointer that nobody has checked.  If
\* libjvm.so were always found, a profiler that runs would have it.
TracerFound == prof = "ready" => asgct

=============================================================================
