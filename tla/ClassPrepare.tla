---------------------------- MODULE ClassPrepare ----------------------------
(***************************************************************************)
(* The VM's callbacks around class preparation (src/src/entry.cc), from    *)
(* OnVMInit to OnVMDeath: the scan of the classes loaded before the agent, *)
(* the class-prepare callbacks that run at the same time on other threads, *)
(* the spin lock class_prep_lock around both, the progress point that is   *)
(* set by the first class that has it (src/src/profiler.cc:                *)
(* addProgressPoint), and the end of it all while callbacks are under way. *)
(*                                                                         *)
(* A method is not told apart from its class here; in_scope_ids method by  *)
(* method, and its lock, are in module FrameSampling.  class_prep_lock is  *)
(* never met by its owner: the callback prepares no class of its own.      *)
(*                                                                         *)
(* Next to a definition stands, where its name says so, the same with a    *)
(* plausible mistake in it (Unlocked, Trying, Keeping, Anyway); none of    *)
(* them is used here.                                                      *)
(***************************************************************************)
EXTENDS Integers, FiniteSets, ClassNames

CONSTANTS
    Threads,     \* Java threads that prepare classes
    InitThread,  \* the one of them that delivers VMInit
    Classes,     \* classes of the program, by identity (loaders may share a name)
    Signature,   \* their signatures
    search_scopes, ignored_scopes, progress_class,  \* Profiler's, as ParseOptions sets them
    HasLine,     \* those with a line-table entry for the progress point's line
    EndToEnd,    \* the end-to-end option
    Failing,     \* the JVMTI functions that may fail while the VM lives (no memory)
    None         \* nobody, or the null method id

ASSUME ConstantsAssumption ==
    /\ InitThread \in Threads /\ None \notin Threads
    /\ Signature \in [Classes -> Seq(STRING)]
    /\ search_scopes \subseteq Seq(STRING) /\ ignored_scopes \subseteq Seq(STRING)
    /\ progress_class \in Seq(STRING)
    /\ HasLine \subseteq Classes /\ None \notin Classes
    /\ EndToEnd \in BOOLEAN
    /\ Failing \subseteq {"SetEventNotificationMode", "GetClassMethods", "GetClassSignature",
                          "GetLineNumberTable", "SetBreakpoint", "RunAgentThread"}

VARIABLES
    phase,            \* the JVMTI phase, "live" until OnVMDeath has returned
    class_state,      \* the VM's state of each class
    events_enabled,   \* is the class-prepare event enabled?
    running,          \* Profiler::_running
    init_pc,          \* where run_profiler is
    to_scan,          \* loaded classes run_profiler has still to look at
    agent,            \* the agent thread: "none", "running" or "failed"
    pc,               \* where each thread is in OnClassPrepare or the scan's call
    class,            \* the class it is about
    class_prep_lock,  \* class_prep_lock
    in_scope_ids,     \* classes whose methods are in Profiler::in_scope_ids
    method_id,        \* progress_point->method_id, as its class
    breakpoints,      \* breakpoints set in the VM, as their classes
    stop_pc,          \* where OnVMDeath is
    exited            \* exit(1) was called, or a null pointer read

vmVars    == <<phase, class_state, events_enabled>>
initVars  == <<init_pc, to_scan, agent>>
callVars  == <<pc, class, class_prep_lock>>
pointVars == <<method_id, breakpoints>>
vars == <<vmVars, running, initVars, callVars, in_scope_ids, pointVars, stop_pc, exited>>

InitPCs == {"start", "enable", "list", "scan", "agent", "done"}
PCs == {"java", "post", "running", "acquire", "methods", "error", "scope", "check",
        "lookup", "setBreakpoint", "release", "crashed"}
StopPCs == {"vm", "waiting", "clearScope", "disable", "clearPoint", "forgetPoint", "over", "gone"}

Init ==
    /\ phase = "live" /\ events_enabled = FALSE /\ running = FALSE
    /\ class_state \in [Classes -> {"absent", "loaded", "prepared"}]
    /\ init_pc = "start" /\ to_scan = {} /\ agent = "none"
    /\ pc = [t \in Threads |-> "java"] /\ class = [t \in Threads |-> None]
    /\ class_prep_lock = None
    /\ in_scope_ids = {} /\ method_id = None /\ breakpoints = {}
    /\ stop_pc = "vm" /\ exited = FALSE

\* Whether a call of JVMTI function f returns JVMTI_ERROR_NONE: never in the dead phase.
Succeeds(f) == IF phase # "live" THEN {FALSE} ELSE IF f \in Failing THEN BOOLEAN ELSE {TRUE}

-----------------------------------------------------------------------------
(* The VM: classes are loaded, then prepared, and then the event is posted. *)

LoadClass(c) ==
    /\ class_state[c] = "absent"
    /\ class_state' = [class_state EXCEPT ![c] = "loaded"]
    /\ UNCHANGED <<phase, events_enabled, running, initVars, callVars, in_scope_ids, pointVars,
                   stop_pc, exited>>

Busy(t) == pc[t] # "java" \/ (t = InitThread /\ init_pc # "done")

PrepareClass(t, c) ==
    /\ ~Busy(t) /\ class_state[c] = "loaded"
    /\ class_state' = [class_state EXCEPT ![c] = "prepared"]
    /\ pc' = [pc EXCEPT ![t] = "post"] /\ class' = [class EXCEPT ![t] = c]
    /\ UNCHANGED <<phase, events_enabled, running, initVars, class_prep_lock, in_scope_ids,
                   pointVars, stop_pc, exited>>

Goto(t, from, to) == pc[t] = from /\ pc' = [pc EXCEPT ![t] = to]

PostEvent(t) ==
    /\ Goto(t, "post", IF events_enabled THEN "running" ELSE "java")
    /\ UNCHANGED <<vmVars, running, initVars, class, class_prep_lock, in_scope_ids, pointVars,
                   stop_pc, exited>>

-----------------------------------------------------------------------------
(* CreateJMethodIDsForClass, on behalf of an event or of the scan *)

CheckRunning(t) ==
    /\ Goto(t, "running", IF running THEN "acquire" ELSE "java")
    /\ UNCHANGED <<vmVars, running, initVars, class, class_prep_lock, in_scope_ids, pointVars,
                   stop_pc, exited>>

AcquireUnlocked(t) ==
    /\ Goto(t, "acquire", "methods")
    /\ class_prep_lock' = t
    /\ UNCHANGED <<vmVars, running, initVars, class, in_scope_ids, pointVars, stop_pc, exited>>

AcquireTrying(t) ==
    /\ Goto(t, "acquire", IF class_prep_lock = None THEN "methods" ELSE "java")
    /\ class_prep_lock' = IF class_prep_lock = None THEN t ELSE class_prep_lock
    /\ UNCHANGED <<vmVars, running, initVars, class, in_scope_ids, pointVars, stop_pc, exited>>

AcquireCreateLock(t) ==
    /\ Goto(t, "acquire", "methods")
    /\ class_prep_lock = None /\ class_prep_lock' = t
    /\ UNCHANGED <<vmVars, running, initVars, class, in_scope_ids, pointVars, stop_pc, exited>>

\* GetClassMethods also fails for a class that is not prepared yet.
GetClassMethods(t) ==
    /\ \E ok \in Succeeds("GetClassMethods") :
          Goto(t, "methods", IF ok /\ class_state[class[t]] = "prepared" THEN "scope" ELSE "error")
    /\ UNCHANGED <<vmVars, running, initVars, class, class_prep_lock, in_scope_ids, pointVars,
                   stop_pc, exited>>

\* The error is logged with the class's signature.  If even that cannot be had,
\* JVMTI_ERROR returns from the function, the lock still taken.
ReportErrorKeeping(t) ==
    /\ Goto(t, "error", "java")
    /\ UNCHANGED <<vmVars, running, initVars, class, class_prep_lock, in_scope_ids, pointVars,
                   stop_pc, exited>>

ReportError(t) ==
    /\ \E ok \in Succeeds("GetClassSignature") :
          Goto(t, "error", IF ok THEN "release" ELSE "java")
    /\ UNCHANGED <<vmVars, running, initVars, class, class_prep_lock, in_scope_ids, pointVars,
                   stop_pc, exited>>

Allowed == {c \in Classes : is_in_allowed_scope(search_scopes, ignored_scopes, Signature[c])}

Named == {c \in Classes : is_progress_class(progress_class, Signature[c])}

\* addInScopeMethods, if the class is allowed, then the test for the progress point's
\* class.  If GetClassSignature fails the signature is null, and strstr reads it.
AddToScope(t) ==
    /\ \E ok \in Succeeds("GetClassSignature") :
          /\ Goto(t, "scope", IF ~ok THEN "crashed"
                              ELSE IF class[t] \in Named THEN "check" ELSE "release")
          /\ in_scope_ids' = IF ok /\ class[t] \in Allowed
                             THEN in_scope_ids \cup {class[t]} ELSE in_scope_ids
          /\ exited' = ~ok
    /\ UNCHANGED <<vmVars, running, initVars, class, class_prep_lock, pointVars, stop_pc>>

\* addProgressPoint: only ever once, and not at all in an end-to-end run.
CheckPoint(t) ==
    /\ Goto(t, "check", IF EndToEnd \/ method_id # None THEN "release" ELSE "lookup")
    /\ UNCHANGED <<vmVars, running, initVars, class, class_prep_lock, in_scope_ids, pointVars,
                   stop_pc, exited>>

\* The line is found in the line tables, or the process ends with exit(1).
RecordPoint(t) ==
    /\ Goto(t, "lookup", "setBreakpoint")
    /\ \E ok \in Succeeds("GetLineNumberTable") :
          IF ok /\ class[t] \in HasLine
            THEN method_id' = class[t] /\ UNCHANGED exited
            ELSE exited' = TRUE /\ UNCHANGED method_id
    /\ UNCHANGED <<vmVars, running, initVars, class, class_prep_lock, in_scope_ids, breakpoints,
                   stop_pc>>

\* progress_point->method_id is read again; SetBreakpoint refuses a null one.
SetBreakpointAnyway(t) ==
    /\ Goto(t, "setBreakpoint", "release")
    /\ breakpoints' = breakpoints \cup {method_id}
    /\ UNCHANGED <<vmVars, running, initVars, class, class_prep_lock, in_scope_ids, method_id,
                   stop_pc, exited>>

SetBreakpoint(t) ==
    /\ Goto(t, "setBreakpoint", "release")
    /\ \E ok \in Succeeds("SetBreakpoint") :
          breakpoints' = IF ok /\ method_id # None
                         THEN breakpoints \cup {method_id} ELSE breakpoints
    /\ UNCHANGED <<vmVars, running, initVars, class, class_prep_lock, in_scope_ids, method_id,
                   stop_pc, exited>>

ReleaseCreateLock(t) ==
    /\ Goto(t, "release", "java")
    /\ class_prep_lock' = None
    /\ UNCHANGED <<vmVars, running, initVars, class, in_scope_ids, pointVars, stop_pc, exited>>

CreateJMethodIDsForClass(t) ==
    \/ CheckRunning(t) \/ AcquireCreateLock(t) \/ GetClassMethods(t) \/ ReportError(t)
    \/ AddToScope(t) \/ CheckPoint(t) \/ RecordPoint(t) \/ SetBreakpoint(t)
    \/ ReleaseCreateLock(t)

Callback(t) == PostEvent(t) \/ CreateJMethodIDsForClass(t)

-----------------------------------------------------------------------------
(* run_profiler, on the thread that delivers VMInit *)

InitGoto(from, to) == init_pc = from /\ init_pc' = to

StartProfiler ==
    /\ InitGoto("start", "enable")
    /\ running' = TRUE
    /\ UNCHANGED <<vmVars, to_scan, agent, callVars, in_scope_ids, pointVars, stop_pc, exited>>

EnableEvents ==
    /\ InitGoto("enable", "list")
    /\ events_enabled' \in Succeeds("SetEventNotificationMode")
    /\ UNCHANGED <<phase, class_state, running, to_scan, agent, callVars, in_scope_ids, pointVars,
                   stop_pc, exited>>

\* GetLoadedClasses: prepared or not.
ListClasses ==
    /\ InitGoto("list", "scan")
    /\ to_scan' = {c \in Classes : class_state[c] # "absent"}
    /\ UNCHANGED <<vmVars, running, agent, callVars, in_scope_ids, pointVars, stop_pc, exited>>

ScanClass(c) ==
    /\ init_pc = "scan" /\ c \in to_scan
    /\ Goto(InitThread, "java", "running")
    /\ class' = [class EXCEPT ![InitThread] = c]
    /\ to_scan' = to_scan \ {c}
    /\ UNCHANGED <<vmVars, running, init_pc, agent, class_prep_lock, in_scope_ids, pointVars,
                   stop_pc, exited>>

EndScan ==
    /\ InitGoto("scan", "agent")
    /\ to_scan = {} /\ pc[InitThread] = "java"
    /\ UNCHANGED <<vmVars, running, to_scan, agent, callVars, in_scope_ids, pointVars,
                   stop_pc, exited>>

\* create_thread and RunAgentThread; nobody looks at the error.
RunAgentThread ==
    /\ InitGoto("agent", "done")
    /\ \E ok \in Succeeds("RunAgentThread") : agent' = IF ok THEN "running" ELSE "failed"
    /\ UNCHANGED <<vmVars, running, to_scan, callVars, in_scope_ids, pointVars, stop_pc, exited>>

RunProfiler ==
    \/ StartProfiler \/ EnableEvents \/ ListClasses \/ (\E c \in Classes : ScanClass(c))
    \/ EndScan \/ RunAgentThread

-----------------------------------------------------------------------------
(* OnVMDeath, on a thread of its own *)

StopGoto(from, to) == stop_pc = from /\ stop_pc' = to

VMDeath ==
    /\ init_pc = "done"
    /\ StopGoto("vm", "waiting")
    /\ running' = FALSE
    /\ UNCHANGED <<vmVars, initVars, callVars, in_scope_ids, pointVars, exited>>

\* The spin on profile_done ends, if there is an agent thread to set it (that it
\* does: module ExperimentProtocol).
AgentDone ==
    /\ StopGoto("waiting", "clearScope")
    /\ agent = "running"
    /\ UNCHANGED <<vmVars, running, initVars, callVars, in_scope_ids, pointVars, exited>>

ClearScope ==
    /\ StopGoto("clearScope", "disable")
    /\ in_scope_ids' = {}
    /\ UNCHANGED <<vmVars, running, initVars, callVars, pointVars, exited>>

DisableEvents ==
    /\ StopGoto("disable", "clearPoint")
    /\ \E ok \in Succeeds("SetEventNotificationMode") :
          events_enabled' = (events_enabled /\ ~ok)
    /\ UNCHANGED <<phase, class_state, running, initVars, callVars, in_scope_ids, pointVars, exited>>

\* clearProgressPoint, which takes no lock.
ClearBreakpoint ==
    /\ StopGoto("clearPoint", IF ~EndToEnd /\ method_id # None THEN "forgetPoint" ELSE "over")
    /\ breakpoints' = breakpoints \ {method_id}
    /\ UNCHANGED <<vmVars, running, initVars, callVars, in_scope_ids, method_id, exited>>

ForgetPoint ==
    /\ StopGoto("forgetPoint", "over")
    /\ method_id' = None
    /\ UNCHANGED <<vmVars, running, initVars, callVars, in_scope_ids, breakpoints, exited>>

\* The callback has returned, and JVMTI calls fail from here on.
EnterDeadPhase ==
    /\ StopGoto("over", "gone")
    /\ phase' = "dead"
    /\ UNCHANGED <<class_state, events_enabled, running, initVars, callVars, in_scope_ids,
                   pointVars, exited>>

Stopping ==
    \/ AgentDone \/ ClearScope \/ DisableEvents \/ ClearBreakpoint \/ ForgetPoint
    \/ EnterDeadPhase

-----------------------------------------------------------------------------

Next ==
    /\ ~exited
    /\ \/ RunProfiler
       \/ VMDeath
       \/ Stopping
       \/ \E c \in Classes : LoadClass(c)
       \/ \E t \in Threads : Callback(t)
       \/ \E t \in Threads, c \in Classes : PrepareClass(t, c)

Spec == Init /\ [][Next]_vars

\* Every thread in a callback keeps running; classes and the VM's death come as they
\* like.  Weak fairness is enough for the spin lock: a thread only loses the race for
\* it to callbacks, and there is one for each class.
Fairness ==
    /\ WF_vars(~exited /\ RunProfiler)
    /\ WF_vars(~exited /\ Stopping)
    /\ \A t \in Threads : WF_vars(~exited /\ Callback(t))

FairSpec == Spec /\ Fairness

-----------------------------------------------------------------------------
(* Properties *)

TypeOK ==
    /\ phase \in {"live", "dead"} /\ events_enabled \in BOOLEAN
    /\ class_state \in [Classes -> {"absent", "loaded", "prepared"}]
    /\ running \in BOOLEAN /\ exited \in BOOLEAN
    /\ init_pc \in InitPCs /\ to_scan \subseteq Classes
    /\ agent \in {"none", "running", "failed"}
    /\ pc \in [Threads -> PCs] /\ class \in [Threads -> Classes \cup {None}]
    /\ class_prep_lock \in Threads \cup {None}
    /\ in_scope_ids \subseteq Classes
    /\ method_id \in Classes \cup {None} /\ breakpoints \subseteq Classes
    /\ stop_pc \in StopPCs

\* The thread is on its way to add the methods of class c.
OnItsWay(t, c) ==
    class[t] = c /\ pc[t] \in {"post", "running", "acquire", "methods", "scope"}

\* The classes the options ask for: their names start with a scope that is searched
\* and with none that is ignored.
AskedFor == {c \in Classes :
    /\ \E scope \in search_scopes : StartsWith(Name(Signature[c]), scope)
    /\ ~ \E scope \in ignored_scopes : StartsWith(Name(Signature[c]), scope)}

\* Once run_profiler is over, every prepared class that is asked for has its methods in
\* in_scope_ids or its callback on the way there: between the event being enabled
\* and the list of loaded classes being taken, none falls through (run_profiler:
\* the order of its calls; CreateJMethodIDsForClass: the test of _running).  A class
\* that the VM refuses to describe (Failing) is missed.
NoClassMissed ==
    init_pc = "done" /\ stop_pc = "vm" =>
        \A c \in AskedFor :
            class_state[c] = "prepared" =>
                c \in in_scope_ids \/ \E t \in Threads : OnItsWay(t, c)

\* No class is in scope that the options do not ask for: strstr finds a scope anywhere
\* in a signature, but it counts behind the L only, and ignored scopes win.
OnlyAskedFor == in_scope_ids \subseteq AskedFor

\* The progress point is in a class of its name, not in one whose name only starts so,
\* although the first check of the two is satisfied with that.
PointInItsClass ==
    method_id # None => Signature[method_id] = progress_class \o <<";">>

InAddProgressPoint(t) == pc[t] \in {"lookup", "setBreakpoint"}

\* The progress point is one breakpoint, the one progress_point records, although a
\* class may be scanned and announced at once, and loaders may share its name.  It
\* takes a VM that does not refuse to set it.
OneBreakpoint ==
    stop_pc = "vm" /\ ~(\E t \in Threads : InAddProgressPoint(t)) =>
        breakpoints = {method_id} \ {None}

\* While the VM lives a callback returns, also beside one for a class whose methods
\* cannot be had, whose error has to be logged: class_prep_lock is released again.
\* That takes a VM that tells the class's signature then; where it does not,
\* JVMTI_ERROR returns without the release (entry.cc:186), and every later callback
\* spins for ever.
CallbacksReturn ==
    \A t \in Threads :
        (pc[t] = "acquire") ~> (pc[t] = "java" \/ phase = "dead" \/ exited)

\* profiler.cc:1032-1033: Stop waits for the end of the run and then flushes the
\* output; so the wait must end.
StopEnds == (stop_pc = "waiting") ~> (stop_pc # "waiting" \/ exited)

=============================================================================
