------------------------- MODULE ClassPrepareProofs -------------------------
(***************************************************************************)
(* Proofs about ClassPrepare, for any threads and classes: no class is     *)
(* missed by the scan and the callbacks together if the VM describes them  *)
(* all, none gets into the scope that the options do not ask for, and the  *)
(* progress point is one breakpoint, in a class of its name.               *)
(*                                                                         *)
(* NoClassMissed speaks of the time after the scan.  It is inductive once  *)
(* the classes still to be scanned count as on their way (ScanInv), and    *)
(* with what the phases of run_profiler and OnVMDeath imply for _running   *)
(* and the event (Phases).  OneBreakpoint rests on class_prep_lock being   *)
(* held from GetClassMethods to the release (LockHeld), so that the test   *)
(* for an earlier progress point is still true when it is recorded.        *)
(***************************************************************************)
EXTENDS ClassPrepare, TLAPS

Locked == {"methods", "error", "scope", "check", "lookup", "setBreakpoint", "release"}

LockHeld == \A t \in Threads : pc[t] \in Locked => class_prep_lock = t

Phases ==
    /\ stop_pc # "gone" => phase = "live"
    /\ stop_pc # "vm" => init_pc = "done"
    /\ stop_pc = "vm" /\ init_pc # "start" => running
    /\ Failing = {} /\ stop_pc = "vm" /\ init_pc \notin {"start", "enable"} => events_enabled
    /\ init_pc \in {"agent", "done"} => to_scan = {}

Base == TypeOK /\ LockHeld /\ Phases

\* From the list of loaded classes on, a prepared class is added, to be scanned, or
\* on its way.
ScanInv ==
    init_pc \in {"scan", "agent", "done"} /\ stop_pc = "vm" =>
        \A c \in Allowed :
            class_state[c] = "prepared" =>
                c \in in_scope_ids \cup to_scan \/ \E t \in Threads : OnItsWay(t, c)

\* A thread past the test for an earlier progress point finds none until it sets its own.
PointInv ==
    stop_pc = "vm" =>
        /\ OneBreakpoint
        /\ \A t \in Threads : pc[t] = "lookup" => method_id = None /\ breakpoints = {}
        /\ \A t \in Threads :
              pc[t] = "setBreakpoint" /\ ~exited => method_id # None /\ breakpoints = {}

\* What is in scope is allowed, and the progress point's class has passed both checks.
ScopeInv ==
    /\ in_scope_ids \subseteq Allowed
    /\ method_id # None => method_id \in Named
    /\ \A t \in Threads : pc[t] \in {"check", "lookup"} => class[t] \in Named

-----------------------------------------------------------------------------
(* The VM's answers, and signatures *)

\* A call fails in the dead phase, and otherwise only if it is one of those that may.
LEMMA Answers ==
    /\ \A f : Succeeds(f) \subseteq BOOLEAN
    /\ \A f : phase # "live" => Succeeds(f) = {FALSE}
    /\ \A f : phase = "live" /\ f \notin Failing => Succeeds(f) = {TRUE}
<1> QED BY DEF Succeeds

\* Only classes are allowed, and nobody is neither a thread nor a class.
LEMMA ThreadsAndClasses ==
    /\ Allowed \subseteq Classes /\ Named \subseteq Classes /\ HasLine \subseteq Classes
    /\ InitThread \in Threads /\ None \notin Threads /\ None \notin Classes
    /\ EndToEnd \in BOOLEAN
<1> QED BY ConstantsAssumption DEF Allowed, Named

\* entry.cc's is_class_fqn_prefix says whether the class's name starts with the scope,
\* if that scope is part of a name and not a row of the letter L: such a row is found
\* one place too early in the signature of a name that starts with it.
LEMMA PrefixOfName ==
    ASSUME NEW Chars, NEW sig \in Seq(Chars), ClassSignature(sig),
           NEW scope \in Seq(Chars), PlainScope(scope)
    PROVE  is_class_fqn_prefix(scope, sig) <=> StartsWith(Name(sig), scope)
<1>1. PICK n \in Nat : n = Len(sig)
    OBVIOUS
<1>2. PICK m \in Nat : m = Len(scope)
    OBVIOUS
<1>3. n > 2 /\ sig[1] = "L" /\ sig[n] = ";"
    BY <1>1 DEF ClassSignature
<1>4. PICK name \in Seq(Chars) :
          name = Name(sig) /\ Len(name) = n - 2 /\ \A k \in 1 .. n - 2 : name[k] = sig[k + 1]
    <2>1. n > 2 BY <1>3
    <2>2. 2 \in 1 .. n + 1 /\ n - 1 \in 1 .. n /\ (n - 1) - 2 + 1 = n - 2
        BY <2>1, <1>1
    <2> DEFINE s == SubSeq(sig, 2, n - 1)
    <2>3. s \in Seq(Chars) BY <2>2, <1>1
    <2>4. Len(s) = n - 2 BY <2>1, <2>2, <1>1
    <2>5. \A k \in 1 .. n - 2 : s[k] = sig[k + 1] BY <2>1, <2>2, <1>1
    <2> QED BY <2>3, <2>4, <2>5, <1>1 DEF Name
<1>5. OccursAt(scope, sig, 2) <=> m <= n - 1 /\ \A k \in 1 .. m : sig[k + 1] = scope[k]
    <2>1. \A k \in 1 .. m : 2 + k - 1 = k + 1 BY <1>2
    <2>2. 2 + m <= n + 1 <=> m <= n - 1 BY <1>1, <1>2
    <2> QED BY <1>1, <1>2, <2>1, <2>2 DEF OccursAt
<1>6. OccursAt(scope, sig, 1) => \A k \in 1 .. m : sig[k] = scope[k]
    <2>1. \A k \in 1 .. m : 1 + k - 1 = k BY <1>2
    <2> QED BY <1>1, <1>2, <2>1 DEF OccursAt
<1>7. StartsWith(Name(sig), scope) <=> m <= n - 2 /\ \A k \in 1 .. m : name[k] = scope[k]
    BY <1>2, <1>4 DEF StartsWith
<1>8. ASSUME m <= n - 1, \A k \in 1 .. m : sig[k + 1] = scope[k] PROVE m <= n - 2
    <2>1. ASSUME m = n - 1 PROVE FALSE
        <3>1. m \in 1 .. m /\ m + 1 = n
            <4>1. n > 2 BY <1>3
            <4> QED BY <4>1, <2>1, <1>1, <1>2
        <3>2. scope[m] = ";" BY <3>1, <1>3, <1>8
        <3> QED BY <3>1, <3>2, <1>2 DEF PlainScope
    <2> QED BY <2>1, <1>8
<1>9. ~(OccursAt(scope, sig, 1) /\ OccursAt(scope, sig, 2))
    <2> SUFFICES ASSUME OccursAt(scope, sig, 1), OccursAt(scope, sig, 2) PROVE FALSE
        OBVIOUS
    <2>1. PICK k \in 1 .. m : scope[k] # "L" /\ \A j \in 1 .. k - 1 : scope[j] = "L"
        BY <1>2 DEF PlainScope
    <2>2. scope[k] = sig[k] BY <1>6
    <2>3. k # 1 BY <2>1, <2>2, <1>3
    <2>4. k - 1 \in 1 .. m /\ k - 1 \in 1 .. k - 1 /\ (k - 1) + 1 = k BY <2>3
    <2>5. sig[k] = scope[k - 1] BY <2>4, <1>5
    <2> QED BY <2>1, <2>2, <2>4, <2>5
<1>10. \A k \in 1 .. m : m <= n - 2 => name[k] = sig[k + 1]
    BY <1>4
<1>11. OccursAt(scope, sig, 2) <=> StartsWith(Name(sig), scope)
    BY <1>5, <1>7, <1>8, <1>10
<1>12. is_class_fqn_prefix(scope, sig) <=> OccursAt(scope, sig, 2) /\ ~OccursAt(scope, sig, 1)
    BY DEF is_class_fqn_prefix, strstr
<1> QED BY <1>9, <1>11, <1>12

\* What the options and the signatures look like.
PlainOptions ==
    /\ \A c \in Classes : ClassSignature(Signature[c])
    /\ \A scope \in search_scopes \cup ignored_scopes : PlainScope(scope)

\* The classes that entry.cc lets through are those the options ask for.
LEMMA AllowedIsAskedFor == PlainOptions => Allowed = AskedFor
<1> SUFFICES ASSUME PlainOptions, NEW c \in Classes PROVE c \in Allowed <=> c \in AskedFor
    BY DEF Allowed, AskedFor
<1>1. \A scope \in search_scopes \cup ignored_scopes :
          is_class_fqn_prefix(scope, Signature[c]) <=> StartsWith(Name(Signature[c]), scope)
    BY ConstantsAssumption, PrefixOfName DEF PlainOptions
<1> QED BY <1>1 DEF Allowed, AskedFor, is_in_allowed_scope, contains_class_fqn_prefix

\* The second check for the progress point's class is the whole of it.
LEMMA NamedBySignature ==
    ASSUME \A c \in Classes : ClassSignature(Signature[c]), NEW c \in Named
    PROVE  Signature[c] = progress_class \o <<";">>
<1>1. PICK sig \in Seq(STRING) : sig = Signature[c]
    BY ConstantsAssumption, ThreadsAndClasses
<1>2. PICK n \in Nat : n = Len(sig)
    OBVIOUS
<1>3. ClassSignature(sig)
    BY <1>1, ThreadsAndClasses
<1>4. n > 2
    BY <1>2, <1>3 DEF ClassSignature
<1>5. sig[n] = ";"
    BY <1>2, <1>3 DEF ClassSignature
<1>6. SubSeq(sig, 1, n - 1) = progress_class
    BY <1>1, <1>2 DEF Named, is_progress_class
<1>7. sig = SubSeq(sig, 1, n - 1) \o <<sig[n]>>
    BY <1>2, <1>4
<1> QED BY <1>1, <1>5, <1>6, <1>7

-----------------------------------------------------------------------------
\* Types, the lock and the phases are inductive together.
LEMMA BaseStep ==
    ASSUME Base, [Next]_vars
    PROVE  Base'
<1> USE ThreadsAndClasses, Answers DEF Base, TypeOK, LockHeld, Phases, Locked, PCs, InitPCs, StopPCs,
        vars, vmVars, initVars, callVars, pointVars
<1>1. ASSUME NEW c \in Classes, LoadClass(c) PROVE Base'
  BY <1>1 DEF LoadClass
<1>2. ASSUME NEW t \in Threads, NEW c \in Classes, PrepareClass(t, c) PROVE Base'
  BY <1>2 DEF PrepareClass, Busy
<1>3. ASSUME NEW t \in Threads, PostEvent(t) PROVE Base'
  BY <1>3 DEF PostEvent, Goto
<1>4. ASSUME NEW t \in Threads, CheckRunning(t) PROVE Base'
  BY <1>4 DEF CheckRunning, Goto
<1>5. ASSUME NEW t \in Threads, AcquireCreateLock(t) PROVE Base'
  BY <1>5 DEF AcquireCreateLock, Goto
<1>6. ASSUME NEW t \in Threads, GetClassMethods(t) PROVE Base'
  BY <1>6 DEF GetClassMethods, Goto
<1>7. ASSUME NEW t \in Threads, ReportError(t) PROVE Base'
  BY <1>7 DEF ReportError, Goto
<1>8. ASSUME NEW t \in Threads, AddToScope(t) PROVE Base'
  BY <1>8 DEF AddToScope, Goto
<1>9. ASSUME NEW t \in Threads, CheckPoint(t) PROVE Base'
  BY <1>9 DEF CheckPoint, Goto
<1>10. ASSUME NEW t \in Threads, RecordPoint(t) PROVE Base'
  BY <1>10 DEF RecordPoint, Goto
<1>11. ASSUME NEW t \in Threads, SetBreakpoint(t) PROVE Base'
  BY <1>11 DEF SetBreakpoint, Goto
<1>12. ASSUME NEW t \in Threads, ReleaseCreateLock(t) PROVE Base'
  BY <1>12 DEF ReleaseCreateLock, Goto
<1>13. CASE StartProfiler
  BY <1>13 DEF StartProfiler, InitGoto
<1>14. CASE EnableEvents
  <2>1. /\ Succeeds("SetEventNotificationMode") \subseteq BOOLEAN
        /\ Failing = {} /\ phase = "live" => Succeeds("SetEventNotificationMode") = {TRUE}
    BY DEF Succeeds
  <2> QED BY <1>14, <2>1 DEF EnableEvents, InitGoto
<1>15. CASE ListClasses
  BY <1>15 DEF ListClasses, InitGoto
<1>16. ASSUME NEW c \in Classes, ScanClass(c) PROVE Base'
  BY <1>16 DEF ScanClass, Goto
<1>17. CASE EndScan
  BY <1>17 DEF EndScan, InitGoto
<1>18. CASE RunAgentThread
  BY <1>18 DEF RunAgentThread, InitGoto
<1>19. CASE VMDeath
  BY <1>19 DEF VMDeath, StopGoto
<1>20. CASE AgentDone
  BY <1>20 DEF AgentDone, StopGoto
<1>21. CASE ClearScope
  BY <1>21 DEF ClearScope, StopGoto
<1>22. CASE DisableEvents
  BY <1>22 DEF DisableEvents, StopGoto
<1>23. CASE ClearBreakpoint
  BY <1>23 DEF ClearBreakpoint, StopGoto
<1>24. CASE ForgetPoint
  BY <1>24 DEF ForgetPoint, StopGoto
<1>25. CASE EnterDeadPhase
  BY <1>25 DEF EnterDeadPhase, StopGoto
<1>26. CASE UNCHANGED vars
  BY <1>26
<1> QED
  BY <1>1, <1>2, <1>3, <1>4, <1>5, <1>6, <1>7, <1>8, <1>9, <1>10, <1>11, <1>12,
     <1>13, <1>14, <1>15, <1>16, <1>17, <1>18, <1>19, <1>20, <1>21, <1>22, <1>23,
     <1>24, <1>25, <1>26
  DEF Next, RunProfiler, Stopping, Callback, CreateJMethodIDsForClass

\* Every step keeps a prepared class on its way into in_scope_ids.
LEMMA ScanStep ==
    ASSUME Failing = {}, Base, ScanInv, [Next]_vars
    PROVE  ScanInv'
<1> USE ThreadsAndClasses, Answers DEF Base, TypeOK, Phases, ScanInv, OnItsWay, PCs, InitPCs, StopPCs,
        vars, vmVars, initVars, callVars, pointVars
<1>1. ASSUME NEW c \in Classes, LoadClass(c) PROVE ScanInv'
  BY <1>1 DEF LoadClass
<1>2. ASSUME NEW t \in Threads, NEW c \in Classes, PrepareClass(t, c) PROVE ScanInv'
  BY <1>2 DEF PrepareClass, Busy
<1>3. ASSUME NEW t \in Threads, PostEvent(t) PROVE ScanInv'
  BY <1>3 DEF PostEvent, Goto
<1>4. ASSUME NEW t \in Threads, CheckRunning(t) PROVE ScanInv'
  BY <1>4 DEF CheckRunning, Goto
<1>5. ASSUME NEW t \in Threads, AcquireCreateLock(t) PROVE ScanInv'
  BY <1>5 DEF AcquireCreateLock, Goto
<1>6. ASSUME NEW t \in Threads, GetClassMethods(t) PROVE ScanInv'
  <2>1. phase = "live" => Succeeds("GetClassMethods") = {TRUE}
    BY DEF Succeeds
  <2>2. phase = "live" /\ class_state[class[t]] = "prepared" => pc' = [pc EXCEPT ![t] = "scope"]
    BY <1>6, <2>1 DEF GetClassMethods, Goto
  <2>3. pc'= [pc EXCEPT ![t] = pc'[t]] /\ pc[t] = "methods"
    BY <1>6 DEF GetClassMethods, Goto
  <2>4. UNCHANGED <<vmVars, running, initVars, class, in_scope_ids, stop_pc>>
    BY <1>6 DEF GetClassMethods
  <2> HIDE Answers
  <2> QED BY <2>2, <2>3, <2>4
<1>7. ASSUME NEW t \in Threads, ReportError(t) PROVE ScanInv'
  BY <1>7 DEF ReportError, Goto
<1>8. ASSUME NEW t \in Threads, AddToScope(t) PROVE ScanInv'
  <2>1. phase = "live" => Succeeds("GetClassSignature") = {TRUE}
    BY DEF Succeeds
  <2>2. phase = "live" /\ class[t] \in Allowed => in_scope_ids' = in_scope_ids \cup {class[t]}
    BY <1>8, <2>1 DEF AddToScope
  <2>3. in_scope_ids \subseteq in_scope_ids' /\ pc'= [pc EXCEPT ![t] = pc'[t]] /\ pc[t] = "scope"
    BY <1>8 DEF AddToScope, Goto
  <2>4. UNCHANGED <<vmVars, running, initVars, class, stop_pc>>
    BY <1>8 DEF AddToScope
  <2> HIDE Answers
  <2> QED BY <2>2, <2>3, <2>4
<1>9. ASSUME NEW t \in Threads, CheckPoint(t) PROVE ScanInv'
  BY <1>9 DEF CheckPoint, Goto
<1>10. ASSUME NEW t \in Threads, RecordPoint(t) PROVE ScanInv'
  BY <1>10 DEF RecordPoint, Goto
<1>11. ASSUME NEW t \in Threads, SetBreakpoint(t) PROVE ScanInv'
  BY <1>11 DEF SetBreakpoint, Goto
<1>12. ASSUME NEW t \in Threads, ReleaseCreateLock(t) PROVE ScanInv'
  BY <1>12 DEF ReleaseCreateLock, Goto
<1>13. CASE StartProfiler
  BY <1>13 DEF StartProfiler, InitGoto
<1>14. CASE EnableEvents
  BY <1>14 DEF EnableEvents, InitGoto
<1>15. CASE ListClasses
  BY <1>15 DEF ListClasses, InitGoto
<1>16. ASSUME NEW c \in Classes, ScanClass(c) PROVE ScanInv'
  BY <1>16 DEF ScanClass, Goto
<1>17. CASE EndScan
  BY <1>17 DEF EndScan, InitGoto
<1>18. CASE RunAgentThread
  BY <1>18 DEF RunAgentThread, InitGoto
<1>19. CASE VMDeath
  BY <1>19 DEF VMDeath, StopGoto
<1>20. CASE AgentDone
  BY <1>20 DEF AgentDone, StopGoto
<1>21. CASE ClearScope
  BY <1>21 DEF ClearScope, StopGoto
<1>22. CASE DisableEvents
  BY <1>22 DEF DisableEvents, StopGoto
<1>23. CASE ClearBreakpoint
  BY <1>23 DEF ClearBreakpoint, StopGoto
<1>24. CASE ForgetPoint
  BY <1>24 DEF ForgetPoint, StopGoto
<1>25. CASE EnterDeadPhase
  BY <1>25 DEF EnterDeadPhase, StopGoto
<1>26. CASE UNCHANGED vars
  BY <1>26
<1> QED
  BY <1>1, <1>2, <1>3, <1>4, <1>5, <1>6, <1>7, <1>8, <1>9, <1>10, <1>11, <1>12,
     <1>13, <1>14, <1>15, <1>16, <1>17, <1>18, <1>19, <1>20, <1>21, <1>22, <1>23,
     <1>24, <1>25, <1>26
  DEF Next, RunProfiler, Stopping, Callback, CreateJMethodIDsForClass

\* Every step keeps the progress point the only breakpoint.
LEMMA PointStep ==
    ASSUME "SetBreakpoint" \notin Failing, Base, PointInv, ~exited, [Next]_vars
    PROVE  PointInv'
<1> USE ThreadsAndClasses, Answers DEF Base, TypeOK, LockHeld, Phases, Locked, PointInv, OneBreakpoint,
        InAddProgressPoint, PCs, InitPCs, StopPCs, vars, vmVars, initVars, callVars, pointVars
<1>1. ASSUME NEW c \in Classes, LoadClass(c) PROVE PointInv'
  BY <1>1 DEF LoadClass
<1>2. ASSUME NEW t \in Threads, NEW c \in Classes, PrepareClass(t, c) PROVE PointInv'
  BY <1>2 DEF PrepareClass, Busy
<1>3. ASSUME NEW t \in Threads, PostEvent(t) PROVE PointInv'
  BY <1>3 DEF PostEvent, Goto
<1>4. ASSUME NEW t \in Threads, CheckRunning(t) PROVE PointInv'
  BY <1>4 DEF CheckRunning, Goto
<1>5. ASSUME NEW t \in Threads, AcquireCreateLock(t) PROVE PointInv'
  BY <1>5 DEF AcquireCreateLock, Goto
<1>6. ASSUME NEW t \in Threads, GetClassMethods(t) PROVE PointInv'
  BY <1>6 DEF GetClassMethods, Goto
<1>7. ASSUME NEW t \in Threads, ReportError(t) PROVE PointInv'
  BY <1>7 DEF ReportError, Goto
<1>8. ASSUME NEW t \in Threads, AddToScope(t) PROVE PointInv'
  BY <1>8 DEF AddToScope, Goto
<1>9. ASSUME NEW t \in Threads, CheckPoint(t) PROVE PointInv'
  BY <1>9 DEF CheckPoint, Goto
<1>10. ASSUME NEW t \in Threads, RecordPoint(t) PROVE PointInv'
  BY <1>10 DEF RecordPoint, Goto
<1>11. ASSUME NEW t \in Threads, SetBreakpoint(t) PROVE PointInv'
  <2>1. phase = "live" => Succeeds("SetBreakpoint") = {TRUE}
    BY DEF Succeeds
  <2> QED BY <1>11, <2>1 DEF SetBreakpoint, Goto
<1>12. ASSUME NEW t \in Threads, ReleaseCreateLock(t) PROVE PointInv'
  BY <1>12 DEF ReleaseCreateLock, Goto
<1>13. CASE StartProfiler
  BY <1>13 DEF StartProfiler, InitGoto
<1>14. CASE EnableEvents
  BY <1>14 DEF EnableEvents, InitGoto
<1>15. CASE ListClasses
  BY <1>15 DEF ListClasses, InitGoto
<1>16. ASSUME NEW c \in Classes, ScanClass(c) PROVE PointInv'
  BY <1>16 DEF ScanClass, Goto
<1>17. CASE EndScan
  BY <1>17 DEF EndScan, InitGoto
<1>18. CASE RunAgentThread
  BY <1>18 DEF RunAgentThread, InitGoto
<1>19. CASE VMDeath
  BY <1>19 DEF VMDeath, StopGoto
<1>20. CASE AgentDone
  BY <1>20 DEF AgentDone, StopGoto
<1>21. CASE ClearScope
  BY <1>21 DEF ClearScope, StopGoto
<1>22. CASE DisableEvents
  BY <1>22 DEF DisableEvents, StopGoto
<1>23. CASE ClearBreakpoint
  BY <1>23 DEF ClearBreakpoint, StopGoto
<1>24. CASE ForgetPoint
  BY <1>24 DEF ForgetPoint, StopGoto
<1>25. CASE EnterDeadPhase
  BY <1>25 DEF EnterDeadPhase, StopGoto
<1>26. CASE UNCHANGED vars
  BY <1>26
<1> QED
  BY <1>1, <1>2, <1>3, <1>4, <1>5, <1>6, <1>7, <1>8, <1>9, <1>10, <1>11, <1>12,
     <1>13, <1>14, <1>15, <1>16, <1>17, <1>18, <1>19, <1>20, <1>21, <1>22, <1>23,
     <1>24, <1>25, <1>26
  DEF Next, RunProfiler, Stopping, Callback, CreateJMethodIDsForClass

\* Every step keeps unwanted classes out of scope and off the progress point.
LEMMA ScopeStep ==
    ASSUME Base, ScopeInv, [Next]_vars
    PROVE  ScopeInv'
<1> USE ThreadsAndClasses, Answers DEF Base, TypeOK, Phases, ScopeInv, PCs, InitPCs, StopPCs,
        vars, vmVars, initVars, callVars, pointVars
<1>1. ASSUME NEW c \in Classes, LoadClass(c) PROVE ScopeInv'
  BY <1>1 DEF LoadClass
<1>2. ASSUME NEW t \in Threads, NEW c \in Classes, PrepareClass(t, c) PROVE ScopeInv'
  BY <1>2 DEF PrepareClass, Busy
<1>3. ASSUME NEW t \in Threads, PostEvent(t) PROVE ScopeInv'
  BY <1>3 DEF PostEvent, Goto
<1>4. ASSUME NEW t \in Threads, CheckRunning(t) PROVE ScopeInv'
  BY <1>4 DEF CheckRunning, Goto
<1>5. ASSUME NEW t \in Threads, AcquireCreateLock(t) PROVE ScopeInv'
  BY <1>5 DEF AcquireCreateLock, Goto
<1>6. ASSUME NEW t \in Threads, GetClassMethods(t) PROVE ScopeInv'
  BY <1>6 DEF GetClassMethods, Goto
<1>7. ASSUME NEW t \in Threads, ReportError(t) PROVE ScopeInv'
  BY <1>7 DEF ReportError, Goto
<1>8. ASSUME NEW t \in Threads, AddToScope(t) PROVE ScopeInv'
  BY <1>8 DEF AddToScope, Goto
<1>9. ASSUME NEW t \in Threads, CheckPoint(t) PROVE ScopeInv'
  BY <1>9 DEF CheckPoint, Goto
<1>10. ASSUME NEW t \in Threads, RecordPoint(t) PROVE ScopeInv'
  BY <1>10 DEF RecordPoint, Goto
<1>11. ASSUME NEW t \in Threads, SetBreakpoint(t) PROVE ScopeInv'
  BY <1>11 DEF SetBreakpoint, Goto
<1>12. ASSUME NEW t \in Threads, ReleaseCreateLock(t) PROVE ScopeInv'
  BY <1>12 DEF ReleaseCreateLock, Goto
<1>13. CASE StartProfiler
  BY <1>13 DEF StartProfiler, InitGoto
<1>14. CASE EnableEvents
  BY <1>14 DEF EnableEvents, InitGoto
<1>15. CASE ListClasses
  BY <1>15 DEF ListClasses, InitGoto
<1>16. ASSUME NEW c \in Classes, ScanClass(c) PROVE ScopeInv'
  BY <1>16 DEF ScanClass, Goto
<1>17. CASE EndScan
  BY <1>17 DEF EndScan, InitGoto
<1>18. CASE RunAgentThread
  BY <1>18 DEF RunAgentThread, InitGoto
<1>19. CASE VMDeath
  BY <1>19 DEF VMDeath, StopGoto
<1>20. CASE AgentDone
  BY <1>20 DEF AgentDone, StopGoto
<1>21. CASE ClearScope
  BY <1>21 DEF ClearScope, StopGoto
<1>22. CASE DisableEvents
  BY <1>22 DEF DisableEvents, StopGoto
<1>23. CASE ClearBreakpoint
  BY <1>23 DEF ClearBreakpoint, StopGoto
<1>24. CASE ForgetPoint
  BY <1>24 DEF ForgetPoint, StopGoto
<1>25. CASE EnterDeadPhase
  BY <1>25 DEF EnterDeadPhase, StopGoto
<1>26. CASE UNCHANGED vars
  BY <1>26
<1> QED
  BY <1>1, <1>2, <1>3, <1>4, <1>5, <1>6, <1>7, <1>8, <1>9, <1>10, <1>11, <1>12,
     <1>13, <1>14, <1>15, <1>16, <1>17, <1>18, <1>19, <1>20, <1>21, <1>22, <1>23,
     <1>24, <1>25, <1>26
  DEF Next, RunProfiler, Stopping, Callback, CreateJMethodIDsForClass

\* Nothing is prepared, scanned or set at the start.
LEMMA InitOK == Init => Base /\ ScanInv /\ PointInv /\ ScopeInv
BY ThreadsAndClasses
   DEF Init, Base, TypeOK, LockHeld, Phases, Locked, ScanInv, PointInv, ScopeInv,
       OneBreakpoint, InAddProgressPoint, PCs, InitPCs, StopPCs

\* Base, in every reachable state.
LEMMA BaseInvariant == Spec => []Base
BY InitOK, BaseStep, PTL DEF Spec

\* The types of ClassPrepare's variables (entry.cc, and the VM as it uses it).
THEOREM TypeCorrect == Spec => []TypeOK
<1>1. Base => TypeOK
  BY DEF Base
<1> QED
  BY BaseInvariant, <1>1, PTL

\* Enabling the event before listing the loaded classes leaves no class out
\* (entry.cc: run_profiler, CreateJMethodIDsForClass), for any threads and classes,
\* if the VM refuses nothing while it lives.
THEOREM EveryClassReachesScope ==
    PlainOptions /\ Failing = {} => (Spec => []NoClassMissed)
<1> SUFFICES ASSUME PlainOptions, Failing = {} PROVE Spec => []NoClassMissed
  OBVIOUS
<1>1. Base /\ ScanInv => NoClassMissed
  BY AllowedIsAskedFor DEF Base, Phases, ScanInv, NoClassMissed
<1> QED
  BY InitOK, BaseInvariant, ScanStep, <1>1, PTL DEF Spec

\* Nothing else reaches it: in_scope_ids has the methods of classes the options ask
\* for, and no others (entry.cc: is_in_allowed_scope; addInScopeMethods).
THEOREM NothingElseReachesScope == PlainOptions => (Spec => []OnlyAskedFor)
<1> SUFFICES ASSUME PlainOptions PROVE Spec => []OnlyAskedFor
  OBVIOUS
<1>1. ScopeInv => OnlyAskedFor
  BY AllowedIsAskedFor DEF ScopeInv, OnlyAskedFor
<1> QED
  BY InitOK, BaseInvariant, ScopeStep, <1>1, PTL DEF Spec

\* The progress point is in a class whose signature is the option's class with a
\* semicolon (entry.cc: the two checks before addProgressPoint).
THEOREM ProgressPointInItsClass == PlainOptions => (Spec => []PointInItsClass)
<1> SUFFICES ASSUME PlainOptions PROVE Spec => []PointInItsClass
  OBVIOUS
<1>1. ScopeInv => PointInItsClass
  BY NamedBySignature DEF ScopeInv, PointInItsClass, PlainOptions
<1> QED
  BY InitOK, BaseInvariant, ScopeStep, <1>1, PTL DEF Spec

\* The progress point is set once, however many threads prepare or scan classes of
\* its name at once (profiler.cc: addProgressPoint under class_prep_lock), if the VM does
\* not refuse to set it.
THEOREM ProgressPointIsOneBreakpoint ==
    "SetBreakpoint" \notin Failing => (Spec => []OneBreakpoint)
<1> SUFFICES ASSUME "SetBreakpoint" \notin Failing PROVE Spec => []OneBreakpoint
  OBVIOUS
<1>1. Base /\ PointInv /\ [Next]_vars => PointInv'
  <2>1. CASE exited
    BY <2>1 DEF Next, PointInv, OneBreakpoint, InAddProgressPoint, vars, callVars, pointVars
  <2> QED
    BY <2>1, PointStep
<1>2. PointInv => OneBreakpoint
  BY DEF PointInv, OneBreakpoint
<1> QED
  BY InitOK, BaseInvariant, <1>1, <1>2, PTL DEF Spec

=============================================================================
