--------------------------- MODULE AgentLoadProofs ---------------------------
(***************************************************************************)
(* Proofs about AgentLoad for any option strings: the VM never goes on     *)
(* with a profiler that is only half there, and the settings it goes on    *)
(* with are those the option string as a whole asks for.                   *)
(*                                                                         *)
(* The first argument needs the order in which RegisterJvmti enables its   *)
(* events: the one for breakpoints fails without its capability, so the    *)
(* case in which PrepareJvmti added no capability and reported success     *)
(* ends there.  The second keeps, item by item, what the options parsed so *)
(* far ask for (AsAsked); the scopes are put together by the recursive     *)
(* function behind FlattenSeq, whose values are reached through a least    *)
(* counterexample rather than by induction.                                *)
(***************************************************************************)
EXTENDS AgentLoad, SequenceTheorems, WellFoundedInduction, TLAPS

EventNames == {"CLASS_LOAD", "BREAKPOINT", "THREAD_END", "THREAD_START", "VM_DEATH", "VM_INIT"}

\* The events enabled are the first few of Events, beyond the first only with the
\* capabilities.
EventsInOrder ==
    /\ capabilities \in {{}, caps}
    /\ events \in Seq(EventNames) /\ Len(events) \in 0..6
    /\ \A i \in 1..Len(events) : events[i] = Events[i]
    /\ Len(events) > 1 => capabilities = caps

\* Which of them are enabled where.
EventsSoFar ==
    /\ load_pc \in {"getEnv", "prepare", "register"} => Len(events) = 0
    /\ load_pc = "enable" => Len(events) < 6
    /\ load_pc \in {"asgct", "parse"} => Len(events) = 6
    /\ load_pc = "continues" =>
         Len(events) = 0 \/ (Len(events) = 6 /\ prof = "ready" /\ outcome = "accepted")

AcceptedComplete == outcome = "accepted" => ~Incomplete(settings)

LoadInv == EventsInOrder /\ EventsSoFar /\ AcceptedComplete

-----------------------------------------------------------------------------
\* Nothing is enabled, and nothing accepted, at the start.
LEMMA InitLoad == LoadInit => LoadInv
BY DEF LoadInit, Init, LoadInv, EventsInOrder, EventsSoFar, AcceptedComplete

\* Parsing the options accepts only settings that are complete.
LEMMA ParsingAccepts ==
    ASSUME AcceptedComplete, Next
    PROVE  AcceptedComplete'
<1>1. CASE ParseItem
  <2>1. outcome = "parsing" /\ outcome' \in {"parsing", "exited", "terminated"}
    BY <1>1 DEF ParseItem
  <2>2. QED
    BY <2>1 DEF AcceptedComplete
<1>2. CASE WriteHeader
  BY <1>2 DEF WriteHeader, AcceptedComplete
<1>3. CASE CheckSettings
  <2>1. settings' = settings /\ outcome' = IF Incomplete(settings) THEN "exited" ELSE "accepted"
    BY <1>3 DEF CheckSettings
  <2>2. Incomplete(settings)' = Incomplete(settings)
    BY <2>1 DEF Incomplete
  <2>3. QED
    BY <2>1, <2>2 DEF AcceptedComplete
<1>4. QED
  BY <1>1, <1>2, <1>3 DEF Next

\* A step that leaves the options alone leaves what was accepted alone.
LEMMA AcceptedKept ==
    ASSUME AcceptedComplete, UNCHANGED vars
    PROVE  AcceptedComplete'
<1>1. Incomplete(settings)' = Incomplete(settings)
  BY DEF vars, Incomplete
<1>2. QED
  BY <1>1 DEF vars, AcceptedComplete

\* Every step of loading keeps the events in order.
LEMMA LoadStep ==
    ASSUME LoadInv, [LoadNext]_<<vars, loadVars>>
    PROVE  LoadInv'
<1> USE DEF LoadInv, EventsInOrder, EventsSoFar, vars, loadVars, Goto
<1>1. CASE GetEnv
  BY <1>1, AcceptedKept DEF GetEnv
<1>2. CASE PrepareJvmti
  BY <1>2, AcceptedKept DEF PrepareJvmti
<1>3. CASE PrepareFailed
  BY <1>3, AcceptedKept DEF PrepareFailed
<1>4. CASE SetEventCallbacks
  BY <1>4, AcceptedKept DEF SetEventCallbacks
<1>5. CASE EnableEvent
  <2>1. PICK n \in 0..5 : n = Len(events)
    BY <1>5 DEF EnableEvent
  <2>2. /\ events' = Append(events, Events[n + 1])
        /\ load_pc' = IF Len(events') = 6 THEN "asgct" ELSE "enable"
        /\ UNCHANGED <<vars, capabilities, asgct, prof>>
    BY <1>5, <2>1 DEF EnableEvent, Events
  <2>3. Events[n + 1] \in EventNames
    BY DEF Events, EventNames
  <2>4. /\ events' \in Seq(EventNames) /\ Len(events') = n + 1
        /\ \A i \in 1..n : events'[i] = events[i]
        /\ events'[n + 1] = Events[n + 1]
    BY <2>1, <2>2, <2>3
  <2>5. \A i \in 1..(n + 1) : events'[i] = Events[i]
    BY <2>1, <2>4
  <2>6. n + 1 > 1 => capabilities = caps
    <3>1. CASE n = 1
      <4>1. "breakpoint_events" \in capabilities
        BY <1>5, <2>1, <3>1 DEF EnableEvent, MayEnable, Events
      <4>2. QED
        BY <4>1 DEF caps
    <3>2. CASE n > 1
      BY <2>1, <3>2
    <3>3. QED
      BY <3>1, <3>2
  <2>7. EventsInOrder'
    BY <2>1, <2>2, <2>4, <2>5, <2>6
  <2>8. EventsSoFar'
    BY <2>1, <2>2, <2>4
  <2>9. QED
    BY <2>2, <2>7, <2>8, AcceptedKept
<1>6. CASE RegistrationFailed
  BY <1>6, AcceptedKept DEF RegistrationFailed
<1>7. CASE SetAsgct
  BY <1>7, AcceptedKept DEF SetAsgct
<1>8. CASE MissingOptions
  <2>1. AcceptedComplete'
    BY <1>8 DEF MissingOptions, AcceptedComplete
  <2>2. QED
    BY <1>8, <2>1 DEF MissingOptions
<1>9. CASE ParseOptions
  <2>1. Next /\ UNCHANGED loadVars /\ load_pc = "parse"
    BY <1>9 DEF ParseOptions
  <2>2. AcceptedComplete'
    BY <2>1, ParsingAccepts
  <2>3. QED
    BY <2>1, <2>2
<1>10. CASE SetJVMTI
  BY <1>10, AcceptedKept DEF SetJVMTI
<1>11. CASE UNCHANGED <<vars, loadVars>>
  BY <1>11, AcceptedKept
<1>12. QED
  BY <1>1, <1>2, <1>3, <1>4, <1>5, <1>6, <1>7, <1>8, <1>9, <1>10, <1>11 DEF LoadNext

\* Whatever fails while the agent is loaded, a VM that goes on has the whole profiler
\* or posts it no event (entry.cc: PrepareJvmti, RegisterJvmti, Agent_OnLoad).
THEOREM NeverHalfLoaded == LoadSpec => []AllOrNothing
<1>1. LoadInv /\ [LoadNext]_<<vars, loadVars>> => LoadInv'
  BY LoadStep
<1>2. LoadInv => AllOrNothing
  <2> SUFFICES ASSUME LoadInv, load_pc = "continues", events # <<>>
               PROVE  /\ capabilities = caps /\ events = Events
                      /\ prof = "ready" /\ ~Incomplete(settings)
    BY DEF AllOrNothing
  <2>1. Len(events) = 6 /\ prof = "ready" /\ outcome = "accepted"
    BY DEF LoadInv, EventsInOrder, EventsSoFar
  <2>2. capabilities = caps
    BY <2>1 DEF LoadInv, EventsInOrder
  <2>3. Events \in Seq(EventNames) /\ Len(Events) = 6
    BY DEF Events, EventNames
  <2>4. events = Events
    BY <2>1, <2>3 DEF LoadInv, EventsInOrder
  <2>5. QED
    BY <2>1, <2>2, <2>4 DEF LoadInv, AcceptedComplete
<1>3. QED
  BY InitLoad, <1>1, <1>2, PTL DEF LoadSpec

-----------------------------------------------------------------------------
(* Sequences put together *)

\* The recursive function behind FlattenSeq, over the first n sequences of s.
IsFlatten(f, s, n) == f = [i \in 1..n |-> IF i = 1 THEN s[i] ELSE f[i - 1] \o s[i]]

\* A nonempty set of naturals has a least one: the least counterexample that stands
\* in for the inductions below.
LEMMA LeastNatural ==
    ASSUME NEW B, B \subseteq Nat, B # {}
    PROVE  \E n \in B : \A m \in B : n <= m
<1>1. PICK n \in B : \A m \in B : <<m, n>> \notin OpToRel(<, Nat)
  BY NatLessThanWellFounded, WFMin
<1>2. \A m \in B : m \in Nat /\ n \in Nat /\ ~ (m < n)
  BY <1>1 DEF OpToRel
<1>3. QED
  BY <1>2

\* FlattenSeq is the last value of such a function ...
LEMMA FlattenIsChosen ==
    ASSUME NEW s, Len(s) # 0
    PROVE  FlattenSeq(s) = (CHOOSE f : IsFlatten(f, s, Len(s)))[Len(s)]
BY DEF FlattenSeq, IsFlatten

\* ... of which there is one: a shortest prefix without one would have one.
LEMMA FlattenExists ==
    ASSUME NEW s, NEW n \in Nat
    PROVE  \E f : IsFlatten(f, s, n)
<1> DEFINE B == {k \in Nat : ~ \E f : IsFlatten(f, s, k)}
<1>1. ASSUME B # {} PROVE FALSE
  <2>1. B \subseteq Nat
    OBVIOUS
  <2> HIDE DEF B
  <2>2. PICK k \in B : \A m \in B : k <= m
    BY <1>1, <2>1, LeastNatural
  <2> USE DEF B
  <2>3. k \in Nat /\ ~ \E f : IsFlatten(f, s, k)
    OBVIOUS
  <2>4. IsFlatten([i \in 1..0 |-> s[i]], s, 0)
    BY DEF IsFlatten
  <2>5. k # 0
    BY <2>3, <2>4
  <2>6. PICK g : IsFlatten(g, s, k - 1)
    BY <2>2, <2>3, <2>5
  <2> DEFINE h == [i \in 1..k |-> IF i = k THEN (IF k = 1 THEN s[k] ELSE g[k - 1] \o s[k]) ELSE g[i]]
  <2>7. \A i \in 1..k : h[i] = IF i = 1 THEN s[i] ELSE h[i - 1] \o s[i]
    <3>1. ASSUME NEW i \in 1..k, i # k PROVE h[i] = IF i = 1 THEN s[i] ELSE h[i - 1] \o s[i]
      <4>1. i \in 1..(k - 1) /\ (i # 1 => i - 1 \in 1..k /\ i - 1 # k)
        BY <2>3, <3>1
      <4>2. g[i] = IF i = 1 THEN s[i] ELSE g[i - 1] \o s[i]
        BY <2>6, <4>1 DEF IsFlatten
      <4>3. h[i] = g[i] /\ (i # 1 => h[i - 1] = g[i - 1])
        BY <3>1, <4>1
      <4>4. QED
        BY <4>2, <4>3
    <3>2. h[k] = IF k = 1 THEN s[k] ELSE h[k - 1] \o s[k]
      <4>1. k \in 1..k /\ (k # 1 => k - 1 \in 1..k /\ k - 1 # k)
        BY <2>3, <2>5
      <4>2. h[k] = (IF k = 1 THEN s[k] ELSE g[k - 1] \o s[k]) /\ (k # 1 => h[k - 1] = g[k - 1])
        BY <4>1
      <4>3. QED
        BY <4>2
    <3>3. QED
      BY <3>1, <3>2
  <2>8. h = [i \in 1..k |-> h[i]]
    OBVIOUS
  <2> HIDE DEF h
  <2>9. IsFlatten(h, s, k)
    BY <2>7, <2>8 DEF IsFlatten
  <2>10. QED
    BY <2>3, <2>9
<1>2. QED
  BY <1>1

\* What FlattenSeq has put together after k of the sequences.
FlattenedTo(s, k) == IF k = 0 THEN <<>> ELSE (CHOOSE f : IsFlatten(f, s, Len(s)))[k]

\* One sequence more: it is appended.
LEMMA FlattenStep ==
    ASSUME NEW T, NEW s \in Seq(Seq(T))
    PROVE  /\ FlattenedTo(s, 0) = <<>> /\ FlattenedTo(s, Len(s)) = FlattenSeq(s)
           /\ \A k \in 0..Len(s) : FlattenedTo(s, k) \in Seq(T)
           /\ \A k \in 1..Len(s) : FlattenedTo(s, k) = FlattenedTo(s, k - 1) \o s[k]
<1>0. Len(s) \in Nat /\ \A k \in 1..Len(s) : s[k] \in Seq(T)
  OBVIOUS
<1>1. PICK f : f = CHOOSE g : IsFlatten(g, s, Len(s))
  OBVIOUS
<1>2. IsFlatten(f, s, Len(s))
  BY <1>0, <1>1, FlattenExists
<1>3. \A k \in 1..Len(s) : f[k] = IF k = 1 THEN s[k] ELSE f[k - 1] \o s[k]
  BY <1>2 DEF IsFlatten
<1>4. FlattenedTo(s, 0) = <<>> /\ \A k \in 1..Len(s) : FlattenedTo(s, k) = f[k]
  BY <1>0, <1>1 DEF FlattenedTo
<1>5. FlattenedTo(s, Len(s)) = FlattenSeq(s)
  <2>1. CASE Len(s) = 0
    <3>1. s = <<>>
      BY <2>1
    <3>2. FlattenSeq(s) = s
      BY <2>1 DEF FlattenSeq
    <3>3. QED
      BY <2>1, <3>1, <3>2, <1>4
  <2>2. CASE Len(s) # 0
    <3>1. FlattenSeq(s) = (CHOOSE g : IsFlatten(g, s, Len(s)))[Len(s)]
      BY <2>2, FlattenIsChosen
    <3>2. Len(s) \in 1..Len(s)
      BY <1>0, <2>2
    <3>3. QED
      BY <1>1, <1>4, <3>1, <3>2
  <2>3. QED
    BY <2>1, <2>2
<1>6. \A k \in 1..Len(s) : f[k] \in Seq(T)
  <2> DEFINE B == {k \in 1..Len(s) : f[k] \notin Seq(T)}
  <2>1. ASSUME B # {} PROVE FALSE
    <3>1. B \subseteq Nat
      BY <1>0
    <3> HIDE DEF B
    <3>2. PICK k \in B : \A m \in B : k <= m
      BY <2>1, <3>1, LeastNatural
    <3> USE DEF B
    <3>3. k \in 1..Len(s) /\ f[k] \notin Seq(T)
      OBVIOUS
    <3>4. k # 1
      BY <1>0, <1>3, <3>3
    <3>5. k - 1 \in 1..Len(s) /\ f[k - 1] \in Seq(T)
      BY <1>0, <3>2, <3>3, <3>4
    <3> HIDE DEF B
    <3>6. f[k] = f[k - 1] \o s[k] /\ s[k] \in Seq(T)
      BY <1>0, <1>3, <3>3, <3>4
    <3>7. QED
      BY <3>3, <3>5, <3>6
  <2>2. QED
    BY <2>1
<1>7. ASSUME NEW k \in 1..Len(s) PROVE FlattenedTo(s, k) = FlattenedTo(s, k - 1) \o s[k]
  <2>1. CASE k = 1
    <3>1. FlattenedTo(s, k) = s[k] /\ FlattenedTo(s, k - 1) = <<>> /\ s[k] \in Seq(T)
      BY <1>0, <1>3, <1>4, <2>1
    <3>2. QED
      BY <3>1, ConcatEmptySeq
  <2>2. CASE k # 1
    <3>1. k - 1 \in 1..Len(s)
      BY <1>0, <2>2
    <3>2. QED
      BY <1>3, <1>4, <2>2, <3>1
  <2>3. QED
    BY <2>1, <2>2
<1>8. QED
  <2>1. \A k \in 0..Len(s) : FlattenedTo(s, k) \in Seq(T)
    <3>1. \A k \in 0..Len(s) : k = 0 \/ k \in 1..Len(s)
      BY <1>0
    <3>2. <<>> \in Seq(T)
      OBVIOUS
    <3>3. QED
      BY <1>4, <1>6, <3>1, <3>2
  <2>2. QED
    BY <1>4, <1>5, <1>7, <2>1

-----------------------------------------------------------------------------
(* Parsing the options *)

\* Scopes as the JVM writes them.
PreparedScopes == [name : STRING, separator : {"/"}]

\* What is known of the option string, and of where ParseOptions is in it.
OptionsOK ==
    /\ options \in Seq(Items) /\ parsed \in 0..Len(options)
    /\ \A i \in 1..Len(options) : \A m, n \in options[i].number : m = n
    /\ outcome \in {"parsing", "header", "accepted", "exited", "terminated"}
    /\ outcome \in {"header", "accepted"} => parsed = Len(options)

\* The settings keep their fields, and the scopes searched their form.
SettingsOK ==
    /\ DOMAIN settings = DOMAIN Default
    /\ settings.search_scopes \in Seq(PreparedScopes)

\* The k-th option is the last of its name among the first n.
LastUpTo(k, n, option) ==
    options[k].option = option /\ \A j \in (k + 1)..n : options[j].option # option

\* The option is among the first n.
Given(option, n) == \E j \in 1..n : options[j].option = option

\* The settings are what the first n options ask for: their scopes ...
ScopesGathered(n) ==
    /\ settings.search_scopes = FlattenedTo(ScopesOf({"pkg", "search"}), n)
    /\ settings.ignored_scopes = FlattenedTo(ScopesOf({"ignore"}), n)

\* ... the values of the last of each kind ...
LastCounts(n) ==
    /\ \A k \in 1..n :
         /\ LastUpTo(k, n, "progress-point") =>
              settings.progress_class = options[k].class /\ settings.lineno \in options[k].number
         /\ LastUpTo(k, n, "logging-level") => settings.level = options[k].level
         /\ LastUpTo(k, n, "warmup") => settings.warmup_time \in {m * 1000 : m \in options[k].number}
    /\ ~Given("logging-level", n) => settings.level = Default.level
    /\ ~Given("warmup", n) => settings.warmup_time = 0

\* ... and the switches.
SwitchesSet(n) ==
    /\ settings.output.timed <=> Given("output-file", n)
    /\ settings.end_to_end <=> Given("end-to-end", n)
    /\ settings.fix_exp <=> Given("fix-exp", n)

AsAsked(n) == ScopesGathered(n) /\ LastCounts(n) /\ SwitchesSet(n)

\* As long as nothing was wrong, the settings are what the options parsed ask for;
ParsedSoFar == outcome \in {"parsing", "header", "accepted"} => AsAsked(parsed)

\* when the agent gives up, there was a bad item, or what they ask for is incomplete.
ExitedForCause ==
    outcome = "exited" =>
        \/ \E i \in DOMAIN options : Rejected(options[i])
        \/ options = <<>>
        \/ AsAsked(Len(options)) /\ Incomplete(settings)

\* An inductive invariant of every run.
OptionInv == OptionsOK /\ SettingsOK /\ ParsedSoFar /\ ExitedForCause

\* What an option does to each of the settings.
LEMMA AppliedFields ==
    ASSUME SettingsOK, NEW item \in Items, ~Rejected(item), ~Throws(item)
    PROVE  LET new == Applied(item) IN
           /\ DOMAIN new = DOMAIN Default
           /\ new.search_scopes = IF item.option \in {"pkg", "search"}
                                  THEN AddScopes(settings.search_scopes, item.scopes)
                                  ELSE settings.search_scopes
           /\ new.ignored_scopes = IF item.option = "ignore"
                                   THEN AddScopes(settings.ignored_scopes, item.scopes)
                                   ELSE settings.ignored_scopes
           /\ IF item.option = "progress-point"
              THEN new.progress_class = item.class /\ new.lineno \in item.number
              ELSE new.progress_class = settings.progress_class /\ new.lineno = settings.lineno
           /\ new.level = IF item.option = "logging-level" THEN item.level ELSE settings.level
           /\ IF item.option = "warmup"
              THEN new.warmup_time \in {m * 1000 : m \in item.number}
              ELSE new.warmup_time = settings.warmup_time
           /\ new.output.timed = IF item.option = "output-file" THEN TRUE ELSE settings.output.timed
           /\ new.end_to_end = IF item.option = "end-to-end" THEN TRUE ELSE settings.end_to_end
           /\ new.fix_exp = IF item.option = "fix-exp" THEN TRUE ELSE settings.fix_exp
<1>1. item.option \in {"pkg", "search", "ignore", "progress-point", "logging-level",
                       "output-file", "end-to-end", "warmup", "fix-exp"}
  BY DEF Rejected
<1>2. DOMAIN settings = {"search_scopes", "ignored_scopes", "progress_class", "lineno", "level",
                         "output", "end_to_end", "warmup_time", "fix_exp"}
      /\ DOMAIN Default = DOMAIN settings
  BY DEF SettingsOK, Default
<1>3. item.option \in {"progress-point", "warmup"} => NumberOf(item) \in item.number
  BY DEF Throws, NumberOf
<1>4. CASE item.option \in {"pkg", "search"}
  BY <1>2, <1>4 DEF Applied
<1>5. CASE item.option = "ignore"
  BY <1>2, <1>5 DEF Applied
<1>6. CASE item.option = "progress-point"
  BY <1>2, <1>3, <1>6 DEF Applied
<1>7. CASE item.option = "logging-level"
  BY <1>2, <1>7 DEF Applied
<1>8. CASE item.option = "output-file"
  BY <1>2, <1>8 DEF Applied, OutputFile
<1>9. CASE item.option = "end-to-end"
  BY <1>2, <1>9 DEF Applied
<1>10. CASE item.option = "warmup"
  BY <1>2, <1>3, <1>10 DEF Applied
<1>11. CASE item.option = "fix-exp"
  BY <1>2, <1>11 DEF Applied
<1>12. QED
  BY <1>1, <1>4, <1>5, <1>6, <1>7, <1>8, <1>9, <1>10, <1>11

\* Preparing a list of scopes gives a list of prepared ones.
LEMMA PreparedType ==
    ASSUME NEW scopes \in Scopes
    PROVE  AllPrepared(scopes) \in Seq(PreparedScopes)
<1>1. Len(scopes) \in Nat /\ DOMAIN scopes = 1..Len(scopes)
  BY DEF Scopes
<1>2. \A i \in 1..Len(scopes) : scopes[i] \in [name : STRING, separator : STRING]
  BY ElementOfSeq DEF Scopes
<1>3. \A i \in 1..Len(scopes) : Prepared(scopes[i]) \in PreparedScopes
  BY <1>2 DEF Prepared, PreparedScopes
<1>4. QED
  BY <1>1, <1>3 DEF AllPrepared

\* The scopes of the options of some names, one list for each option.
LEMMA ScopesOfType ==
    ASSUME options \in Seq(Items), NEW names
    PROVE  /\ ScopesOf(names) \in Seq(Seq(PreparedScopes))
           /\ Len(ScopesOf(names)) = Len(options)
           /\ \A k \in 1..Len(options) :
                ScopesOf(names)[k] = IF options[k].option \in names
                                     THEN AllPrepared(options[k].scopes) ELSE <<>>
<1>1. Len(options) \in Nat /\ DOMAIN options = 1..Len(options)
  OBVIOUS
<1>2. \A k \in 1..Len(options) : options[k].scopes \in Scopes
  <2>1. \A k \in 1..Len(options) : options[k] \in Items
    BY ElementOfSeq
  <2>2. \A item \in Items : item.scopes \in Scopes
    BY DEF Items
  <2>3. QED
    BY <2>1, <2>2
<1>3. \A k \in 1..Len(options) : AllPrepared(options[k].scopes) \in Seq(PreparedScopes)
  BY <1>2, PreparedType
<1>4. <<>> \in Seq(PreparedScopes)
  BY EmptySeq
<1>5. QED
  BY <1>1, <1>3, <1>4 DEF ScopesOf

\* The scopes gathered so far and those of the next option are those gathered then.
LEMMA GatherStep ==
    ASSUME options \in Seq(Items), NEW names, NEW k \in 1..Len(options)
    PROVE  /\ FlattenedTo(ScopesOf(names), k) \in Seq(PreparedScopes)
           /\ FlattenedTo(ScopesOf(names), k) =
                IF options[k].option \in names
                THEN AddScopes(FlattenedTo(ScopesOf(names), k - 1), options[k].scopes)
                ELSE FlattenedTo(ScopesOf(names), k - 1)
<1>1. /\ ScopesOf(names) \in Seq(Seq(PreparedScopes)) /\ Len(ScopesOf(names)) = Len(options)
      /\ ScopesOf(names)[k] = IF options[k].option \in names
                              THEN AllPrepared(options[k].scopes) ELSE <<>>
  BY ScopesOfType
<1>2. Len(options) \in Nat /\ k \in 0..Len(options) /\ k - 1 \in 0..Len(options)
  OBVIOUS
<1>3. /\ FlattenedTo(ScopesOf(names), k) \in Seq(PreparedScopes)
      /\ FlattenedTo(ScopesOf(names), k - 1) \in Seq(PreparedScopes)
      /\ FlattenedTo(ScopesOf(names), k) = FlattenedTo(ScopesOf(names), k - 1) \o ScopesOf(names)[k]
  BY <1>1, <1>2, FlattenStep
<1>4. FlattenedTo(ScopesOf(names), k - 1) \o <<>> = FlattenedTo(ScopesOf(names), k - 1)
  BY <1>3, ConcatEmptySeq
<1>5. QED
  BY <1>1, <1>3, <1>4 DEF AddScopes

\* One more option parsed, the settings are what one more option asks for.
LEMMA ParseItemAsked ==
    ASSUME OptionsOK, SettingsOK, AsAsked(parsed), parsed < Len(options),
           ~Rejected(options[parsed + 1]), ~Throws(options[parsed + 1]),
           settings' = Applied(options[parsed + 1]), UNCHANGED options,
           NEW k \in Nat, k = parsed + 1
    PROVE  SettingsOK' /\ AsAsked(k)'
<1> DEFINE item == options[k]
<1>1. options \in Seq(Items) /\ parsed \in Nat /\ k \in 1..Len(options) /\ k - 1 = parsed /\ Len(options) \in Nat
  BY DEF OptionsOK
<1>2. item \in Items
  BY <1>1
<1>3. /\ DOMAIN settings' = DOMAIN Default
      /\ settings'.search_scopes = IF item.option \in {"pkg", "search"}
                             THEN AddScopes(settings.search_scopes, item.scopes)
                             ELSE settings.search_scopes
      /\ settings'.ignored_scopes = IF item.option = "ignore"
                              THEN AddScopes(settings.ignored_scopes, item.scopes)
                              ELSE settings.ignored_scopes
      /\ IF item.option = "progress-point"
         THEN settings'.progress_class = item.class /\ settings'.lineno \in item.number
         ELSE settings'.progress_class = settings.progress_class /\ settings'.lineno = settings.lineno
      /\ settings'.level = IF item.option = "logging-level" THEN item.level ELSE settings.level
      /\ IF item.option = "warmup"
         THEN settings'.warmup_time \in {m * 1000 : m \in item.number}
         ELSE settings'.warmup_time = settings.warmup_time
      /\ settings'.output.timed = IF item.option = "output-file" THEN TRUE ELSE settings.output.timed
      /\ settings'.end_to_end = IF item.option = "end-to-end" THEN TRUE ELSE settings.end_to_end
      /\ settings'.fix_exp = IF item.option = "fix-exp" THEN TRUE ELSE settings.fix_exp
  BY <1>2, AppliedFields
<1>4. \A j \in 1..k : j \in 1..parsed \/ j = k
  BY <1>1
<1>5. \A j \in 1..parsed : j \in 1..k
  BY <1>1
<1>6. /\ settings'.search_scopes = FlattenedTo(ScopesOf({"pkg", "search"}), k)
      /\ settings'.ignored_scopes = FlattenedTo(ScopesOf({"ignore"}), k)
      /\ settings'.search_scopes \in Seq(PreparedScopes)
  <2>1. /\ settings.search_scopes = FlattenedTo(ScopesOf({"pkg", "search"}), k - 1)
        /\ settings.ignored_scopes = FlattenedTo(ScopesOf({"ignore"}), k - 1)
    BY <1>1 DEF AsAsked, ScopesGathered
  <2>2. \A names : /\ FlattenedTo(ScopesOf(names), k) \in Seq(PreparedScopes)
                   /\ FlattenedTo(ScopesOf(names), k) =
                        IF item.option \in names
                        THEN AddScopes(FlattenedTo(ScopesOf(names), k - 1), item.scopes)
                        ELSE FlattenedTo(ScopesOf(names), k - 1)
    BY <1>1, GatherStep
  <2>3. item.option \in {"ignore"} <=> item.option = "ignore"
    OBVIOUS
  <2> HIDE DEF item
  <2>4. QED
    BY <1>3, <2>1, <2>2, <2>3
<1>7. ScopesGathered(k)' /\ SettingsOK'
  <2>1. \A names : ScopesOf(names)' = ScopesOf(names)
    BY DEF ScopesOf
  <2>2. ScopesGathered(k)'
    BY <1>6, <2>1 DEF ScopesGathered
  <2>3. QED
    BY <1>3, <1>6, <2>2 DEF SettingsOK
<1>8. \A option : \A j \in 1..parsed :
         LastUpTo(j, k, option) => LastUpTo(j, parsed, option) /\ item.option # option
  <2>1. \A j \in 1..parsed : k \in (j + 1)..k /\ \A i \in (j + 1)..parsed : i \in (j + 1)..k
    BY <1>1
  <2>2. QED
    BY <2>1 DEF LastUpTo
<1>9. \A option : Given(option, k) <=> Given(option, parsed) \/ item.option = option
  <2>1. k \in 1..k
    BY <1>1
  <2>2. QED
    BY <1>4, <1>5, <2>1 DEF Given
<1>10. LastCounts(k)'
  <2>1. ASSUME NEW j \in 1..k, LastUpTo(j, k, "progress-point") PROVE settings'.progress_class = options[j].class /\ settings'.lineno \in options[j].number
    <3>1. CASE j = k
      BY <1>3, <2>1, <3>1 DEF LastUpTo
    <3>2. CASE j # k
      <4>1. j \in 1..parsed /\ LastUpTo(j, parsed, "progress-point") /\ item.option # "progress-point"
        BY <1>4, <1>8, <2>1, <3>2
      <4>2. settings.progress_class = options[j].class /\ settings.lineno \in options[j].number
        BY <4>1 DEF AsAsked, LastCounts
      <4>3. QED
        BY <1>3, <4>1, <4>2
    <3>3. QED
      BY <3>1, <3>2
  <2>2. ASSUME NEW j \in 1..k, LastUpTo(j, k, "logging-level") PROVE settings'.level = options[j].level
    <3>1. CASE j = k
      BY <1>3, <2>2, <3>1 DEF LastUpTo
    <3>2. CASE j # k
      <4>1. j \in 1..parsed /\ LastUpTo(j, parsed, "logging-level") /\ item.option # "logging-level"
        BY <1>4, <1>8, <2>2, <3>2
      <4>2. settings.level = options[j].level
        BY <4>1 DEF AsAsked, LastCounts
      <4>3. QED
        BY <1>3, <4>1, <4>2
    <3>3. QED
      BY <3>1, <3>2
  <2>3. ASSUME NEW j \in 1..k, LastUpTo(j, k, "warmup") PROVE settings'.warmup_time \in {m * 1000 : m \in options[j].number}
    <3>1. CASE j = k
      BY <1>3, <2>3, <3>1 DEF LastUpTo
    <3>2. CASE j # k
      <4>1. j \in 1..parsed /\ LastUpTo(j, parsed, "warmup") /\ item.option # "warmup"
        BY <1>4, <1>8, <2>3, <3>2
      <4>2. settings.warmup_time \in {m * 1000 : m \in options[j].number}
        BY <4>1 DEF AsAsked, LastCounts
      <4>3. QED
        BY <1>3, <4>1, <4>2
    <3>3. QED
      BY <3>1, <3>2
  <2>4. ~Given("logging-level", k) => settings'.level = Default.level
    BY <1>3, <1>9 DEF AsAsked, LastCounts
  <2>5. ~Given("warmup", k) => settings'.warmup_time = 0
    BY <1>3, <1>9 DEF AsAsked, LastCounts
  <2>6. /\ \A j, n, option : LastUpTo(j, n, option)' <=> LastUpTo(j, n, option)
        /\ \A option, n : Given(option, n)' <=> Given(option, n)
    BY DEF LastUpTo, Given
  <2>7. QED
    BY <2>1, <2>2, <2>3, <2>4, <2>5, <2>6 DEF LastCounts
<1>11. SwitchesSet(k)'
  <2>1. SwitchesSet(parsed)
    BY DEF AsAsked
  <2>2. /\ settings'.output.timed <=> Given("output-file", k)
        /\ settings'.end_to_end <=> Given("end-to-end", k)
        /\ settings'.fix_exp <=> Given("fix-exp", k)
    BY <1>3, <1>9, <2>1 DEF SwitchesSet
  <2>3. \A option, n : Given(option, n)' <=> Given(option, n)
    BY DEF Given
  <2>4. QED
    BY <2>2, <2>3 DEF SwitchesSet
<1>12. QED
  BY <1>7, <1>10, <1>11 DEF AsAsked

\* Nothing is parsed at the start, and nothing set.
LEMMA InitOptions == LoadInit => OptionInv
<1> SUFFICES ASSUME LoadInit PROVE OptionInv
  OBVIOUS
<1>1. options \in Written /\ parsed = 0 /\ settings = Default /\ outcome = "parsing"
  BY DEF LoadInit, Init
<1>2. options \in Seq(Items) /\ DOMAIN options = 1..Len(options) /\ Len(options) \in Nat
  BY <1>1, ConstantsAssumption
<1>3. OptionsOK
  BY <1>1, <1>2, ConstantsAssumption DEF OptionsOK
<1>4. SettingsOK
  BY <1>1, EmptySeq DEF SettingsOK, Default
<1>5. AsAsked(0)
  <2>1. \A option : ~Given(option, 0)
    BY DEF Given
  <2>2. ScopesGathered(0)
    BY <1>1 DEF ScopesGathered, FlattenedTo, Default
  <2>3. LastCounts(0)
    <3>1. 1..0 = {}
      OBVIOUS
    <3>2. settings.level = Default.level /\ settings.warmup_time = 0
      BY <1>1 DEF Default
    <3>3. QED
      BY <2>1, <3>1, <3>2 DEF LastCounts
  <2>4. SwitchesSet(0)
    BY <1>1, <2>1 DEF SwitchesSet, Default
  <2>5. QED
    BY <2>2, <2>3, <2>4 DEF AsAsked
<1>6. QED
  BY <1>1, <1>3, <1>4, <1>5 DEF OptionInv, ParsedSoFar, ExitedForCause

\* What is asked for depends on the options and the settings only.
LEMMA AskedKept ==
    ASSUME UNCHANGED <<options, settings>>
    PROVE  /\ SettingsOK' <=> SettingsOK
           /\ \A n : AsAsked(n)' <=> AsAsked(n)
           /\ Incomplete(settings)' <=> Incomplete(settings)
<1>1. SettingsOK' <=> SettingsOK
  BY DEF SettingsOK
<1>2. /\ \A names : ScopesOf(names)' = ScopesOf(names)
      /\ \A j, n, option : LastUpTo(j, n, option)' <=> LastUpTo(j, n, option)
      /\ \A option, n : Given(option, n)' <=> Given(option, n)
  BY DEF ScopesOf, LastUpTo, Given
<1>3. \A n : ScopesGathered(n)' <=> ScopesGathered(n)
  BY <1>2 DEF ScopesGathered
<1>4. \A n : LastCounts(n)' <=> LastCounts(n)
  BY <1>2 DEF LastCounts
<1>5. \A n : SwitchesSet(n)' <=> SwitchesSet(n)
  BY <1>2 DEF SwitchesSet
<1>6. Incomplete(settings)' <=> Incomplete(settings)
  BY DEF Incomplete
<1>7. QED
  BY <1>1, <1>3, <1>4, <1>5, <1>6 DEF AsAsked

\* Every step of loading keeps the settings what was asked for.
LEMMA OptionStep ==
    ASSUME OptionInv, [LoadNext]_<<vars, loadVars>>
    PROVE  OptionInv'
<1> USE DEF OptionInv, OptionsOK
<1>1. CASE ParseItem
  <2> DEFINE item == options[parsed + 1]
  <2>1. /\ outcome = "parsing" /\ parsed < Len(options) /\ parsed' = parsed + 1 /\ UNCHANGED options
        /\ AsAsked(parsed) /\ parsed \in Nat /\ Len(options) \in Nat
    BY <1>1 DEF ParseItem, ParsedSoFar
  <2>2. CASE Rejected(item)
    <3>1. outcome' = "exited" /\ UNCHANGED settings
      BY <1>1, <2>2 DEF ParseItem
    <3>2. parsed + 1 \in DOMAIN options
      BY <2>1
    <3>3. \E i \in DOMAIN options' : Rejected(options'[i])
      BY <2>1, <2>2, <3>2
    <3>4. SettingsOK'
      BY <2>1, <3>1, AskedKept
    <3>5. OptionsOK'
      BY <2>1, <3>1
    <3> HIDE DEF item, OptionsOK
    <3>6. QED
      BY <3>1, <3>3, <3>4, <3>5 DEF ParsedSoFar, ExitedForCause, Rejected
  <2>3. CASE ~Rejected(item) /\ Throws(item)
    <3>1. outcome' = "terminated" /\ UNCHANGED settings
      BY <1>1, <2>3 DEF ParseItem
    <3>2. SettingsOK'
      BY <2>1, <3>1, AskedKept
    <3>3. OptionsOK'
      BY <2>1, <3>1
    <3> HIDE DEF item, OptionsOK
    <3>4. QED
      BY <3>1, <3>2, <3>3 DEF ParsedSoFar, ExitedForCause
  <2>4. CASE ~Rejected(item) /\ ~Throws(item)
    <3>1. outcome' = outcome /\ settings' = Applied(item)
      BY <1>1, <2>4 DEF ParseItem
    <3>2. PICK k \in Nat : k = parsed + 1
      BY <2>1
    <3>3. SettingsOK' /\ AsAsked(k)'
      BY <2>1, <2>4, <3>1, <3>2, ParseItemAsked
    <3>4. AsAsked(parsed)'
      BY <2>1, <3>2, <3>3
    <3>5. OptionsOK'
      BY <2>1, <3>1
    <3> HIDE DEF item, OptionsOK
    <3>6. QED
      BY <2>1, <3>1, <3>3, <3>4, <3>5 DEF ParsedSoFar, ExitedForCause
  <2>5. QED
    BY <2>2, <2>3, <2>4
<1>2. CASE WriteHeader
  <2>1. outcome = "parsing" /\ parsed = Len(options) /\ outcome' = "header" /\ UNCHANGED <<options, parsed, settings>>
    BY <1>2 DEF WriteHeader
  <2>2. SettingsOK' /\ AsAsked(parsed)'
    BY <2>1, AskedKept DEF ParsedSoFar
  <2>3. QED
    BY <2>1, <2>2 DEF ParsedSoFar, ExitedForCause
<1>3. CASE CheckSettings
  <2>1. /\ outcome = "header" /\ UNCHANGED <<options, parsed, settings>>
        /\ outcome' = IF Incomplete(settings) THEN "exited" ELSE "accepted"
    BY <1>3 DEF CheckSettings
  <2>2. AsAsked(parsed) /\ parsed = Len(options)
    BY <2>1 DEF ParsedSoFar
  <2>3. SettingsOK' /\ AsAsked(parsed)' /\ AsAsked(Len(options))' /\ (Incomplete(settings)' <=> Incomplete(settings))
    BY <2>1, <2>2, AskedKept
  <2>4. QED
    BY <2>1, <2>2, <2>3 DEF ParsedSoFar, ExitedForCause
<1>4. CASE MissingOptions
  <2>1. options = <<>> /\ outcome' = "exited" /\ UNCHANGED <<options, parsed, settings>>
    BY <1>4 DEF MissingOptions
  <2>2. SettingsOK'
    BY <2>1, AskedKept
  <2>3. QED
    BY <2>1, <2>2 DEF ParsedSoFar, ExitedForCause
<1>5. ASSUME UNCHANGED vars PROVE OptionInv'
  <2>1. UNCHANGED <<options, parsed, settings, outcome>>
    BY <1>5 DEF vars
  <2>2. SettingsOK' /\ \A n : AsAsked(n)' <=> AsAsked(n)
    BY <2>1, AskedKept
  <2>3. Incomplete(settings)' <=> Incomplete(settings)
    BY <2>1, AskedKept
  <2>4. ParsedSoFar'
    BY <2>1, <2>2 DEF ParsedSoFar
  <2>5. ExitedForCause'
    BY <2>1, <2>2, <2>3 DEF ExitedForCause, Rejected
  <2>6. QED
    BY <2>1, <2>2, <2>4, <2>5
<1>6. QED
  BY <1>1, <1>2, <1>3, <1>4, <1>5
  DEF LoadNext, GetEnv, PrepareJvmti, PrepareFailed, SetEventCallbacks, EnableEvent,
      RegistrationFailed, SetAsgct, ParseOptions, Next, SetJVMTI, vars

\* An option that is given at all is given for a last time.
LEMMA LastGiven ==
    ASSUME NEW n \in Nat, NEW option, Given(option, n)
    PROVE  \E k \in 1..n : LastUpTo(k, n, option)
<1> DEFINE B == {m \in 0..n : n - m \in 1..n /\ options[n - m].option = option}
<1>1. PICK j \in 1..n : options[j].option = option
  BY DEF Given
<1>2. n - j \in 0..n /\ n - (n - j) = j
  OBVIOUS
<1>3. n - j \in B
  BY <1>1, <1>2
<1>4. B \subseteq 0..n
  OBVIOUS
<1> HIDE DEF B
<1>5. B \subseteq Nat /\ B # {}
  BY <1>3, <1>4
<1>6. PICK m \in B : \A i \in B : m <= i
  BY <1>5, LeastNatural
<1> USE DEF B
<1>7. m \in 0..n /\ n - m \in 1..n /\ options[n - m].option = option
  OBVIOUS
<1>8. ASSUME NEW i \in (n - m + 1)..n, options[i].option = option PROVE FALSE
  <2>1. n - i \in 0..n /\ n - (n - i) = i /\ i \in 1..n
    BY <1>7
  <2>2. n - i \in B
    BY <1>8, <2>1
  <2>3. m <= n - i
    BY <1>6, <2>2
  <2> HIDE DEF B
  <2>4. QED
    BY <1>7, <2>3
<1>9. QED
  BY <1>7, <1>8 DEF LastUpTo

\* The property's places are the invariant's.
LEMMA PlacesGiven ==
    ASSUME OptionsOK, NEW option
    PROVE  /\ Places({option}) # {} <=> Given(option, Len(options))
           /\ \A i \in DOMAIN options : LastPlace(i, {option}) <=> LastUpTo(i, Len(options), option)
<1>1. DOMAIN options = 1..Len(options) /\ Len(options) \in Nat
  BY DEF OptionsOK
<1>2. \A i : i \in Places({option}) <=> i \in 1..Len(options) /\ options[i].option = option
  BY <1>1 DEF Places
<1>3. Places({option}) # {} <=> Given(option, Len(options))
  BY <1>2 DEF Given
<1>4. ASSUME NEW i \in DOMAIN options
      PROVE  LastPlace(i, {option}) <=> LastUpTo(i, Len(options), option)
  <2>1. \A j \in 1..Len(options) : j <= i \/ j \in (i + 1)..Len(options)
    BY <1>1
  <2>2. \A j \in (i + 1)..Len(options) : j \in 1..Len(options) /\ ~ (j <= i)
    BY <1>1
  <2>3. QED
    BY <1>1, <1>2, <2>1, <2>2 DEF LastPlace, LastUpTo
<1>5. QED
  BY <1>3, <1>4

\* The scopes asked for are those gathered at the end.
LEMMA ScopesAskedGathered ==
    ASSUME OptionsOK, NEW names
    PROVE  ScopesAsked(names) = FlattenedTo(ScopesOf(names), Len(options))
<1>1. ScopesOf(names) \in Seq(Seq(PreparedScopes)) /\ Len(ScopesOf(names)) = Len(options)
  BY ScopesOfType DEF OptionsOK
<1>2. QED
  BY <1>1, FlattenStep DEF ScopesAsked

\* Every run keeps the settings what the options parsed so far ask for.
THEOREM OptionInvariant == LoadSpec => []OptionInv
<1>1. OptionInv /\ [LoadNext]_<<vars, loadVars>> => OptionInv'
  BY OptionStep
<1>2. QED
  BY InitOptions, <1>1, PTL DEF LoadSpec

\* The settings keep their shape, and every scope searched is in the JVM's form.
THEOREM OptionTypes == LoadSpec => []TypeOK
<1>1. OptionInv => TypeOK
  <2> SUFFICES ASSUME OptionInv PROVE TypeOK
    OBVIOUS
  <2>1. settings.search_scopes \in Seq(PreparedScopes)
    BY DEF OptionInv, SettingsOK
  <2>2. \A i \in DOMAIN settings.search_scopes : settings.search_scopes[i] \in PreparedScopes
    BY <2>1, ElementOfSeq
  <2>3. \A i \in DOMAIN settings.search_scopes : settings.search_scopes[i].separator = "/"
    BY <2>2 DEF PreparedScopes
  <2>4. QED
    BY <2>3 DEF OptionInv, OptionsOK, SettingsOK, TypeOK
<1>2. QED
  BY OptionInvariant, <1>1, PTL

\* Whatever options are written, in whatever order and how often, the settings of an
\* agent that accepts them are those asked for (ParseOptions, add_search_scope).
THEOREM SettingsAsAsked == LoadSpec => []ParsedAsAsked
<1>1. OptionInv => ParsedAsAsked
  <2> SUFFICES ASSUME OptionInv, outcome = "accepted" PROVE ParsedAsAsked
    BY DEF ParsedAsAsked
  <2>1. OptionsOK /\ AsAsked(Len(options))
    BY DEF OptionInv, OptionsOK, ParsedSoFar
  <2>2. /\ settings.search_scopes = ScopesAsked({"pkg", "search"})
        /\ settings.ignored_scopes = ScopesAsked({"ignore"})
    BY <2>1, ScopesAskedGathered DEF AsAsked, ScopesGathered
  <2>3. \A i \in DOMAIN options : i \in 1..Len(options)
    BY <2>1 DEF OptionsOK
  <2>4. \A i \in DOMAIN options :
           /\ LastPlace(i, {"progress-point"}) =>
                settings.progress_class = options[i].class /\ settings.lineno \in options[i].number
           /\ LastPlace(i, {"logging-level"}) => settings.level = options[i].level
           /\ LastPlace(i, {"warmup"}) =>
                settings.warmup_time \in {n * 1000 : n \in options[i].number}
    BY <2>1, <2>3, PlacesGiven DEF AsAsked, LastCounts
  <2>5. /\ Places({"logging-level"}) = {} => settings.level = Default.level
        /\ Places({"warmup"}) = {} => settings.warmup_time = 0
    BY <2>1, PlacesGiven DEF AsAsked, LastCounts
  <2>6. /\ settings.output.timed <=> Places({"output-file"}) # {}
        /\ settings.end_to_end <=> Places({"end-to-end"}) # {}
        /\ settings.fix_exp <=> Places({"fix-exp"}) # {}
    BY <2>1, PlacesGiven DEF AsAsked, SwitchesSet
  <2>7. QED
    BY <2>2, <2>4, <2>5, <2>6 DEF ParsedAsAsked
<1>2. QED
  BY OptionInvariant, <1>1, PTL

\* Without the fix_exp of README.md:121, what ParseOptions rejects nobody has offered.
LEMMA RejectedIsBad ==
    ASSUME ~Documented(options), NEW i \in DOMAIN options, Rejected(options[i])
    PROVE  BadItem(i)
<1>1. ~FixExpAt(options, i) /\ ~FixExpAt(options, i - 1)
  BY DEF Documented, FixExpAt
<1>2. QED
  BY <1>1 DEF BadItem, Rejected, Levels, DocumentedNames, DocumentedLevels

\* The option string stays the one written.
AsWritten == options \in Written

LEMMA OptionsKept == LoadSpec => []AsWritten
<1> USE DEF AsWritten
<1>1. LoadInit => AsWritten
  BY DEF LoadInit, Init
<1>2. AsWritten /\ [LoadNext]_<<vars, loadVars>> => AsWritten'
  <2> SUFFICES ASSUME AsWritten, [LoadNext]_<<vars, loadVars>> PROVE AsWritten'
    OBVIOUS
  <2>1. CASE ParseOptions
    BY <2>1 DEF ParseOptions, Next, ParseItem, WriteHeader, CheckSettings
  <2>2. CASE UNCHANGED <<vars, loadVars>>
    BY <2>2 DEF vars
  <2>3. QED
    BY <2>1, <2>2
       DEF LoadNext, GetEnv, PrepareJvmti, PrepareFailed, SetEventCallbacks, EnableEvent,
           RegistrationFailed, SetAsgct, MissingOptions, SetJVMTI, vars
<1> HIDE DEF AsWritten
<1>3. QED
  BY <1>1, <1>2, PTL DEF LoadSpec

\* Among users who do not write README.md:121's fix_exp, nobody is refused who wrote
\* only items that the documents offer, a scope, and a progress point or end-to-end.
THEOREM NeverRefusedWithoutCause ==
    (\A written \in Written : ~Documented(written)) => (LoadSpec => []RefusedForCause)
<1> SUFFICES ASSUME \A written \in Written : ~Documented(written)
             PROVE  LoadSpec => []RefusedForCause
  OBVIOUS
<1>1. OptionInv /\ AsWritten => RefusedForCause
  <2> SUFFICES ASSUME OptionInv, AsWritten, outcome = "exited",
                      ~ \E i \in DOMAIN options : Rejected(options[i])
               PROVE  RefusedForCause
    BY RejectedIsBad DEF RefusedForCause, AsWritten
  <2>0. OptionsOK
    BY DEF OptionInv
  <2>1. CASE options = <<>>
    <3>1. ScopesOf({"pkg", "search"}) = <<>>
      BY <2>1 DEF ScopesOf
    <3>2. ScopesAsked({"pkg", "search"}) = <<>>
      BY <3>1 DEF ScopesAsked, FlattenSeq
    <3>3. QED
      BY <3>2 DEF RefusedForCause
  <2>2. CASE AsAsked(Len(options)) /\ Incomplete(settings)
    <3>1. CASE settings.search_scopes = <<>>
      <4>1. ScopesAsked({"pkg", "search"}) = <<>>
        BY <2>0, <2>2, <3>1, ScopesAskedGathered DEF AsAsked, ScopesGathered
      <4>2. QED
        BY <4>1 DEF RefusedForCause
    <3>2. CASE ~settings.end_to_end /\ (settings.progress_class = "" \/ settings.lineno = -1)
      <4>1. Places({"end-to-end"}) = {}
        BY <2>0, <2>2, <3>2, PlacesGiven DEF AsAsked, SwitchesSet
      <4>2. CASE Given("progress-point", Len(options))
        <5>1. Len(options) \in Nat /\ DOMAIN options = 1..Len(options)
          BY <2>0 DEF OptionsOK
        <5>2. PICK i \in 1..Len(options) : LastUpTo(i, Len(options), "progress-point")
          BY <4>2, <5>1, LastGiven
        <5>3. settings.progress_class = options[i].class /\ settings.lineno \in options[i].number
          BY <2>2, <5>2 DEF AsAsked, LastCounts
        <5>4. settings.lineno = -1 => options[i].number = {-1}
          BY <2>0, <5>3 DEF OptionsOK
        <5>5. LastPlace(i, {"progress-point"})
          BY <2>0, <5>1, <5>2, PlacesGiven
        <5>6. QED
          BY <3>2, <4>1, <5>1, <5>3, <5>4, <5>5 DEF RefusedForCause
      <4>3. CASE ~Given("progress-point", Len(options))
        <5>1. Places({"progress-point"}) = {}
          BY <2>0, <4>3, PlacesGiven
        <5>2. QED
          BY <4>1, <5>1 DEF RefusedForCause
      <4>4. QED
        BY <4>2, <4>3
    <3>3. QED
      BY <2>2, <3>1, <3>2 DEF Incomplete
  <2>3. QED
    BY <2>1, <2>2 DEF OptionInv, ExitedForCause
<1>2. QED
  BY OptionInvariant, OptionsKept, <1>1, PTL

=============================================================================
