---------------------------- MODULE AgentOptions ----------------------------
(***************************************************************************)
(* How the agent reads its options when the VM loads it                    *)
(* (src/src/profiler.cc: ParseOptions; src/src/args.h).                    *)
(*                                                                         *)
(* The option string is cut at every underscore, also at one inside a      *)
(* value.  What a user writes is therefore a sequence of items; an item    *)
(* has an option's name and what its value amounts to: the scopes between  *)
(* the bars, the class and the numbers of a progress point, and so on.     *)
(*                                                                         *)
(* Next to a definition stands, where its name says so, the same with a    *)
(* plausible mistake in it (Replacing, Always, Unchanged); none is used    *)
(* here.                                                                   *)
(***************************************************************************)
EXTENDS Integers, Sequences, SequencesExt

CONSTANT
    Written     \* option strings a user may write, each a sequence of items

\* An item without a value; the module's users fill in what their items have.
Item(option) ==
    [option |-> option,
     scopes |-> <<>>,                \* pkg, search, ignore: names with their separator
     class |-> "", colon |-> FALSE,  \* progress-point
     number |-> {},                  \* progress-point, warmup: {n}, or {} if not a number
     level |-> "", path |-> <<>>]    \* logging-level; output-file, in parts

Scopes == Seq([name : STRING, separator : STRING])

\* A number is one number or none.
Items == [option : STRING, scopes : Scopes, class : STRING, colon : BOOLEAN,
          number : SUBSET Int, level : STRING, path : Seq(STRING)]

ASSUME ConstantsAssumption ==
    /\ Written \subseteq Seq(Items)
    /\ \A written \in Written : \A i \in DOMAIN written :
          \A m, n \in written[i].number : m = n

Levels == {"trace", "debug", "info", "warn", "error", "critical", "off"}

\* The static settings before ParseOptions.
Default ==
    [search_scopes |-> <<>>, ignored_scopes |-> <<>>, progress_class |-> "", lineno |-> -1,
     level |-> "info", output |-> [path |-> <<"jcoz-output">>, timed |-> FALSE],
     end_to_end |-> FALSE, warmup_time |-> 0, fix_exp |-> FALSE]

VARIABLES
    options,   \* the items of the option string
    parsed,    \* how many of them have been parsed
    settings,  \* the Profiler's static settings and kOutputFile
    outcome    \* "parsing", then "header", "accepted", "exited" or "terminated"

vars == <<options, parsed, settings, outcome>>

Init ==
    /\ options \in Written /\ parsed = 0
    /\ settings = Default /\ outcome = "parsing"

\* prepare_scope: dots become slashes.
PreparedUnchanged(scope) == scope
Prepared(scope) == [scope EXCEPT !.separator = "/"]

AllPrepared(scopes) == [i \in DOMAIN scopes |-> Prepared(scopes[i])]

AddScopesReplacing(scopes, new) == AllPrepared(new)
AddScopes(scopes, new) == scopes \o AllPrepared(new)

\* agent_args::set_output_file: whatever stands before the first dot, and the time.
OutputFile(path) ==
    LET dot == SelectInSeq(path, LAMBDA part : part = ".") IN
    [path |-> IF dot = 0 THEN path ELSE SubSeq(path, 1, dot - 1), timed |-> TRUE]

Rejected(item) ==
    \/ item.option \notin {"pkg", "search", "ignore", "progress-point", "logging-level",
                           "output-file", "end-to-end", "warmup", "fix-exp"}
    \/ item.option = "progress-point" /\ ~item.colon
    \/ item.option = "logging-level" /\ item.level \notin Levels

\* std::stoi and std::stol throw, and nobody catches.
Throws(item) ==
    item.option \in {"progress-point", "warmup"} /\ item.number = {}

NumberOf(item) == CHOOSE n \in item.number : TRUE

Applied(item) ==
    CASE item.option \in {"pkg", "search"} ->
           [settings EXCEPT !.search_scopes = AddScopes(@, item.scopes)]
      [] item.option = "ignore" ->
           [settings EXCEPT !.ignored_scopes = AddScopes(@, item.scopes)]
      [] item.option = "progress-point" ->
           [settings EXCEPT !.progress_class = item.class, !.lineno = NumberOf(item)]
      [] item.option = "logging-level" -> [settings EXCEPT !.level = item.level]
      [] item.option = "output-file" -> [settings EXCEPT !.output = OutputFile(item.path)]
      [] item.option = "end-to-end" -> [settings EXCEPT !.end_to_end = TRUE]
      [] item.option = "warmup" -> [settings EXCEPT !.warmup_time = NumberOf(item) * 1000]
      [] item.option = "fix-exp" -> [settings EXCEPT !.fix_exp = TRUE]

ParseItem ==
    /\ outcome = "parsing" /\ parsed < Len(options)
    /\ LET item == options[parsed + 1] IN
         IF Rejected(item) THEN outcome' = "exited" /\ UNCHANGED settings
         ELSE IF Throws(item) THEN outcome' = "terminated" /\ UNCHANGED settings
         ELSE settings' = Applied(item) /\ UNCHANGED outcome
    /\ parsed' = parsed + 1
    /\ UNCHANGED options

\* The column names are appended to the output file before the settings are checked.
WriteHeader ==
    /\ outcome = "parsing" /\ parsed = Len(options)
    /\ outcome' = "header"
    /\ UNCHANGED <<options, parsed, settings>>

IncompleteAlways(s) ==
    s.search_scopes = <<>> \/ s.progress_class = "" \/ s.lineno = -1

Incomplete(s) ==
    \/ s.search_scopes = <<>>
    \/ ~s.end_to_end /\ (s.progress_class = "" \/ s.lineno = -1)

CheckSettings ==
    /\ outcome = "header"
    /\ outcome' = IF Incomplete(settings) THEN "exited" ELSE "accepted"
    /\ UNCHANGED <<options, parsed, settings>>

Next == ParseItem \/ WriteHeader \/ CheckSettings

Spec == Init /\ [][Next]_vars

-----------------------------------------------------------------------------
(* Properties *)

TypeOK ==
    /\ parsed \in 0..Len(options)
    /\ DOMAIN settings = DOMAIN Default
    /\ \A i \in DOMAIN settings.search_scopes : settings.search_scopes[i].separator = "/"
    /\ outcome \in {"parsing", "header", "accepted", "exited", "terminated"}

Places(names) == {i \in DOMAIN options : options[i].option \in names}
LastPlace(i, names) == i \in Places(names) /\ \A j \in Places(names) : j <= i

\* What the option string as a whole asks for, without going through it in order.
ScopesOf(names) ==
    [i \in DOMAIN options |->
        IF options[i].option \in names THEN AllPrepared(options[i].scopes) ELSE <<>>]
ScopesAsked(names) == FlattenSeq(ScopesOf(names))

\* Scopes of all their options add up, whichever of pkg and search and in however
\* many pieces they came; of everything else the last one counts.
ParsedAsAsked ==
    outcome = "accepted" =>
        /\ settings.search_scopes = ScopesAsked({"pkg", "search"})
        /\ settings.ignored_scopes = ScopesAsked({"ignore"})
        /\ \A i \in DOMAIN options :
             /\ LastPlace(i, {"progress-point"}) =>
                  settings.progress_class = options[i].class /\ settings.lineno \in options[i].number
             /\ LastPlace(i, {"logging-level"}) => settings.level = options[i].level
             /\ LastPlace(i, {"warmup"}) =>
                  settings.warmup_time \in {n * 1000 : n \in options[i].number}
        /\ Places({"logging-level"}) = {} => settings.level = Default.level
        /\ Places({"warmup"}) = {} => settings.warmup_time = 0
        /\ settings.output.timed <=> Places({"output-file"}) # {}
        /\ settings.end_to_end <=> Places({"end-to-end"}) # {}
        /\ settings.fix_exp <=> Places({"fix-exp"}) # {}

\* The option that README.md:121 calls fix_exp arrives as two items.
FixExpAt(written, i) ==
    /\ i \in DOMAIN written /\ i + 1 \in DOMAIN written
    /\ written[i].option = "fix" /\ written[i + 1].option = "exp"

Documented(written) == \E i \in DOMAIN written : FixExpAt(written, i)

\* README.md:121: fix_exp is an option that fixes the experiment length.
FixExpAccepted == Documented(options) => outcome # "exited"

\* What README.md:113-121 lists for the user to choose from, and fix-exp as the usage
\* message (args.h:57) writes it.
DocumentedNames ==
    {"pkg", "search", "ignore", "progress-point", "logging-level", "output-file", "warmup",
     "end-to-end", "fix-exp"}
DocumentedLevels == {"trace", "debug", "info", "warn", "error", "critical", "off"}

\* An item that no document offers.
BadItem(i) ==
    \/ /\ options[i].option \notin DocumentedNames
       /\ ~FixExpAt(options, i) /\ ~FixExpAt(options, i - 1)
    \/ options[i].option = "progress-point" /\ ~options[i].colon
    \/ options[i].option = "logging-level" /\ options[i].level \notin DocumentedLevels

\* The agent only refuses option strings with an item that no document offers, or
\* without a scope, or without a progress point where one is needed.
RefusedForCause ==
    outcome = "exited" =>
        \/ \E i \in DOMAIN options : BadItem(i)
        \/ ScopesAsked({"pkg", "search"}) = <<>>
        \/ /\ Places({"end-to-end"}) = {}
           /\ \/ Places({"progress-point"}) = {}
              \/ \E i \in DOMAIN options :
                    /\ LastPlace(i, {"progress-point"})
                    /\ options[i].class = "" \/ options[i].number = {-1}

\* README.md:118: the output file is the one asked for with the time appended; in
\* particular it lies in the directory that was asked for.
Directory(path) ==
    SubSeq(path, 1, SelectLastInSeq(path, LAMBDA part : part = "/"))

OutputWhereAsked ==
    outcome = "accepted" =>
        \A i \in DOMAIN options :
            LastPlace(i, {"output-file"}) =>
                Directory(settings.output.path) = Directory(options[i].path)

=============================================================================
