----------------------------- MODULE LineRanges -----------------------------
(***************************************************************************)
(* From a caught frame to the line the experiment is about, and back from  *)
(* a frame to whether it is on that line (src/src/profiler.cc: the second  *)
(* half of runAgentThread's cycle, and Profiler::inExperiment).            *)
(*                                                                         *)
(* A method's line-number table is a sequence of entries: entry i covers   *)
(* the bytecode indices from its start_location to the next one's.  A line *)
(* may own several entries (a loop's condition, a finally block).          *)
(*                                                                         *)
(* Next to a definition stands, where its name says so, the same with a    *)
(* plausible mistake in it (Early, Late, Open); none of them is used here. *)
(***************************************************************************)
EXTENDS Integers, Sequences

CONSTANTS
    Methods,     \* methods of allowed classes, all with a line table
    Lines,       \* line numbers
    MaxBCI,      \* MAX_BCI, the largest bytecode index
    MaxEntries,  \* bound: entries of a line table
    Null         \* the method id before the first experiment

ASSUME ConstantsAssumption ==
    /\ MaxBCI \in Nat /\ MaxEntries \in Nat
    /\ Lines \subseteq Nat /\ Null \notin Methods

BCIs == 0..MaxBCI

Entry == [start_location : BCIs, line_number : Lines]

\* A table as compilers write it: from the first bytecode on, in ascending order.
WellFormed(table) ==
    /\ table # <<>> /\ table[1].start_location = 0
    /\ \A i, j \in DOMAIN table : i < j => table[i].start_location < table[j].start_location

Tables == {table \in UNION {[1..n -> Entry] : n \in 1..MaxEntries} : WellFormed(table)}

VARIABLES
    line_table,       \* the line table of each method
    method_id,        \* current_experiment.method_id
    bci,              \* current_experiment.bci
    lineno,           \* current_experiment.lineno
    location_ranges   \* current_experiment.location_ranges, as a set of pairs

vars == <<line_table, method_id, bci, lineno, location_ranges>>

Init ==
    /\ line_table \in [Methods -> Tables]
    /\ method_id = Null /\ bci = 0 /\ lineno = 0 /\ location_ranges = {}

\* The entry before the first one that starts behind the index, or the last one.
CaughtEntryEarly(table, index) ==
    CHOOSE i \in DOMAIN table :
        /\ i = Len(table) \/ table[i + 1].start_location >= index
        /\ \A j \in 1..(i - 1) : table[j + 1].start_location < index

CaughtEntry(table, index) ==
    CHOOSE i \in DOMAIN table :
        /\ i = Len(table) \/ table[i + 1].start_location > index
        /\ \A j \in 1..(i - 1) : table[j + 1].start_location <= index

\* Where entry i ends, exclusively.
EntryEndOpen(table, i) ==
    IF i < Len(table) THEN table[i + 1].start_location ELSE MaxBCI

EntryEndLate(table, i) ==
    IF i < Len(table) - 1 THEN table[i + 1].start_location ELSE MaxBCI + 1

EntryEnd(table, i) ==
    IF i < Len(table) THEN table[i + 1].start_location ELSE MaxBCI + 1

RangesOf(table, line) ==
    {<<table[i].start_location, EntryEnd(table, i)>> :
        i \in {j \in DOMAIN table : table[j].line_number = line}}

\* The agent chooses a caught frame for the next experiment.
ChooseFrame(m, index) ==
    LET line == line_table[m][CaughtEntry(line_table[m], index)].line_number IN
    /\ method_id' = m /\ bci' = index
    /\ lineno' = line
    /\ location_ranges' = RangesOf(line_table[m], line)
    /\ UNCHANGED line_table

Next == \E m \in Methods, index \in BCIs : ChooseFrame(m, index)

Spec == Init /\ [][Next]_vars

\* Profiler::inExperiment: is a frame on the line of the experiment?
InExperiment(m, index) ==
    /\ m = method_id
    /\ \E range \in location_ranges : range[1] <= index /\ index < range[2]

-----------------------------------------------------------------------------
(* Properties *)

TypeOK ==
    /\ line_table \in [Methods -> Tables]
    /\ method_id \in Methods \cup {Null} /\ bci \in BCIs
    /\ lineno \in Lines \cup {0}
    /\ \A range \in location_ranges :
          range[1] \in BCIs /\ range[2] \in 1..(MaxBCI + 1) /\ range[1] < range[2]

\* Reference: the line of an index is that of the entry with the greatest start
\* not behind it.
IsLineOf(m, index, line) ==
    LET table == line_table[m] IN
    \E i \in DOMAIN table :
        /\ table[i].line_number = line
        /\ table[i].start_location <= index
        /\ \A j \in DOMAIN table :
              table[j].start_location <= index =>
                  table[j].start_location <= table[i].start_location

\* The frame that was caught is one that the experiment charges for: it runs on the
\* line the sample came from.
CaughtFrameCharged == method_id # Null => InExperiment(method_id, bci)

\* A signal charges its thread exactly when it finds it on the experiment's line: all
\* the entries of the line count, and no index of another line or method.
ExactlyTheLineIsCharged ==
    \A m \in Methods, index \in BCIs :
        InExperiment(m, index) <=> m = method_id /\ IsLineOf(m, index, lineno)

=============================================================================
