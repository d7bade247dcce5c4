-------------------------- MODULE LineRangesProofs --------------------------
(***************************************************************************)
(* Theorems about LineRanges, for line tables of any length and any        *)
(* MAX_BCI.  That the agent's search for the caught entry finds one needs  *)
(* a least index, which WFMin of WellFoundedInduction gives.               *)
(***************************************************************************)
EXTENDS LineRanges, SequenceTheorems, WellFoundedInduction, TLAPS

\* The ranges always come from the table of the experiment's method and its line.
RangesInv ==
    /\ line_table \in [Methods -> Tables]
    /\ IF method_id = Null THEN location_ranges = {}
       ELSE /\ method_id \in Methods
            /\ location_ranges = RangesOf(line_table[method_id], lineno)

\* What a member of Tables is: a sequence of entries in ascending order.
LEMMA TableIsAscending ==
    ASSUME NEW table \in Tables
    PROVE  /\ Len(table) \in Nat /\ DOMAIN table = 1..Len(table)
           /\ \A i \in DOMAIN table : table[i].start_location \in BCIs
           /\ \A i, j \in DOMAIN table :
                 i < j => table[i].start_location < table[j].start_location
<1>1. PICK n \in 1..MaxEntries : table \in [1..n -> Entry]
  BY DEF Tables
<1>2. n \in Nat
  BY ConstantsAssumption
<1>3. table \in Seq(Entry)
  BY <1>1, <1>2, SeqDef
<1>4. \A i \in DOMAIN table : table[i].start_location \in BCIs
  BY <1>1 DEF Entry
<1>5. WellFormed(table)
  BY DEF Tables
<1> QED
  BY <1>3, <1>4, <1>5, LenProperties DEF WellFormed

\* An index lies in an entry exactly when it is the last entry starting at or before it.
LEMMA EntryHoldsIndex ==
    ASSUME NEW table \in Tables, NEW i \in DOMAIN table, NEW index \in BCIs
    PROVE  (table[i].start_location <= index /\ index < EntryEnd(table, i)) <=>
           /\ table[i].start_location <= index
           /\ \A j \in DOMAIN table :
                 table[j].start_location <= index =>
                     table[j].start_location <= table[i].start_location
<1> DEFINE start(j) == table[j].start_location
<1>1. /\ Len(table) \in Nat /\ DOMAIN table = 1..Len(table)
      /\ \A j \in DOMAIN table : start(j) \in BCIs
      /\ \A j, k \in DOMAIN table : j < k => start(j) < start(k)
  BY TableIsAscending
<1>2. MaxBCI \in Nat /\ index \in Nat /\ index <= MaxBCI
  BY ConstantsAssumption DEF BCIs
<1>3. \A j \in DOMAIN table : start(j) \in Nat
  BY <1>1, <1>2 DEF BCIs
<1>4. CASE i = Len(table)
  <2>1. EntryEnd(table, i) = MaxBCI + 1
    BY <1>4 DEF EntryEnd
  <2>2. \A j \in DOMAIN table : j = i \/ start(j) < start(i)
    BY <1>1, <1>4
  <2>3. \A j \in DOMAIN table : start(j) <= start(i)
    BY <1>3, <2>2
  <2> QED
    BY <1>2, <1>3, <2>1, <2>3
<1>5. CASE i # Len(table)
  <2>1. i \in Nat /\ i < Len(table) /\ i + 1 \in DOMAIN table /\ EntryEnd(table, i) = start(i + 1)
    BY <1>1, <1>5 DEF EntryEnd
  <2>2. start(i) < start(i + 1)
    BY <1>1, <2>1
  <2>3. \A j \in DOMAIN table : j < i \/ j = i \/ j = i + 1 \/ i + 1 < j
    BY <1>1, <2>1
  <2>4. \A j \in DOMAIN table : start(j) <= start(i) \/ start(i + 1) <= start(j)
    BY <1>1, <1>3, <2>1, <2>3
  <2>5. ASSUME start(i) <= index, index < start(i + 1),
               NEW j \in DOMAIN table, start(j) <= index
        PROVE  start(j) <= start(i)
    BY <1>2, <1>3, <2>1, <2>4, <2>5
  <2>6. ASSUME start(i) <= index,
               \A j \in DOMAIN table : start(j) <= index => start(j) <= start(i)
        PROVE  index < start(i + 1)
    BY <1>2, <1>3, <2>1, <2>2, <2>6
  <2> QED
    BY <2>1, <2>5, <2>6
<1> QED
  BY <1>4, <1>5

\* Only ChooseFrame sets the ranges, and always from the table.
LEMMA RangesInvariant == Spec => []RangesInv
<1>1. Init => RangesInv
  BY DEF Init, RangesInv
<1>2. RangesInv /\ [Next]_vars => RangesInv'
  <2> SUFFICES ASSUME RangesInv, [Next]_vars PROVE RangesInv'
    OBVIOUS
  <2>1. CASE UNCHANGED vars
    BY <2>1 DEF vars, RangesInv
  <2>2. ASSUME NEW m \in Methods, NEW index \in BCIs, ChooseFrame(m, index)
        PROVE  RangesInv'
    BY <2>2, ConstantsAssumption DEF ChooseFrame, RangesInv
  <2> QED
    BY <2>1, <2>2 DEF Next
<1> QED
  BY <1>1, <1>2, PTL DEF Spec

\* Whatever line tables the methods have, a signal charges its thread exactly when it
\* finds it on the line of the experiment.
THEOREM ChargesExactlyTheLine == Spec => []ExactlyTheLineIsCharged
<1>1. RangesInv => ExactlyTheLineIsCharged
  <2> SUFFICES ASSUME RangesInv, NEW m \in Methods, NEW index \in BCIs
               PROVE  InExperiment(m, index) <=> m = method_id /\ IsLineOf(m, index, lineno)
    BY DEF ExactlyTheLineIsCharged
  <2>1. CASE m # method_id
    BY <2>1 DEF InExperiment
  <2>2. CASE m = method_id
    <3> DEFINE table == line_table[m]
    <3>1. location_ranges = RangesOf(table, lineno) /\ table \in Tables
      BY <2>2, ConstantsAssumption DEF RangesInv
    <3>2. InExperiment(m, index) <=>
            \E i \in DOMAIN table :
              /\ table[i].line_number = lineno
              /\ table[i].start_location <= index /\ index < EntryEnd(table, i)
      <4> HIDE DEF table
      <4>1. ASSUME NEW i \in DOMAIN table, table[i].line_number = lineno,
                   table[i].start_location <= index, index < EntryEnd(table, i)
            PROVE  InExperiment(m, index)
        <5> DEFINE range == <<table[i].start_location, EntryEnd(table, i)>>
        <5>1. range \in location_ranges
          BY <3>1, <4>1 DEF RangesOf
        <5>2. range[1] <= index /\ index < range[2]
          BY <4>1
        <5> QED
          BY <2>2, <5>1, <5>2 DEF InExperiment
      <4>2. ASSUME InExperiment(m, index)
            PROVE  \E i \in DOMAIN table :
                     /\ table[i].line_number = lineno
                     /\ table[i].start_location <= index /\ index < EntryEnd(table, i)
        <5>1. PICK range \in location_ranges : range[1] <= index /\ index < range[2]
          BY <4>2 DEF InExperiment
        <5>2. PICK i \in DOMAIN table :
                /\ table[i].line_number = lineno
                /\ range = <<table[i].start_location, EntryEnd(table, i)>>
          BY <3>1, <5>1 DEF RangesOf
        <5> QED
          BY <5>1, <5>2
      <4> QED
        BY <4>1, <4>2
    <3>3. \A i \in DOMAIN table :
            (table[i].start_location <= index /\ index < EntryEnd(table, i)) <=>
            /\ table[i].start_location <= index
            /\ \A j \in DOMAIN table :
                  table[j].start_location <= index =>
                      table[j].start_location <= table[i].start_location
      BY <3>1, EntryHoldsIndex
    <3> HIDE DEF table
    <3>4. IsLineOf(m, index, lineno) <=>
            \E i \in DOMAIN table :
              /\ table[i].line_number = lineno
              /\ table[i].start_location <= index
              /\ \A j \in DOMAIN table :
                    table[j].start_location <= index =>
                        table[j].start_location <= table[i].start_location
      BY DEF IsLineOf, table
    <3> QED
      BY <2>2, <3>2, <3>3, <3>4
  <2> QED
    BY <2>1, <2>2
<1> QED
  BY RangesInvariant, <1>1, PTL

-----------------------------------------------------------------------------
\* The loop that looks for the caught frame's entry stops at the one the index is in.
LEMMA CaughtEntryHolds ==
    ASSUME NEW table \in Tables, NEW index \in BCIs
    PROVE  /\ CaughtEntry(table, index) \in DOMAIN table
           /\ table[CaughtEntry(table, index)].start_location <= index
           /\ index < EntryEnd(table, CaughtEntry(table, index))
<1> DEFINE start(j) == table[j].start_location
           Stop(i) == i = Len(table) \/ start(i + 1) > index
           Found(i) == Stop(i) /\ \A j \in 1..(i - 1) : start(j + 1) <= index
           c == CaughtEntry(table, index)
<1>1. /\ Len(table) \in Nat /\ DOMAIN table = 1..Len(table)
      /\ \A j \in DOMAIN table : start(j) \in BCIs
  BY TableIsAscending
<1>2. Len(table) > 0 /\ start(1) = 0
  BY <1>1 DEF Tables, WellFormed
<1>3. MaxBCI \in Nat /\ index \in Nat /\ index <= MaxBCI
  BY ConstantsAssumption DEF BCIs
<1>4. \A j \in DOMAIN table : start(j) \in Nat
  BY <1>1, <1>3 DEF BCIs
<1> HIDE DEF start
<1>5. \E i \in DOMAIN table : Found(i)
  <2> DEFINE Stops == {i \in DOMAIN table : Stop(i)}
  <2>1. Stops \in SUBSET Nat /\ Stops # {}
    <3>1. Len(table) \in Stops
      BY <1>1, <1>2
    <3>2. Stops \in SUBSET Nat
      BY <1>1
    <3>3. QED
      BY <3>1, <3>2
  <2>2. PICK n \in Stops : \A i \in Stops : n <= i
    <3> HIDE DEF Stops
    <3>1. PICK n \in Stops : \A i \in Stops : <<i, n>> \notin OpToRel(<, Nat)
      BY <2>1, NatLessThanWellFounded, WFMin
    <3>2. ASSUME NEW i \in Stops PROVE n <= i
      <4>1. i \in Nat /\ n \in Nat
        BY <2>1, <3>1
      <4>2. ~(i < n)
        BY <3>1, <4>1 DEF OpToRel
      <4>3. QED
        BY <4>1, <4>2
    <3>3. QED
      BY <3>2
  <2>3. n \in DOMAIN table /\ Stop(n) /\ n \in Nat
    BY <1>1, <2>2
  <2>4. ASSUME NEW j \in 1..(n - 1) PROVE start(j + 1) <= index
    <3>1. j \in DOMAIN table /\ j + 1 \in DOMAIN table /\ j < n
      BY <1>1, <2>3
    <3>2. j \notin Stops
      BY <2>2, <2>3, <3>1
    <3>3. ~(start(j + 1) > index)
      BY <3>1, <3>2
    <3>4. QED
      BY <1>3, <1>4, <3>1, <3>3
  <2>5. QED
    BY <2>3, <2>4
<1>6. c = CHOOSE i \in DOMAIN table : Found(i)
  BY DEF CaughtEntry, start
<1>7. c \in DOMAIN table /\ Found(c)
  <2> HIDE DEF Found, c
  <2>1. QED
    BY <1>5, <1>6
<1> HIDE DEF c
<1>8. start(c) <= index
  <2>1. CASE c = 1
    BY <1>2, <1>3, <2>1
  <2>2. CASE c # 1
    <3>1. c - 1 \in 1..(c - 1) /\ (c - 1) + 1 = c
      BY <1>1, <1>7, <2>2
    <3>2. QED
      BY <1>7, <3>1
  <2>3. QED
    BY <2>1, <2>2
<1>9. index < EntryEnd(table, c)
  <2>1. CASE c = Len(table)
    BY <1>3, <2>1 DEF EntryEnd
  <2>2. CASE c # Len(table)
    <3>1. c < Len(table) /\ c + 1 \in DOMAIN table
      BY <1>1, <1>7, <2>2
    <3>2. start(c + 1) > index
      BY <1>7, <2>2
    <3>3. QED
      BY <1>3, <1>4, <3>1, <3>2 DEF EntryEnd, start
  <2>4. QED
    BY <2>1, <2>2
<1>10. QED
  BY <1>7, <1>8, <1>9 DEF start, c

\* The experiment's line is that of the caught frame's entry.
CaughtInv ==
    /\ RangesInv /\ bci \in BCIs /\ lineno \in Lines \cup {0}
    /\ method_id # Null =>
         lineno = line_table[method_id][CaughtEntry(line_table[method_id], bci)].line_number

LEMMA LineOfEntry ==
    ASSUME NEW table \in Tables, NEW i \in DOMAIN table
    PROVE  table[i].line_number \in Lines
<1>1. PICK n \in 1..MaxEntries : table \in [1..n -> Entry]
  BY DEF Tables
<1>2. QED
  BY <1>1 DEF Entry

\* ChooseFrame sets method, index, line and ranges together.
LEMMA CaughtInvariant == Spec => []CaughtInv
<1>1. Init => CaughtInv
  BY ConstantsAssumption DEF Init, CaughtInv, RangesInv, BCIs
<1>2. CaughtInv /\ [Next]_vars => CaughtInv'
  <2> SUFFICES ASSUME CaughtInv, [Next]_vars PROVE CaughtInv'
    OBVIOUS
  <2>1. CASE UNCHANGED vars
    BY <2>1 DEF vars, CaughtInv, RangesInv
  <2>2. ASSUME NEW m \in Methods, NEW index \in BCIs, ChooseFrame(m, index)
        PROVE  CaughtInv'
    <3> DEFINE line == line_table[m][CaughtEntry(line_table[m], index)].line_number
    <3>1. /\ method_id' = m /\ bci' = index /\ lineno' = line
          /\ location_ranges' = RangesOf(line_table[m], line) /\ line_table' = line_table
      BY <2>2 DEF ChooseFrame
    <3>2. line_table[m] \in Tables /\ m # Null
      BY ConstantsAssumption DEF CaughtInv, RangesInv
    <3>3. line \in Lines
      BY <3>2, CaughtEntryHolds, LineOfEntry
    <3> HIDE DEF line
    <3>4. RangesInv'
      BY <3>1, <3>2 DEF CaughtInv, RangesInv
    <3>5. QED
      BY <3>1, <3>2, <3>3, <3>4 DEF CaughtInv, line
  <2>3. QED
    BY <2>1, <2>2 DEF Next
<1>3. QED
  BY <1>1, <1>2, PTL DEF Spec

\* An experiment charges the frame it was sampled from, for line tables of any length
\* (profiler.cc: runAgentThread's two loops over the entries).
THEOREM SampledFrameIsCharged == Spec => []CaughtFrameCharged
<1>1. CaughtInv => CaughtFrameCharged
  <2> SUFFICES ASSUME CaughtInv, method_id # Null
               PROVE  InExperiment(method_id, bci)
    BY DEF CaughtFrameCharged
  <2> DEFINE table == line_table[method_id]
             c == CaughtEntry(table, bci)
             range == <<table[c].start_location, EntryEnd(table, c)>>
  <2>1. /\ table \in Tables /\ bci \in BCIs
        /\ location_ranges = RangesOf(table, lineno) /\ lineno = table[c].line_number
    BY DEF CaughtInv, RangesInv
  <2>2. c \in DOMAIN table /\ table[c].start_location <= bci /\ bci < EntryEnd(table, c)
    BY <2>1, CaughtEntryHolds
  <2> HIDE DEF table, c
  <2>3. range \in location_ranges
    BY <2>1, <2>2 DEF RangesOf
  <2>4. range[1] <= bci /\ bci < range[2]
    BY <2>2
  <2>5. QED
    BY <2>3, <2>4 DEF InExperiment
<1>2. QED
  BY CaughtInvariant, <1>1, PTL

\* Type correctness: every range is a proper interval of bytecode indices.
THEOREM TypeCorrect == Spec => []TypeOK
<1>1. CaughtInv => TypeOK
  <2> SUFFICES ASSUME CaughtInv PROVE TypeOK
    OBVIOUS
  <2>1. ASSUME NEW range \in location_ranges
        PROVE  range[1] \in BCIs /\ range[2] \in 1..(MaxBCI + 1) /\ range[1] < range[2]
    <3> DEFINE table == line_table[method_id]
    <3>1. method_id # Null
      BY <2>1 DEF CaughtInv, RangesInv
    <3>2. table \in Tables /\ location_ranges = RangesOf(table, lineno)
      BY <3>1 DEF CaughtInv, RangesInv
    <3> HIDE DEF table
    <3>3. PICK i \in DOMAIN table : range = <<table[i].start_location, EntryEnd(table, i)>>
      BY <2>1, <3>2 DEF RangesOf
    <3>4. /\ Len(table) \in Nat /\ DOMAIN table = 1..Len(table)
          /\ \A j \in DOMAIN table : table[j].start_location \in 0..MaxBCI
          /\ \A j, k \in DOMAIN table :
                j < k => table[j].start_location < table[k].start_location
      BY <3>2, TableIsAscending DEF BCIs
    <3>5. CASE i < Len(table)
      <4>1. i + 1 \in DOMAIN table /\ i < i + 1
        BY <3>4, <3>5
      <4>2. EntryEnd(table, i) \in 0..MaxBCI /\ table[i].start_location < EntryEnd(table, i)
        BY <3>4, <3>5, <4>1 DEF EntryEnd
      <4>3. QED
        BY <3>3, <3>4, <4>2, ConstantsAssumption DEF BCIs
    <3>6. CASE ~(i < Len(table))
      BY <3>3, <3>4, <3>6, ConstantsAssumption DEF EntryEnd, BCIs
    <3>7. QED
      BY <3>5, <3>6
  <2>2. line_table \in [Methods -> Tables] /\ method_id \in Methods \cup {Null}
    BY DEF CaughtInv, RangesInv
  <2>3. QED
    BY <2>1, <2>2 DEF TypeOK, CaughtInv
<1>2. QED
  BY CaughtInvariant, <1>1, PTL

=============================================================================
