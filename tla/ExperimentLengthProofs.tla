----------------------- MODULE ExperimentLengthProofs -----------------------
(***************************************************************************)
(* Theorems about ExperimentLength, for all settings its assumption        *)
(* allows.                                                                 *)
(***************************************************************************)
EXTENDS ExperimentLength, TLAPS

\* Both facts are inductive together: the division only happens above MinTime, so
\* it reaches neither zero nor anything below MinTime \div Factor.
Bounded == TypeOK /\ LengthInRange

\* One experiment keeps the length within the bounds.
LEMMA NextLengthBounded ==
    ASSUME NEW time \in Nat \ {0}, NEW hits \in 0..MaxHits,
           MinTime \div Factor <= time, time <= MaxTime
    PROVE  /\ NextLength(time, hits) \in Nat \ {0}
           /\ MinTime \div Factor <= NextLength(time, hits)
           /\ NextLength(time, hits) <= MaxTime
<1>1. MinTime \in Nat \ {0} /\ MaxTime \in Nat /\ MinTime <= MaxTime
  BY SettingsAssumption
<1>2. hits \in Nat /\ HitsToInc \in Nat /\ HitsToDec \in Nat
  BY SettingsAssumption
<1>3. CASE Factor = 1
  <2>1. MinTime \div Factor = MinTime /\ time * Factor = time /\ time \div Factor = time
    BY <1>1, <1>3
  <2> QED
    BY <1>1, <1>2, <2>1 DEF NextLength
<1>4. CASE Factor = 2
  <2>1. MinTime \div 2 <= MinTime /\ MinTime \div 2 \in Nat
    BY <1>1
  <2>2. CASE hits <= HitsToInc
    BY <1>1, <1>2, <1>4, <2>1, <2>2 DEF NextLength
  <2>3. CASE ~(hits <= HitsToInc) /\ time > MinTime /\ hits >= HitsToDec
    <3>1. NextLength(time, hits) = time \div 2
      BY <1>4, <2>3 DEF NextLength
    <3>2. time \div 2 \in Nat \ {0} /\ MinTime \div 2 <= time \div 2 /\ time \div 2 <= time
      BY <1>1, <2>3
    <3> QED
      BY <1>1, <1>4, <3>1, <3>2
  <2>4. CASE ~(hits <= HitsToInc) /\ ~(time > MinTime /\ hits >= HitsToDec)
    <3>1. NextLength(time, hits) = time
      BY <2>4 DEF NextLength
    <3> QED
      BY <1>4, <3>1
  <2> QED
    BY <2>2, <2>3, <2>4
<1> QED
  BY <1>3, <1>4, SettingsAssumption

\* The first experiment's length is within the bounds.
LEMMA InitBounded == Init => Bounded
<1>1. MinTime \in Nat \ {0} /\ MaxTime \in Nat /\ MinTime <= MaxTime /\ MaxHits \in Nat
  BY SettingsAssumption
<1>2. MinTime \div Factor <= MinTime
  <2>1. MinTime \div 1 <= MinTime /\ MinTime \div 2 <= MinTime
    BY <1>1
  <2> QED
    BY <2>1, SettingsAssumption
<1> QED
  BY <1>1, <1>2 DEF Init, Bounded, TypeOK, LengthInRange

\* Both are kept by every experiment.
LEMMA BoundedInvariant == Spec => []Bounded
<1>1. Bounded /\ [Next]_vars => Bounded'
  <2> SUFFICES ASSUME Bounded, [Next]_vars PROVE Bounded'
    OBVIOUS
  <2>1. CASE UNCHANGED vars
    BY <2>1 DEF vars, Bounded, TypeOK, LengthInRange
  <2>2. CASE UpdateExperimentLength
    <3>1. PICK hits \in 0..MaxHits :
              /\ points_hit' = hits
              /\ experiment_time' = IF fix_exp THEN experiment_time
                                    ELSE NextLength(experiment_time, hits)
              /\ UNCHANGED fix_exp
      BY <2>2 DEF UpdateExperimentLength
    <3>2. /\ NextLength(experiment_time, hits) \in Nat \ {0}
          /\ MinTime \div Factor <= NextLength(experiment_time, hits)
          /\ NextLength(experiment_time, hits) <= MaxTime
      BY NextLengthBounded DEF Bounded, TypeOK, LengthInRange
    <3> QED
      BY <3>1, <3>2 DEF Bounded, TypeOK, LengthInRange
  <2> QED
    BY <2>1, <2>2 DEF Next
<1> QED
  BY InitBounded, <1>1, PTL DEF Spec

\* update_experiment_length never leads out of the settings' range, whatever the
\* settings are and however many hits the experiments see.
THEOREM LengthStaysInRange == Spec => []LengthInRange
<1>1. Bounded => LengthInRange
  BY DEF Bounded
<1> QED
  BY BoundedInvariant, <1>1, PTL

\* Type correctness: the length never becomes zero.
THEOREM TypeCorrect == Spec => []TypeOK
<1>1. Bounded => TypeOK
  BY DEF Bounded
<1> QED
  BY BoundedInvariant, <1>1, PTL

\* globals.h's lengths: doubling leads from MIN_EXP_TIME to MAX_EXP_TIME exactly.
DoublingLadder == MinTime = 5000 /\ MaxTime = 80000 /\ Factor = 2

Lengths == {5000, 10000, 20000, 40000, 80000}

\* With them the length goes up and down one ladder, whose lowest rung is
\* MIN_EXP_TIME, whatever the thresholds for the hits.
THEOREM LengthNeverBelowMin == DoublingLadder => (Spec => []NeverBelowMin)
<1> SUFFICES ASSUME DoublingLadder PROVE Spec => []NeverBelowMin
  OBVIOUS
<1>1. Init => experiment_time \in Lengths
  BY DEF Init, DoublingLadder, Lengths
<1>2. experiment_time \in Lengths /\ [Next]_vars => (experiment_time \in Lengths)'
  <2> SUFFICES ASSUME experiment_time \in Lengths, [Next]_vars
               PROVE  experiment_time' \in Lengths
    OBVIOUS
  <2>1. CASE UNCHANGED vars
    BY <2>1 DEF vars
  <2>2. CASE UpdateExperimentLength
    <3>1. ASSUME NEW hits PROVE NextLength(experiment_time, hits) \in Lengths
      BY DEF NextLength, DoublingLadder, Lengths
    <3> QED
      BY <2>2, <3>1 DEF UpdateExperimentLength
  <2> QED
    BY <2>1, <2>2 DEF Next
<1>3. experiment_time \in Lengths => NeverBelowMin
  BY DEF Lengths, NeverBelowMin, DoublingLadder
<1> QED
  BY <1>1, <1>2, <1>3, PTL DEF Spec

\* calculate_random_speedup: five of its 25 draws are the baseline, and each speedup
\* from 0.05 to 1.0 in steps of 0.05 has one draw of its own.
THEOREM SpeedupsAreEquallyLikely ==
    /\ \A draw \in Draws : Speedup(draw) = 0 <=> draw \in 0..4
    /\ \A twentieths \in 1..20 : \A draw \in Draws :
          Speedup(draw) = twentieths <=> draw = twentieths + 4
BY DEF Draws, Speedup

=============================================================================
