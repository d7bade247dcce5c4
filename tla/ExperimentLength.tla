-------------------------- MODULE ExperimentLength --------------------------
(***************************************************************************)
(* How long the next experiment lasts, and how its speedup is drawn        *)
(* (src/src/profiler.cc: update_experiment_length,                         *)
(* calculate_random_speedup; src/src/globals.h: the settings).  Next to    *)
(* NextLength stand three forms of it with a plausible mistake; none of    *)
(* them is used here.                                                      *)
(***************************************************************************)
EXTENDS Integers

CONSTANTS
    MinTime,     \* MIN_EXP_TIME, also the first experiment's length, in ms
    MaxTime,     \* MAX_EXP_TIME
    Factor,      \* EXP_TIME_FACTOR
    HitsToInc,   \* HITS_TO_INC_EXP_TIME
    HitsToDec,   \* HITS_TO_DEC_EXP_TIME
    MaxHits      \* bound: progress-point hits of one experiment

\* The growth test multiplies by a literal 2, the growth by Factor; with a larger
\* factor the length would pass MaxTime.
ASSUME SettingsAssumption ==
    /\ MinTime \in Nat \ {0} /\ MaxTime \in Nat /\ MinTime <= MaxTime
    /\ Factor \in {1, 2}
    /\ HitsToInc \in Nat /\ HitsToDec \in Nat /\ HitsToInc < HitsToDec
    /\ MaxHits \in Nat

VARIABLES
    experiment_time,  \* Profiler::experiment_time
    points_hit,       \* current_experiment.points_hit of the last experiment
    fix_exp           \* Profiler::fix_exp, the fix-exp option

vars == <<experiment_time, points_hit, fix_exp>>

Init == experiment_time = MinTime /\ points_hit = 0 /\ fix_exp \in BOOLEAN

\* The length after an experiment of length time with hits points hit.
LengthUncapped(time, hits) ==
    IF hits <= HitsToInc THEN time * Factor
    ELSE IF time > MinTime /\ hits >= HitsToDec THEN time \div Factor
    ELSE time

LengthWithoutFloor(time, hits) ==
    IF hits <= HitsToInc
      THEN IF time * 2 > MaxTime THEN MaxTime ELSE time * Factor
    ELSE IF hits >= HitsToDec THEN time \div Factor
    ELSE time

LengthStopsShort(time, hits) ==
    IF hits <= HitsToInc
      THEN IF time * 2 >= MaxTime THEN time ELSE time * Factor
    ELSE IF time > MinTime /\ hits >= HitsToDec THEN time \div Factor
    ELSE time

NextLength(time, hits) ==
    IF hits <= HitsToInc
      THEN IF time * 2 > MaxTime THEN MaxTime ELSE time * Factor
    ELSE IF time > MinTime /\ hits >= HitsToDec THEN time \div Factor
    ELSE time

\* An experiment ends with some number of hits, and update_experiment_length runs.
UpdateExperimentLength ==
    \E hits \in 0..MaxHits :
        /\ points_hit' = hits
        /\ experiment_time' = IF fix_exp THEN experiment_time
                              ELSE NextLength(experiment_time, hits)
        /\ UNCHANGED fix_exp

Next == UpdateExperimentLength

Spec == Init /\ [][Next]_vars

\* The agent runs one experiment after the other.
FairSpec == Spec /\ WF_vars(Next)

-----------------------------------------------------------------------------
(* The speedup drawn, in twentieths: rand() % 25 picks draw. *)

Draws == 0..24
Speedup(draw) == IF draw < 5 THEN 0 ELSE draw - 4

-----------------------------------------------------------------------------
(* Properties *)

TypeOK ==
    /\ experiment_time \in Nat \ {0} /\ experiment_time <= MaxTime
    /\ points_hit \in 0..MaxHits
    /\ fix_exp \in BOOLEAN

\* With any settings the length stays below MaxTime and never falls below MinTime by
\* more than the one division that still starts above it.
LengthInRange == MinTime \div Factor <= experiment_time /\ experiment_time <= MaxTime

\* With settings where multiplying leads from MinTime to MaxTime exactly, as the
\* code's do, growing and shrinking visit the same lengths, none below MinTime.
NeverBelowMin == experiment_time >= MinTime

\* If from some time on experiments see too few hits, that is fewer than the threshold
\* (README.md:132), their length grows up to MaxTime and stays there, unless it is fixed.
GrowsToMax ==
    (~fix_exp /\ <>[](points_hit < HitsToInc)) => <>[](experiment_time = MaxTime)

\* globals.h:54: "Points hit below this value will increase experiment time".
OnlyBelowIncreases == [][experiment_time' > experiment_time => points_hit' < HitsToInc]_vars

=============================================================================
