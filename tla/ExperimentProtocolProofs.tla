---------------------- MODULE ExperimentProtocolProofs ----------------------
(***************************************************************************)
(* Proofs about ExperimentProtocol, for any set of threads, delays, check  *)
(* period and bounds: types, who may be ahead of global_delay, that all of *)
(* global_delay was charged to somebody, but for what an interrupted       *)
(* removeUserThread pushes again, that nobody sleeps for its own charges,  *)
(* how often a hit is counted, and that a baseline experiment has no delay *)
(* if handlers are prompt and threads stay.                                *)
(*                                                                         *)
(* None of these is inductive by itself.  Between the handler's test of    *)
(* the difference and the sleep or the push it computed, other threads     *)
(* raise global_delay; what survives is local_delay + sleep_diff <=        *)
(* global_delay (DifferenceKept), because only the agent's reset lowers    *)
(* global_delay and the reset makes every thread caught in between stale.  *)
(* Threads that tested but did not push yet have been charged what is not  *)
(* in global_delay; the sum is kept of what each was charged less what it  *)
(* owes (LedgerBalanced), which every push leaves at least as large        *)
(* against global_delay as it was.                                         *)
(*                                                                         *)
(* Sums run over the set of threads by the recursive function behind       *)
(* SumFunctionOnSet.  Where one expects an induction over that set there   *)
(* is a smallest counterexample: MinimalSubset.                            *)
(***************************************************************************)
EXTENDS ExperimentProtocol, FiniteSetTheorems, WellFoundedInduction, TLAPS

\* A difference kept for a sleep is positive, one kept for a push is not; what
\* removeUserThread has of it when it read global_delay only is that total.
Signs ==
    \A t \in Threads :
        /\ handler_pc[t] = "sleep" => sleep_diff[t] > 0
        /\ handler_pc[t] = "push" => sleep_diff[t] <= 0
        /\ thread_pc[t] = "exitDiff" => sleep_time[t] >= 0
        /\ thread_pc[t] = "exitPush" => sleep_time[t] <= 0

\* The counter is at the check period only while the check is made.
CountBelowPeriod ==
    \A t \in Threads :
        handler_pc[t] \notin {"check", "sleep", "push"} => num_signals_received[t] < CheckPeriod

Base == TypeOK /\ Signs /\ CountBelowPeriod

\* A difference computed earlier has not been overtaken.
DifferenceKept ==
    \A t \in Threads \ stale :
        handler_pc[t] \in {"sleep", "push"} => local_delay[t] + sleep_diff[t] <= global_delay

\* Half of the difference read, the other half will not make it more than what the
\* thread was charged: the strengthening of PushIsCovered at exitDiff.
HalfReadIsCovered ==
    \A t \in Threads \ (stale \cup interrupted) :
        thread_pc[t] = "exitDiff" =>
            /\ local_delay[t] - sleep_time[t] <= unsettled[t]
            /\ sleep_time[t] <= global_delay

Settlement == AheadOnlyByUnsettled /\ PushIsCovered /\ DifferenceKept /\ HalfReadIsCovered

-----------------------------------------------------------------------------
(* Sums over finite sets *)

\* Among subsets of a finite set there is a smallest one: the least counterexample
\* that stands in for an induction below.
LEMMA MinimalSubset ==
    ASSUME NEW T, IsFiniteSet(T), NEW B, B \subseteq SUBSET T, B # {}
    PROVE  \E S \in B : \A R \in B : R \subseteq S => R = S
<1>1. B \subseteq FiniteSubsetsOf(T)
  BY FS_Subset DEF FiniteSubsetsOf
<1>2. PICK S \in B : \A R \in B : <<R, S>> \notin StrictSubsetOrdering(T)
  BY <1>1, FS_StrictSubsetOrderingWellFounded, WFMin
<1>3. QED
  BY <1>1, <1>2 DEF StrictSubsetOrdering, FiniteSubsetsOf

\* The recursive function behind SumFunctionOnSet of the community modules.
IsSum(h, f, T) ==
    h = [s \in SUBSET T |-> IF s = {} THEN 0
                            ELSE f[CHOOSE x \in s : TRUE] + h[s \ {CHOOSE x \in s : TRUE}]]

\* SumFunctionOnSet applies that function to the whole set.
LEMMA SumIsChosen ==
    ASSUME NEW f, NEW T
    PROVE  SumFunctionOnSet(f, T) = (CHOOSE h : IsSum(h, f, T))[T]
BY DEF SumFunctionOnSet, FoldFunctionOnSet, MapThenFoldSet, IsSum

\* There is at most one such function ...
LEMMA SumUnique ==
    ASSUME NEW f, NEW T, IsFiniteSet(T), NEW h, NEW k, IsSum(h, f, T), IsSum(k, f, T)
    PROVE  h = k
<1> DEFINE B == {s \in SUBSET T : h[s] # k[s]}
<1>1. ASSUME B # {} PROVE FALSE
  <2>0. B \subseteq SUBSET T
    OBVIOUS
  <2> HIDE DEF B
  <2>1. PICK s \in B : \A r \in B : r \subseteq s => r = s
    BY <1>1, <2>0, MinimalSubset
  <2> USE DEF B
  <2>2. s # {}
    BY <2>1 DEF IsSum
  <2> DEFINE x == CHOOSE y \in s : TRUE
  <2>3. x \in s
    BY <2>2
  <2>4. h[s \ {x}] = k[s \ {x}]
    BY <2>1, <2>3
  <2>5. h[s] = f[x] + h[s \ {x}] /\ k[s] = f[x] + k[s \ {x}]
    BY <2>1, <2>2 DEF IsSum
  <2>6. QED
    BY <2>1, <2>4, <2>5
<1>2. \A s \in SUBSET T : h[s] = k[s]
  BY <1>1
<1>3. QED
  BY <1>2 DEF IsSum

\* ... it gives the sums over the subsets too ...
LEMMA SumEquationFrom ==
    ASSUME NEW f, NEW T, IsFiniteSet(T), NEW h, IsSum(h, f, T), NEW S \in SUBSET T
    PROVE  SumFunctionOnSet(f, S) = h[S]
<1> DEFINE k == [s \in SUBSET S |-> h[s]]
<1>1. IsSum(k, f, S)
  <2>1. \A s \in SUBSET S : s # {} => s \ {CHOOSE x \in s : TRUE} \in SUBSET S
    OBVIOUS
  <2>2. QED
    BY <2>1 DEF IsSum
<1>2. IsSum(CHOOSE g : IsSum(g, f, S), f, S)
  BY <1>1
<1>3. k = CHOOSE g : IsSum(g, f, S)
  BY <1>1, <1>2, FS_Subset, SumUnique
<1>4. QED
  BY <1>3, SumIsChosen

\* ... and there is one: the least set without one would have one.
LEMMA SumExists ==
    ASSUME NEW f, NEW T, IsFiniteSet(T)
    PROVE  \E h : IsSum(h, f, T)
<1> DEFINE B == {s \in SUBSET T : ~ \E h : IsSum(h, f, s)}
<1>1. ASSUME B # {} PROVE FALSE
  <2>0. B \subseteq SUBSET T
    OBVIOUS
  <2> HIDE DEF B
  <2>1. PICK U \in B : \A r \in B : r \subseteq U => r = U
    BY <1>1, <2>0, MinimalSubset
  <2> USE DEF B
  <2>2. \A r \in SUBSET U : r # U => \E h : IsSum(h, f, r)
    BY <2>1
  <2> DEFINE Rest(s) == s \ {CHOOSE x \in s : TRUE}
  <2> DEFINE g == [s \in SUBSET U |-> IF s = {} THEN 0
                       ELSE f[CHOOSE x \in s : TRUE] + SumFunctionOnSet(f, Rest(s))]
  <2>3. ASSUME NEW r \in SUBSET U, r # U PROVE g[r] = SumFunctionOnSet(f, r)
    <3>1. PICK h : IsSum(h, f, r)
      BY <2>2, <2>3
    <3>2. IsFiniteSet(r)
      BY FS_Subset
    <3>3. SumFunctionOnSet(f, r) = h[r]
      BY <3>1, <3>2, SumEquationFrom
    <3>4. CASE r = {}
      BY <3>1, <3>3, <3>4 DEF IsSum
    <3>5. CASE r # {}
      <4>1. Rest(r) \in SUBSET r
        OBVIOUS
      <4>2. SumFunctionOnSet(f, Rest(r)) = h[Rest(r)]
        BY <3>1, <3>2, <4>1, SumEquationFrom
      <4>3. h[r] = f[CHOOSE x \in r : TRUE] + h[Rest(r)]
        BY <3>1, <3>5 DEF IsSum
      <4>4. QED
        BY <3>3, <3>5, <4>2, <4>3
    <3>6. QED
      BY <3>4, <3>5
  <2>4. \A s \in SUBSET U : s # {} => Rest(s) \in SUBSET U /\ Rest(s) # U
    OBVIOUS
  <2>5. IsSum(g, f, U)
    <3>1. \A s \in SUBSET U : s # {} => g[Rest(s)] = SumFunctionOnSet(f, Rest(s))
      BY <2>3, <2>4
    <3> DEFINE term(s) == IF s = {} THEN 0 ELSE f[CHOOSE x \in s : TRUE] + g[Rest(s)]
    <3>2. ASSUME NEW s \in SUBSET U PROVE g[s] = term(s)
      <4>1. s = {} => g[s] = 0
        OBVIOUS
      <4>2. s # {} => g[s] = f[CHOOSE x \in s : TRUE] + SumFunctionOnSet(f, Rest(s))
        OBVIOUS
      <4> HIDE DEF g, Rest
      <4>3. QED
        BY <3>1, <4>1, <4>2
    <3>3. g = [s \in SUBSET U |-> g[s]]
      OBVIOUS
    <3> HIDE DEF g
    <3>4. g = [s \in SUBSET U |-> term(s)]
      BY <3>2, <3>3
    <3>5. QED
      BY <3>4 DEF IsSum
  <2>6. QED
    BY <2>1, <2>5
<1>2. QED
  BY <1>1

\* The sum, one element at a time in the order the definition chooses.
LEMMA SumRec ==
    ASSUME NEW f, NEW S, IsFiniteSet(S)
    PROVE  /\ SumFunctionOnSet(f, {}) = 0
           /\ S # {} => \E x \in S : SumFunctionOnSet(f, S) = f[x] + SumFunctionOnSet(f, S \ {x})
<1>1. PICK h : IsSum(h, f, S)
  BY SumExists
<1>2. \A s \in SUBSET S : SumFunctionOnSet(f, s) = h[s]
  BY <1>1, SumEquationFrom
<1>3. h[{}] = 0
  BY <1>1 DEF IsSum
<1>4. S # {} => h[S] = f[CHOOSE x \in S : TRUE] + h[S \ {CHOOSE x \in S : TRUE}]
  BY <1>1 DEF IsSum
<1>5. QED
  BY <1>2, <1>3, <1>4

\* What a sum over a finite set is, whatever the order: every element counts once.
LEMMA SumSplit ==
    ASSUME NEW T, IsFiniteSet(T), NEW f \in [T -> Int], NEW S \in SUBSET T
    PROVE  /\ SumFunctionOnSet(f, S) \in Int
           /\ \A x \in S : SumFunctionOnSet(f, S) = f[x] + SumFunctionOnSet(f, S \ {x})
<1> DEFINE Sum(s) == SumFunctionOnSet(f, s)
<1> DEFINE Good(s) == Sum(s) \in Int /\ \A x \in s : Sum(s) = f[x] + Sum(s \ {x})
<1> DEFINE B == {s \in SUBSET T : ~ Good(s)}
<1>1. ASSUME B # {} PROVE FALSE
  <2>1. B \subseteq SUBSET T
    OBVIOUS
  <2> HIDE DEF B
  <2>2. PICK s \in B : \A r \in B : r \subseteq s => r = s
    BY <1>1, <2>1, MinimalSubset
  <2> USE DEF B
  <2>3. \A r \in SUBSET s : r # s => Good(r)
    BY <2>2
  <2>4. IsFiniteSet(s) /\ s \in SUBSET T /\ ~ Good(s)
    BY FS_Subset
  <2> HIDE DEF B
  <2>5. s # {}
    BY <2>4, SumRec
  <2>6. PICK y \in s : Sum(s) = f[y] + Sum(s \ {y})
    BY <2>4, <2>5, SumRec
  <2>7. ASSUME NEW x \in s PROVE Sum(s) = f[x] + Sum(s \ {x})
    <3>1. CASE x = y
      BY <2>6, <3>1
    <3>2. CASE x # y
      <4>1. Good(s \ {y}) /\ Good(s \ {x})
        BY <2>3
      <4>2. Good((s \ {y}) \ {x})
        BY <2>3
      <4>3. Sum(s \ {y}) = f[x] + Sum((s \ {y}) \ {x})
        BY <3>2, <4>1
      <4>4. Sum(s \ {x}) = f[y] + Sum((s \ {x}) \ {y})
        BY <3>2, <4>1
      <4>5. (s \ {x}) \ {y} = (s \ {y}) \ {x}
        OBVIOUS
      <4>6. f[x] \in Int /\ f[y] \in Int /\ Sum((s \ {y}) \ {x}) \in Int
        BY <2>4, <4>2
      <4>7. Sum((s \ {x}) \ {y}) = Sum((s \ {y}) \ {x})
        BY <4>5
      <4> HIDE DEF Sum, Good
      <4>8. QED
        BY <2>6, <4>3, <4>4, <4>6, <4>7
    <3>3. QED
      BY <3>1, <3>2
  <2>8. Sum(s) \in Int
    <3>1. Sum(s \ {y}) \in Int /\ f[y] \in Int
      BY <2>3, <2>4
    <3>2. QED
      BY <2>6, <3>1
  <2>9. QED
    BY <2>4, <2>7, <2>8
<1>2. Good(S)
  BY <1>1
<1>3. QED
  BY <1>2

\* A sum grows with its terms.
LEMMA SumMonotone ==
    ASSUME NEW T, IsFiniteSet(T), NEW f \in [T -> Int], NEW g \in [T -> Int],
           NEW S \in SUBSET T, \A x \in S : f[x] <= g[x]
    PROVE  SumFunctionOnSet(f, S) <= SumFunctionOnSet(g, S)
<1> DEFINE B == {s \in SUBSET S : ~ (SumFunctionOnSet(f, s) <= SumFunctionOnSet(g, s))}
<1>1. ASSUME B # {} PROVE FALSE
  <2>1. B \subseteq SUBSET T
    OBVIOUS
  <2> HIDE DEF B
  <2>2. PICK s \in B : \A r \in B : r \subseteq s => r = s
    BY <1>1, <2>1, MinimalSubset
  <2> USE DEF B
  <2>3. s \in SUBSET S /\ ~ (SumFunctionOnSet(f, s) <= SumFunctionOnSet(g, s))
    OBVIOUS
  <2>4. s # {}
    BY <2>3, SumRec, FS_EmptySet
  <2>5. PICK x \in s : TRUE
    BY <2>4
  <2>6. SumFunctionOnSet(f, s \ {x}) <= SumFunctionOnSet(g, s \ {x})
    BY <2>2
  <2>7. f[x] <= g[x] /\ f[x] \in Int /\ g[x] \in Int
    BY <2>3
  <2>8. s \in SUBSET T /\ s \ {x} \in SUBSET T
    BY <2>3
  <2> HIDE DEF B
  <2>9. /\ SumFunctionOnSet(f, s) = f[x] + SumFunctionOnSet(f, s \ {x})
        /\ SumFunctionOnSet(g, s) = g[x] + SumFunctionOnSet(g, s \ {x})
    BY <2>8, SumSplit
  <2>10. SumFunctionOnSet(f, s \ {x}) \in Int /\ SumFunctionOnSet(g, s \ {x}) \in Int
    BY <2>8, SumSplit
  <2>11. QED
    BY <2>3, <2>6, <2>7, <2>9, <2>10
<1>2. QED
  BY <1>1

\* One term changes, the others do not fall: the sum rises by what that term does.
LEMMA SumStep ==
    ASSUME NEW T, IsFiniteSet(T), NEW f \in [T -> Int], NEW g \in [T -> Int], NEW t \in T,
           \A u \in T \ {t} : f[u] <= g[u]
    PROVE  SumFunctionOnSet(f, T) + (g[t] - f[t]) <= SumFunctionOnSet(g, T)
<1>1. SumFunctionOnSet(f, T) = f[t] + SumFunctionOnSet(f, T \ {t})
  BY SumSplit
<1>2. SumFunctionOnSet(g, T) = g[t] + SumFunctionOnSet(g, T \ {t})
  BY SumSplit
<1>3. SumFunctionOnSet(f, T \ {t}) <= SumFunctionOnSet(g, T \ {t})
  BY SumMonotone
<1>4. SumFunctionOnSet(f, T \ {t}) \in Int /\ SumFunctionOnSet(g, T \ {t}) \in Int
  BY SumSplit
<1>5. QED
  BY <1>1, <1>2, <1>3, <1>4

\* A sum of zeros is zero.
LEMMA SumZero ==
    ASSUME NEW T, IsFiniteSet(T)
    PROVE  SumFunctionOnSet([t \in T |-> 0], T) = 0
<1> DEFINE z == [t \in T |-> 0]
<1> DEFINE B == {s \in SUBSET T : SumFunctionOnSet(z, s) # 0}
<1>1. ASSUME B # {} PROVE FALSE
  <2>1. B \subseteq SUBSET T
    OBVIOUS
  <2> HIDE DEF B
  <2>2. PICK s \in B : \A r \in B : r \subseteq s => r = s
    BY <1>1, <2>1, MinimalSubset
  <2> USE DEF B
  <2>3. s \in SUBSET T /\ SumFunctionOnSet(z, s) # 0
    OBVIOUS
  <2>4. s # {}
    BY <2>3, SumRec, FS_EmptySet
  <2>5. PICK x \in s : TRUE
    BY <2>4
  <2>6. SumFunctionOnSet(z, s \ {x}) = 0
    BY <2>2
  <2>7. z[x] = 0 /\ z \in [T -> Int]
    BY <2>3
  <2> HIDE DEF B, z
  <2>8. SumFunctionOnSet(z, s) = z[x] + SumFunctionOnSet(z, s \ {x})
    BY <2>3, <2>7, SumSplit
  <2>9. QED
    BY <2>3, <2>6, <2>7, <2>8
<1>2. QED
  BY <1>1

\* The sum of differences is the difference of the sums.
LEMMA SumMinus ==
    ASSUME NEW T, IsFiniteSet(T), NEW f \in [T -> Int], NEW g \in [T -> Int], NEW h \in [T -> Int],
           \A x \in T : h[x] = f[x] - g[x]
    PROVE  SumFunctionOnSet(h, T) = SumFunctionOnSet(f, T) - SumFunctionOnSet(g, T)
<1> DEFINE Equal(s) == SumFunctionOnSet(h, s) = SumFunctionOnSet(f, s) - SumFunctionOnSet(g, s)
<1> DEFINE B == {s \in SUBSET T : ~ Equal(s)}
<1>1. ASSUME B # {} PROVE FALSE
  <2>1. B \subseteq SUBSET T
    OBVIOUS
  <2> HIDE DEF B
  <2>2. PICK s \in B : \A r \in B : r \subseteq s => r = s
    BY <1>1, <2>1, MinimalSubset
  <2> USE DEF B
  <2>3. s \in SUBSET T /\ ~ Equal(s)
    OBVIOUS
  <2> HIDE DEF B
  <2>4. s # {}
    <3>1. /\ SumFunctionOnSet(f, {}) = 0 /\ SumFunctionOnSet(g, {}) = 0
          /\ SumFunctionOnSet(h, {}) = 0
      BY SumRec, FS_EmptySet
    <3>2. QED
      BY <2>3, <3>1
  <2>5. PICK x \in s : TRUE
    BY <2>4
  <2>6. Equal(s \ {x})
    BY <2>2, <2>5 DEF B
  <2>7. f[x] \in Int /\ g[x] \in Int /\ h[x] = f[x] - g[x] /\ s \ {x} \in SUBSET T
    BY <2>3
  <2>8. /\ SumFunctionOnSet(f, s) = f[x] + SumFunctionOnSet(f, s \ {x})
        /\ SumFunctionOnSet(g, s) = g[x] + SumFunctionOnSet(g, s \ {x})
        /\ SumFunctionOnSet(h, s) = h[x] + SumFunctionOnSet(h, s \ {x})
    BY <2>3, SumSplit
  <2>9. /\ SumFunctionOnSet(f, s \ {x}) \in Int /\ SumFunctionOnSet(g, s \ {x}) \in Int
        /\ SumFunctionOnSet(h, s \ {x}) \in Int
    BY <2>7, SumSplit
  <2>10. QED
    BY <2>3, <2>6, <2>7, <2>8, <2>9
<1>2. QED
  BY <1>1

-----------------------------------------------------------------------------
(* Types and settlements *)

\* What jcoz_sleep returns is never negative.
LEMMA SleepIsNat ==
    ASSUME NEW ns \in Nat, NEW slept \in SleepReturns(ns)
    PROVE  slept \in Nat
<1>1. Oversleep \subseteq Nat
  BY ConstantsAssumption
<1>2. CASE ns < NanosleepLimit
  <2>1. slept \in {ns + e : e \in Oversleep}
    BY <1>2 DEF SleepReturns
  <2>2. PICK e \in Oversleep : slept = ns + e
    BY <2>1
  <2>3. QED
    BY <1>1, <2>2
<1>3. CASE ~(ns < NanosleepLimit)
  BY <1>1, <1>3 DEF SleepReturns
<1>4. QED
  BY <1>2, <1>3

\* Types, signs of the differences and the signal counter are inductive together.
LEMMA BaseStep ==
    ASSUME Base, [Next]_vars
    PROVE  Base'
<1> USE ConstantsAssumption DEF Base, TypeOK, Signs, CountBelowPeriod, Fields, AgentPCs, ThreadPCs, HandlerPCs, StopPCs,
                vars, agentVars, signalVars, delayVars, hitVars, delayGhost, hitGhost
<1>1. CASE AgentLoop
  BY <1>1 DEF AgentLoop, AgentGoto
<1>2. CASE SampleRound
  BY <1>2 DEF SampleRound, SignalUserThreads
<1>3. CASE NoFrameInScope
  BY <1>3 DEF NoFrameInScope, AgentGoto
<1>4. CASE BeginExperiment
  BY <1>4 DEF BeginExperiment, AgentGoto
<1>5. CASE ZeroHits
  BY <1>5 DEF ZeroHits, AgentGoto
<1>6. CASE ChooseSpeedup
  BY <1>6 DEF ChooseSpeedup, AgentGoto
<1>7. CASE EnterRound
  BY <1>7 DEF EnterRound, AgentGoto
<1>8. CASE SignalRound
  BY <1>8 DEF SignalRound, AgentGoto, SignalUserThreads
<1>9. CASE EndExperiment
  BY <1>9 DEF EndExperiment, AgentGoto
<1>10. CASE EndSignal
  BY <1>10 DEF EndSignal, AgentGoto, SignalUserThreads
<1>11. CASE AbandonExperiment
  BY <1>11 DEF AbandonExperiment, AgentGoto
<1>12. CASE ReadDelay
  BY <1>12 DEF ReadDelay, AgentGoto
<1>13. CASE ReadHits
  BY <1>13 DEF ReadHits, AgentGoto
<1>14. CASE ResetHits
  BY <1>14 DEF ResetHits, AgentGoto
<1>15. CASE ResetDelay
  BY <1>15 DEF ResetDelay, AgentGoto, Zero
<1>16. CASE Record
  BY <1>16 DEF Record, AgentGoto
<1>17. CASE DropBadSample
  BY <1>17 DEF DropBadSample, AgentGoto
<1>18. ASSUME NEW t \in Threads, Deliver(t) PROVE Base'
  BY <1>18 DEF Deliver, HandlerGoto, TakeSignal
<1>19. ASSUME NEW t \in Threads, IgnoreSignal(t) PROVE Base'
  BY <1>19 DEF IgnoreSignal, TakeSignal
<1>20. ASSUME NEW t \in Threads, SampleBranch(t) PROVE Base'
  BY <1>20 DEF SampleBranch, Forget, Leaves, HandlerGoto
<1>21. ASSUME NEW t \in Threads, CountSignal(t) PROVE Base'
  BY <1>21 DEF CountSignal, HandlerGoto, Charges, Sample
<1>22. ASSUME NEW t \in Threads, CheckDelay(t) PROVE Base'
  BY <1>22 DEF CheckDelay, HandlerGoto, Lag
<1>23. ASSUME NEW t \in Threads, SettleSleep(t) PROVE Base'
  <2>1. handler_pc[t] = "sleep" /\ sleep_diff[t] \in Nat
    BY <1>23 DEF SettleSleep, HandlerGoto
  <2>2. PICK slept \in SleepReturns(sleep_diff[t]) :
            LET extra == IF slept > sleep_diff[t] THEN slept - sleep_diff[t] ELSE 0 IN
            /\ local_delay' = [local_delay EXCEPT ![t] = @ + slept]
            /\ unsettled' = [unsettled EXCEPT ![t] = extra]
            /\ Sample(t, extra)
    BY <1>23 DEF SettleSleep
  <2>3. slept \in Nat
    BY <2>1, <2>2, SleepIsNat
  <2>4. QED
    BY <1>23, <2>1, <2>2, <2>3 DEF SettleSleep, HandlerGoto, Sample, Interrupt, Leaves
<1>24. ASSUME NEW t \in Threads, SettlePush(t) PROVE Base'
  BY <1>24 DEF SettlePush, HandlerGoto, Surplus, Leak, Interrupt, Leaves
<1>25. ASSUME NEW t \in Threads, Flush(t) PROVE Base'
  BY <1>25 DEF Flush, HandlerGoto
<1>26. ASSUME NEW t \in Threads, ThreadStart(t) PROVE Base'
  BY <1>26 DEF ThreadStart, ThreadGoto
<1>27. ASSUME NEW t \in Threads, Register(t) PROVE Base'
  BY <1>27 DEF Register, ThreadGoto
<1>28. ASSUME NEW t \in Threads, HitProgressPoint(t) PROVE Base'
  BY <1>28 DEF HitProgressPoint, ThreadGoto
<1>29. ASSUME NEW t \in Threads, AddHit(t) PROVE Base'
  BY <1>29 DEF AddHit, ThreadGoto
<1>41. ASSUME NEW t \in Threads, ExitLoad(t) PROVE Base'
  BY <1>41 DEF ExitLoad, ThreadGoto
<1>30. ASSUME NEW t \in Threads, ExitFlush(t) PROVE Base'
  BY <1>30 DEF ExitFlush, ThreadGoto
<1>31. ASSUME NEW t \in Threads, ExitClear(t) PROVE Base'
  BY <1>31 DEF ExitClear, ThreadGoto
<1>32. ASSUME NEW t \in Threads, ExitReadGlobal(t) PROVE Base'
  BY <1>32 DEF ExitReadGlobal, ThreadGoto
<1>42. ASSUME NEW t \in Threads, ExitDiff(t) PROVE Base'
  BY <1>42 DEF ExitDiff, ThreadGoto
<1>33. ASSUME NEW t \in Threads, ExitSleep(t) PROVE Base'
  BY <1>33 DEF ExitSleep, ThreadGoto
<1>34. ASSUME NEW t \in Threads, ExitPush(t) PROVE Base'
  BY <1>34 DEF ExitPush, ThreadGoto, Surplus, Leak
<1>35. ASSUME NEW t \in Threads, ExitErase(t) PROVE Base'
  BY <1>35 DEF ExitErase, ThreadGoto
<1>36. CASE StopHit
  BY <1>36 DEF StopHit, StopGoto
<1>37. CASE StopRunning
  BY <1>37 DEF StopRunning, StopGoto
<1>38. CASE Stopped
  BY <1>38 DEF Stopped, StopGoto
<1>39. CASE UNCHANGED vars
  BY <1>39
<1>40. QED
  BY <1>1, <1>2, <1>3, <1>4, <1>5, <1>6, <1>7, <1>8, <1>9, <1>10, <1>11, <1>12,
     <1>13, <1>14, <1>15, <1>16, <1>17, <1>18, <1>19, <1>20, <1>21, <1>22, <1>23,
     <1>24, <1>25, <1>26, <1>27, <1>28, <1>29, <1>30, <1>31, <1>32, <1>33, <1>34,
     <1>35, <1>36, <1>37, <1>38, <1>39, <1>41, <1>42
  DEF Next, AgentNext, LeaveSampling, Stop, Handler, ThreadCode

\* Settling keeps every thread that is not stale within its unsettled charge.
LEMMA SettlementStep ==
    ASSUME Base, Settlement, [Next]_vars
    PROVE  Settlement'
<1> USE ConstantsAssumption DEF TypeOK, Signs, Fields, Settlement, AheadOnlyByUnsettled, PushIsCovered, DifferenceKept, HalfReadIsCovered, Base,
                vars, agentVars, signalVars, delayVars, hitVars, delayGhost, hitGhost
<1>1. CASE AgentLoop
  BY <1>1 DEF AgentLoop, AgentGoto
<1>2. CASE SampleRound
  BY <1>2 DEF SampleRound
<1>3. CASE NoFrameInScope
  BY <1>3 DEF NoFrameInScope, AgentGoto
<1>4. CASE BeginExperiment
  BY <1>4 DEF BeginExperiment, AgentGoto
<1>5. CASE ZeroHits
  BY <1>5 DEF ZeroHits, AgentGoto
<1>6. CASE ChooseSpeedup
  BY <1>6 DEF ChooseSpeedup, AgentGoto
<1>7. CASE EnterRound
  BY <1>7 DEF EnterRound, AgentGoto
<1>8. CASE SignalRound
  BY <1>8 DEF SignalRound, AgentGoto
<1>9. CASE EndExperiment
  BY <1>9 DEF EndExperiment, AgentGoto
<1>10. CASE EndSignal
  BY <1>10 DEF EndSignal, AgentGoto
<1>11. CASE AbandonExperiment
  BY <1>11 DEF AbandonExperiment, AgentGoto
<1>12. CASE ReadDelay
  BY <1>12 DEF ReadDelay, AgentGoto
<1>13. CASE ReadHits
  BY <1>13 DEF ReadHits, AgentGoto
<1>14. CASE ResetHits
  BY <1>14 DEF ResetHits, AgentGoto
<1>15. CASE ResetDelay
  BY <1>15 DEF ResetDelay, AgentGoto, Zero, CarriesCharge, Leaves
<1>16. CASE Record
  BY <1>16 DEF Record, AgentGoto
<1>17. CASE DropBadSample
  BY <1>17 DEF DropBadSample, AgentGoto
<1>18. ASSUME NEW t \in Threads, Deliver(t) PROVE Settlement'
  BY <1>18 DEF Deliver, HandlerGoto
<1>19. ASSUME NEW t \in Threads, IgnoreSignal(t) PROVE Settlement'
  BY <1>19 DEF IgnoreSignal
<1>20. ASSUME NEW t \in Threads, SampleBranch(t) PROVE Settlement'
  BY <1>20 DEF SampleBranch, Forget, Leaves, HandlerGoto
<1>21. ASSUME NEW t \in Threads, CountSignal(t) PROVE Settlement'
  BY <1>21 DEF CountSignal, HandlerGoto, Charges, Sample
<1>22. ASSUME NEW t \in Threads, CheckDelay(t) PROVE Settlement'
  BY <1>22 DEF CheckDelay, HandlerGoto, Lag
<1>23. ASSUME NEW t \in Threads, SettleSleep(t) PROVE Settlement'
  <2>1. handler_pc[t] = "sleep" /\ sleep_diff[t] \in Nat
    BY <1>23 DEF SettleSleep, HandlerGoto
  <2>2. PICK slept \in SleepReturns(sleep_diff[t]) :
            LET extra == IF slept > sleep_diff[t] THEN slept - sleep_diff[t] ELSE 0 IN
            /\ local_delay' = [local_delay EXCEPT ![t] = @ + slept]
            /\ unsettled' = [unsettled EXCEPT ![t] = extra]
            /\ Sample(t, extra)
    BY <1>23 DEF SettleSleep
  <2>3. slept \in Nat
    BY <2>1, <2>2, SleepIsNat
  <2>4. QED
    BY <1>23, <2>1, <2>2, <2>3 DEF SettleSleep, HandlerGoto, Sample, Interrupt, Leaves
<1>24. ASSUME NEW t \in Threads, SettlePush(t) PROVE Settlement'
  BY <1>24 DEF SettlePush, HandlerGoto, Surplus, Leak, Interrupt, Leaves
<1>25. ASSUME NEW t \in Threads, Flush(t) PROVE Settlement'
  BY <1>25 DEF Flush, HandlerGoto
<1>26. ASSUME NEW t \in Threads, ThreadStart(t) PROVE Settlement'
  BY <1>26 DEF ThreadStart, ThreadGoto
<1>27. ASSUME NEW t \in Threads, Register(t) PROVE Settlement'
  BY <1>27 DEF Register, ThreadGoto
<1>28. ASSUME NEW t \in Threads, HitProgressPoint(t) PROVE Settlement'
  BY <1>28 DEF HitProgressPoint, ThreadGoto
<1>29. ASSUME NEW t \in Threads, AddHit(t) PROVE Settlement'
  BY <1>29 DEF AddHit, ThreadGoto
<1>41. ASSUME NEW t \in Threads, ExitLoad(t) PROVE Settlement'
  BY <1>41 DEF ExitLoad, ThreadGoto
<1>30. ASSUME NEW t \in Threads, ExitFlush(t) PROVE Settlement'
  BY <1>30 DEF ExitFlush, ThreadGoto
<1>31. ASSUME NEW t \in Threads, ExitClear(t) PROVE Settlement'
  BY <1>31 DEF ExitClear, ThreadGoto
<1>32. ASSUME NEW t \in Threads, ExitReadGlobal(t) PROVE Settlement'
  BY <1>32 DEF ExitReadGlobal, ThreadGoto
<1>42. ASSUME NEW t \in Threads, ExitDiff(t) PROVE Settlement'
  BY <1>42 DEF ExitDiff, ThreadGoto
<1>33. ASSUME NEW t \in Threads, ExitSleep(t) PROVE Settlement'
  BY <1>33 DEF ExitSleep, ThreadGoto
<1>34. ASSUME NEW t \in Threads, ExitPush(t) PROVE Settlement'
  BY <1>34 DEF ExitPush, ThreadGoto, Surplus, Leak
<1>35. ASSUME NEW t \in Threads, ExitErase(t) PROVE Settlement'
  BY <1>35 DEF ExitErase, ThreadGoto
<1>36. CASE StopHit
  BY <1>36 DEF StopHit, StopGoto
<1>37. CASE StopRunning
  BY <1>37 DEF StopRunning, StopGoto
<1>38. CASE Stopped
  BY <1>38 DEF Stopped, StopGoto
<1>39. CASE UNCHANGED vars
  BY <1>39
<1>40. QED
  BY <1>1, <1>2, <1>3, <1>4, <1>5, <1>6, <1>7, <1>8, <1>9, <1>10, <1>11, <1>12,
     <1>13, <1>14, <1>15, <1>16, <1>17, <1>18, <1>19, <1>20, <1>21, <1>22, <1>23,
     <1>24, <1>25, <1>26, <1>27, <1>28, <1>29, <1>30, <1>31, <1>32, <1>33, <1>34,
     <1>35, <1>36, <1>37, <1>38, <1>39, <1>41, <1>42
  DEF Next, AgentNext, LeaveSampling, Stop, Handler, ThreadCode

-----------------------------------------------------------------------------
(* Who pays for global_delay *)

\* What removeUserThread is committed to push, unless the handler settled meanwhile.
Committed(t) ==
    IF t \in interrupted THEN 0
    ELSE IF thread_pc[t] = "exitPush" THEN -sleep_time[t]
    ELSE IF thread_pc[t] = "exitDiff" /\ local_delay[t] > sleep_time[t]
      THEN local_delay[t] - sleep_time[t]
    ELSE 0

\* What thread t still owes global_delay: the push it is committed to, or what it
\* would push if it settled now.
Owed(t) ==
    LET ahead == local_delay[t] - global_delay
    IN  IF handler_pc[t] = "push" THEN -sleep_diff[t]
        ELSE IF ahead > Committed(t) THEN ahead ELSE Committed(t)

\* What was pushed without a charge of this experiment behind it.
Extra == leaked + repushed

\* What is left of a thread's charges of this experiment once it has paid that.
Paid(t) == IF t \in stale THEN sampled[t] ELSE sampled[t] - Owed(t)
PaidCharges == [t \in Threads |-> Paid(t)]

\* global_delay was paid for: the strengthening of GlobalDelayIsBacked.
LedgerBalanced == global_delay <= SumFunctionOnSet(PaidCharges, Threads) + Extra

\* Debts are natural numbers, so nobody has paid more than it was charged.
PaidTypeOK ==
    /\ \A t \in Threads : Paid(t) \in Int /\ Paid(t) <= sampled[t]
    /\ PaidCharges \in [Threads -> Int]

\* It follows from the types and the signs, before a step and after it.
LEMMA PaidType == Base => PaidTypeOK
<1> SUFFICES ASSUME Base PROVE PaidTypeOK
  OBVIOUS
<1>1. \A t \in Threads : Owed(t) \in Nat
  BY DEF Base, TypeOK, Signs, Owed, Committed
<1>2. \A t \in Threads : Paid(t) \in Int /\ Paid(t) <= sampled[t]
  BY <1>1 DEF Base, TypeOK, Paid
<1>3. QED
  BY <1>2 DEF PaidTypeOK, PaidCharges

\* The same of the state after the step.
LEMMA PaidTypeNext == Base' => PaidTypeOK'
BY PaidType, PTL

\* A thread that pays for what it adds keeps the ledger balanced.
LEMMA BalancedByPayment ==
    ASSUME Base, Base', LedgerBalanced, NEW t \in Threads,
           \A u \in Threads \ {t} : Paid(u) <= Paid(u)',
           (global_delay' - Extra') - (global_delay - Extra) <= Paid(t)' - Paid(t)
    PROVE  LedgerBalanced'
<1>1. /\ PaidCharges \in [Threads -> Int] /\ PaidCharges' \in [Threads -> Int]
      /\ Paid(t) \in Int /\ Paid(t)' \in Int
      /\ IsFiniteSet(Threads)
  BY PaidType, PaidTypeNext, ConstantsAssumption DEF PaidTypeOK
<1>2. \A u \in Threads : PaidCharges[u] = Paid(u) /\ PaidCharges'[u] = Paid(u)'
  BY DEF PaidCharges
<1>3. SumFunctionOnSet(PaidCharges, Threads) + (PaidCharges'[t] - PaidCharges[t])
        <= SumFunctionOnSet(PaidCharges', Threads)
  BY <1>1, <1>2, SumStep
<1>4. /\ SumFunctionOnSet(PaidCharges, Threads) \in Int
      /\ SumFunctionOnSet(PaidCharges', Threads) \in Int
      /\ global_delay \in Int /\ global_delay' \in Int /\ Extra \in Int /\ Extra' \in Int
  <2>1. /\ SumFunctionOnSet(PaidCharges, Threads) \in Int /\ SumFunctionOnSet(PaidCharges', Threads) \in Int
    BY <1>1, SumSplit
  <2>2. QED
    BY <2>1 DEF Base, TypeOK, Extra
<1>5. SumFunctionOnSet(PaidCharges, Threads) + (Paid(t)' - Paid(t)) <= SumFunctionOnSet(PaidCharges', Threads)
  BY <1>2, <1>3
<1>6. global_delay' <= SumFunctionOnSet(PaidCharges', Threads) + Extra'
  <2>1. global_delay <= SumFunctionOnSet(PaidCharges, Threads) + Extra
    BY DEF LedgerBalanced
  <2>2. QED
    BY <1>1, <1>4, <1>5, <2>1
<1>7. QED
  BY <1>6 DEF LedgerBalanced

\* Of the agent's steps only the reset touches a delay, or anything a debt depends on.
LEMMA AgentKeepsDelays ==
    ASSUME AgentNext, ~ ResetDelay
    PROVE  UNCHANGED <<delayVars, delayGhost, thread_pc, handler_pc>>
BY DEF AgentNext, LeaveSampling, AgentLoop, SampleRound, NoFrameInScope, BeginExperiment, ZeroHits,
       ChooseSpeedup, EnterRound, SignalRound, EndExperiment, EndSignal, AbandonExperiment,
       ReadDelay, ReadHits, ResetHits, Record, DropBadSample, agentVars, signalVars, delayVars, delayGhost

\* Whatever raises global_delay was paid for by the thread that raises it.
LEMMA LedgerStep ==
    ASSUME Base, Settlement, LedgerBalanced, [Next]_vars
    PROVE  LedgerBalanced'
<1>0. Base /\ Base' /\ LedgerBalanced
  BY BaseStep
<1>1. ASSUME UNCHANGED <<delayVars, delayGhost, thread_pc, handler_pc>> PROVE LedgerBalanced'
  BY <1>1 DEF LedgerBalanced, PaidCharges, Paid, Owed, Committed, Extra, delayVars, delayGhost
<1>2. CASE AgentNext /\ ~ ResetDelay
  BY <1>1, <1>2, AgentKeepsDelays
<1>3. CASE ResetDelay
  <2>1. /\ global_delay' = 0 /\ Extra' = 0
        /\ \A t \in Threads : sampled'[t] = 0
    BY <1>3 DEF ResetDelay, Zero, Extra
  <2>2. \A t \in Threads : Paid(t)' = 0
    BY <1>0, <1>3, <2>1 DEF ResetDelay, CarriesCharge, Leaves, Paid, Owed, Committed, Base, TypeOK
  <2>3. PaidCharges' = [t \in Threads |-> 0]
    BY <2>2 DEF PaidCharges
  <2>4. QED
    BY <2>1, <2>3, SumZero, ConstantsAssumption DEF LedgerBalanced
<1>4. CASE Stop
  BY <1>1, <1>4 DEF Stop, StopHit, StopRunning, Stopped, delayVars, delayGhost
<1>5. CASE UNCHANGED vars
  BY <1>1, <1>5 DEF vars
<1> USE <1>0 DEF Base, TypeOK, Signs, Settlement, AheadOnlyByUnsettled, PushIsCovered, DifferenceKept, HalfReadIsCovered, Paid, Owed, Committed, Extra,
        agentVars, signalVars, delayVars, delayGhost
<1>6. ASSUME NEW t \in Threads, Deliver(t) PROVE LedgerBalanced'
  <2>1. \A u \in Threads \ {t} : Paid(u) <= Paid(u)'
    BY <1>6 DEF Deliver, HandlerGoto, TakeSignal
  <2>2. (global_delay' - Extra') - (global_delay - Extra) <= Paid(t)' - Paid(t)
    BY <1>6 DEF Deliver, HandlerGoto, TakeSignal
  <2>3. QED
    BY <2>1, <2>2, BalancedByPayment
<1>7. ASSUME NEW t \in Threads, IgnoreSignal(t) PROVE LedgerBalanced'
  <2>1. \A u \in Threads \ {t} : Paid(u) <= Paid(u)'
    BY <1>7 DEF IgnoreSignal, TakeSignal
  <2>2. (global_delay' - Extra') - (global_delay - Extra) <= Paid(t)' - Paid(t)
    BY <1>7 DEF IgnoreSignal, TakeSignal
  <2>3. QED
    BY <2>1, <2>2, BalancedByPayment
<1>8. ASSUME NEW t \in Threads, SampleBranch(t) PROVE LedgerBalanced'
  <2>1. \A u \in Threads \ {t} : Paid(u) <= Paid(u)'
    BY <1>8 DEF SampleBranch, Forget, Leaves, HandlerGoto
  <2>2. (global_delay' - Extra') - (global_delay - Extra) <= Paid(t)' - Paid(t)
    BY <1>8 DEF SampleBranch, Forget, Leaves, HandlerGoto
  <2>3. QED
    BY <2>1, <2>2, BalancedByPayment
<1>9. ASSUME NEW t \in Threads, CountSignal(t) PROVE LedgerBalanced'
  <2>1. \A u \in Threads \ {t} : Paid(u) <= Paid(u)'
    BY <1>9 DEF CountSignal, HandlerGoto, Charges, Sample
  <2>2. (global_delay' - Extra') - (global_delay - Extra) <= Paid(t)' - Paid(t)
    BY <1>9 DEF CountSignal, HandlerGoto, Charges, Sample, Fields
  <2>3. QED
    BY <2>1, <2>2, BalancedByPayment
<1>10. ASSUME NEW t \in Threads, CheckDelay(t) PROVE LedgerBalanced'
  <2>1. \A u \in Threads \ {t} : Paid(u) <= Paid(u)'
    BY <1>10 DEF CheckDelay, HandlerGoto, Lag
  <2>2. (global_delay' - Extra') - (global_delay - Extra) <= Paid(t)' - Paid(t)
    BY <1>10 DEF CheckDelay, HandlerGoto, Lag
  <2>3. QED
    BY <2>1, <2>2, BalancedByPayment
<1>11. ASSUME NEW t \in Threads, SettleSleep(t) PROVE LedgerBalanced'
  <2>1. handler_pc[t] = "sleep" /\ sleep_diff[t] \in Nat
    BY <1>11 DEF SettleSleep, HandlerGoto
  <2>2. PICK slept \in SleepReturns(sleep_diff[t]) :
            LET extra == IF slept > sleep_diff[t] THEN slept - sleep_diff[t] ELSE 0 IN
            /\ local_delay' = [local_delay EXCEPT ![t] = @ + slept]
            /\ unsettled' = [unsettled EXCEPT ![t] = extra]
            /\ Sample(t, extra)
    BY <1>11 DEF SettleSleep
  <2>3. slept \in Nat
    BY <2>1, <2>2, SleepIsNat
  <2>4. \A u \in Threads \ {t} : Paid(u) <= Paid(u)'
    BY <1>11, <2>2, <2>3 DEF SettleSleep, HandlerGoto, Sample, Interrupt, Leaves
  <2>5. (global_delay' - Extra') - (global_delay - Extra) <= Paid(t)' - Paid(t)
    BY <1>11, <2>1, <2>2, <2>3 DEF SettleSleep, HandlerGoto, Sample, Interrupt, Leaves
  <2>6. QED
    BY <2>4, <2>5, BalancedByPayment
<1>12. ASSUME NEW t \in Threads, SettlePush(t) PROVE LedgerBalanced'
  <2>1. \A u \in Threads \ {t} : Paid(u) <= Paid(u)'
    BY <1>12 DEF SettlePush, HandlerGoto, Surplus, Leak, Interrupt, Leaves
  <2>2. (global_delay' - Extra') - (global_delay - Extra) <= Paid(t)' - Paid(t)
    BY <1>12 DEF SettlePush, HandlerGoto, Surplus, Leak, Interrupt, Leaves
  <2>3. QED
    BY <2>1, <2>2, BalancedByPayment
<1>13. ASSUME NEW t \in Threads, Flush(t) PROVE LedgerBalanced'
  <2>1. \A u \in Threads \ {t} : Paid(u) <= Paid(u)'
    BY <1>13 DEF Flush, HandlerGoto
  <2>2. (global_delay' - Extra') - (global_delay - Extra) <= Paid(t)' - Paid(t)
    BY <1>13 DEF Flush, HandlerGoto
  <2>3. QED
    BY <2>1, <2>2, BalancedByPayment
<1>14. ASSUME NEW t \in Threads, ThreadStart(t) PROVE LedgerBalanced'
  <2>1. \A u \in Threads \ {t} : Paid(u) <= Paid(u)'
    BY <1>14 DEF ThreadStart, ThreadGoto
  <2>2. (global_delay' - Extra') - (global_delay - Extra) <= Paid(t)' - Paid(t)
    BY <1>14 DEF ThreadStart, ThreadGoto
  <2>3. QED
    BY <2>1, <2>2, BalancedByPayment
<1>15. ASSUME NEW t \in Threads, Register(t) PROVE LedgerBalanced'
  <2>1. \A u \in Threads \ {t} : Paid(u) <= Paid(u)'
    BY <1>15 DEF Register, ThreadGoto
  <2>2. (global_delay' - Extra') - (global_delay - Extra) <= Paid(t)' - Paid(t)
    BY <1>15 DEF Register, ThreadGoto
  <2>3. QED
    BY <2>1, <2>2, BalancedByPayment
<1>16. ASSUME NEW t \in Threads, HitProgressPoint(t) PROVE LedgerBalanced'
  <2>1. \A u \in Threads \ {t} : Paid(u) <= Paid(u)'
    BY <1>16 DEF HitProgressPoint, ThreadGoto
  <2>2. (global_delay' - Extra') - (global_delay - Extra) <= Paid(t)' - Paid(t)
    BY <1>16 DEF HitProgressPoint, ThreadGoto
  <2>3. QED
    BY <2>1, <2>2, BalancedByPayment
<1>17. ASSUME NEW t \in Threads, AddHit(t) PROVE LedgerBalanced'
  <2>1. \A u \in Threads \ {t} : Paid(u) <= Paid(u)'
    BY <1>17 DEF AddHit, ThreadGoto
  <2>2. (global_delay' - Extra') - (global_delay - Extra) <= Paid(t)' - Paid(t)
    BY <1>17 DEF AddHit, ThreadGoto
  <2>3. QED
    BY <2>1, <2>2, BalancedByPayment
<1>25. ASSUME NEW t \in Threads, ExitLoad(t) PROVE LedgerBalanced'
  <2>1. \A u \in Threads \ {t} : Paid(u) <= Paid(u)'
    BY <1>25 DEF ExitLoad, ThreadGoto
  <2>2. (global_delay' - Extra') - (global_delay - Extra) <= Paid(t)' - Paid(t)
    BY <1>25 DEF ExitLoad, ThreadGoto
  <2>3. QED
    BY <2>1, <2>2, BalancedByPayment
<1>18. ASSUME NEW t \in Threads, ExitFlush(t) PROVE LedgerBalanced'
  <2>1. \A u \in Threads \ {t} : Paid(u) <= Paid(u)'
    BY <1>18 DEF ExitFlush, ThreadGoto
  <2>2. (global_delay' - Extra') - (global_delay - Extra) <= Paid(t)' - Paid(t)
    BY <1>18 DEF ExitFlush, ThreadGoto
  <2>3. QED
    BY <2>1, <2>2, BalancedByPayment
<1>19. ASSUME NEW t \in Threads, ExitClear(t) PROVE LedgerBalanced'
  <2>1. \A u \in Threads \ {t} : Paid(u) <= Paid(u)'
    BY <1>19 DEF ExitClear, ThreadGoto
  <2>2. (global_delay' - Extra') - (global_delay - Extra) <= Paid(t)' - Paid(t)
    BY <1>19 DEF ExitClear, ThreadGoto
  <2>3. QED
    BY <2>1, <2>2, BalancedByPayment
<1>20. ASSUME NEW t \in Threads, ExitReadGlobal(t) PROVE LedgerBalanced'
  <2>1. \A u \in Threads \ {t} : Paid(u) <= Paid(u)'
    BY <1>20 DEF ExitReadGlobal, ThreadGoto
  <2>2. (global_delay' - Extra') - (global_delay - Extra) <= Paid(t)' - Paid(t)
    BY <1>20 DEF ExitReadGlobal, ThreadGoto
  <2>3. QED
    BY <2>1, <2>2, BalancedByPayment
<1>26. ASSUME NEW t \in Threads, ExitDiff(t) PROVE LedgerBalanced'
  <2>1. \A u \in Threads \ {t} : Paid(u) <= Paid(u)'
    BY <1>26 DEF ExitDiff, ThreadGoto
  <2>2. (global_delay' - Extra') - (global_delay - Extra) <= Paid(t)' - Paid(t)
    BY <1>26 DEF ExitDiff, ThreadGoto
  <2>3. QED
    BY <2>1, <2>2, BalancedByPayment
<1>21. ASSUME NEW t \in Threads, ExitSleep(t) PROVE LedgerBalanced'
  <2>1. \A u \in Threads \ {t} : Paid(u) <= Paid(u)'
    BY <1>21 DEF ExitSleep, ThreadGoto
  <2>2. (global_delay' - Extra') - (global_delay - Extra) <= Paid(t)' - Paid(t)
    BY <1>21 DEF ExitSleep, ThreadGoto
  <2>3. QED
    BY <2>1, <2>2, BalancedByPayment
<1>22. ASSUME NEW t \in Threads, ExitPush(t) PROVE LedgerBalanced'
  <2>1. \A u \in Threads \ {t} : Paid(u) <= Paid(u)'
    BY <1>22 DEF ExitPush, ThreadGoto, Surplus, Leak
  <2>2. (global_delay' - Extra') - (global_delay - Extra) <= Paid(t)' - Paid(t)
    BY <1>22 DEF ExitPush, ThreadGoto, Surplus, Leak
  <2>3. QED
    BY <2>1, <2>2, BalancedByPayment
<1>23. ASSUME NEW t \in Threads, ExitErase(t) PROVE LedgerBalanced'
  <2>1. \A u \in Threads \ {t} : Paid(u) <= Paid(u)'
    BY <1>23 DEF ExitErase, ThreadGoto
  <2>2. (global_delay' - Extra') - (global_delay - Extra) <= Paid(t)' - Paid(t)
    BY <1>23 DEF ExitErase, ThreadGoto
  <2>3. QED
    BY <2>1, <2>2, BalancedByPayment
<1>24. QED
  BY <1>2, <1>3, <1>4, <1>5, <1>6, <1>7, <1>8, <1>9, <1>10, <1>11, <1>12, <1>13, <1>14, <1>15, <1>16, <1>17, <1>18, <1>19, <1>20, <1>21, <1>22, <1>23, <1>25, <1>26
  DEF Next, Handler, ThreadCode

-----------------------------------------------------------------------------
(* Which experiment a charge belongs to *)

\* runExperiment is between its two assignments of in_experiment exactly there.
InExperimentPC == in_experiment <=> agent_pc \in {"zeroHits", "choose", "rounds", "signal"}

\* Only a registered thread takes a signal, and it is past its start and not yet erased.
Residence ==
    \A t \in Threads :
        t \in user_threads \/ handler_pc[t] # "idle" => thread_pc[t] \notin {"unborn", "register", "dead"}

\* The steps of the handler that deal with a signal of an experiment.
Charging == {"count", "check", "sleep", "push"}

\* Between the reset and the next experiment no thread holds a charge of this
\* experiment, and a handler still at one is stale.
ClearedBetween ==
    agent_pc \in {"sampling", "sampled", "record"} \/ (agent_pc = "loop" /\ running) =>
        \A t \in Threads : sampled[t] = 0 /\ (t \notin stale => handler_pc[t] \notin Charging)

\* Neither does a thread that is not started yet, nor one whose handler found
\* no experiment and meets one when it forgets its charge.
UnchargedBefore ==
    \A t \in Threads :
        /\ thread_pc[t] \in {"unborn", "register"} => sampled[t] = 0
        /\ handler_pc[t] = "sample" /\ in_experiment => sampled[t] = 0

\* During an experiment a thread's own charges are all in its local_delay.
ChargedLocally ==
    \A t \in Threads \ stale :
        thread_pc[t] # "dead" /\ (in_experiment \/ handler_pc[t] \in Charging) =>
            sampled[t] <= local_delay[t]

ChargesOfExperiment ==
    InExperimentPC /\ Residence /\ ClearedBetween /\ UnchargedBefore /\ ChargedLocally

\* The charges of an experiment are told apart from those before it.
LEMMA ChargesStep ==
    ASSUME Base, ChargesOfExperiment, [Next]_vars
    PROVE  ChargesOfExperiment'
<1> USE DEF Base, TypeOK, Signs, ChargesOfExperiment, InExperimentPC, Residence, ClearedBetween, UnchargedBefore,
            ChargedLocally, Charging, vars, agentVars, signalVars, delayVars, delayGhost
<1>1. CASE AgentLoop
  BY <1>1 DEF AgentLoop, AgentGoto
<1>2. CASE SampleRound
  BY <1>2 DEF SampleRound, SignalUserThreads
<1>3. CASE NoFrameInScope
  BY <1>3 DEF NoFrameInScope, AgentGoto
<1>4. CASE BeginExperiment
  BY <1>4 DEF BeginExperiment, AgentGoto
<1>5. CASE ZeroHits
  BY <1>5 DEF ZeroHits, AgentGoto
<1>6. CASE ChooseSpeedup
  BY <1>6 DEF ChooseSpeedup, AgentGoto
<1>7. CASE EnterRound
  BY <1>7 DEF EnterRound, AgentGoto
<1>8. CASE SignalRound
  BY <1>8 DEF SignalRound, AgentGoto, SignalUserThreads
<1>9. CASE EndExperiment
  BY <1>9 DEF EndExperiment, AgentGoto
<1>10. CASE EndSignal
  BY <1>10 DEF EndSignal, AgentGoto, SignalUserThreads
<1>11. CASE AbandonExperiment
  BY <1>11 DEF AbandonExperiment, AgentGoto
<1>12. CASE ReadDelay
  BY <1>12 DEF ReadDelay, AgentGoto
<1>13. CASE ReadHits
  BY <1>13 DEF ReadHits, AgentGoto
<1>14. CASE ResetHits
  BY <1>14 DEF ResetHits, AgentGoto
<1>15. CASE ResetDelay
  BY <1>15 DEF ResetDelay, AgentGoto, Zero, CarriesCharge, Leaves
<1>16. CASE Record
  BY <1>16 DEF Record, AgentGoto
<1>17. CASE DropBadSample
  BY <1>17 DEF DropBadSample, AgentGoto
<1>18. ASSUME NEW t \in Threads, Deliver(t) PROVE ChargesOfExperiment'
  BY <1>18 DEF Deliver, HandlerGoto, TakeSignal
<1>19. ASSUME NEW t \in Threads, IgnoreSignal(t) PROVE ChargesOfExperiment'
  BY <1>19 DEF IgnoreSignal, TakeSignal
<1>20. ASSUME NEW t \in Threads, SampleBranch(t) PROVE ChargesOfExperiment'
  BY <1>20 DEF SampleBranch, Forget, Leaves, HandlerGoto
<1>21. ASSUME NEW t \in Threads, CountSignal(t) PROVE ChargesOfExperiment'
  BY <1>21 DEF CountSignal, HandlerGoto, Charges, Sample, Fields
<1>22. ASSUME NEW t \in Threads, CheckDelay(t) PROVE ChargesOfExperiment'
  BY <1>22 DEF CheckDelay, HandlerGoto, Lag
<1>23. ASSUME NEW t \in Threads, SettleSleep(t) PROVE ChargesOfExperiment'
  <2>1. handler_pc[t] = "sleep" /\ sleep_diff[t] \in Nat
    BY <1>23 DEF SettleSleep, HandlerGoto
  <2>2. PICK slept \in SleepReturns(sleep_diff[t]) :
            LET extra == IF slept > sleep_diff[t] THEN slept - sleep_diff[t] ELSE 0 IN
            /\ local_delay' = [local_delay EXCEPT ![t] = @ + slept]
            /\ unsettled' = [unsettled EXCEPT ![t] = extra]
            /\ Sample(t, extra)
    BY <1>23 DEF SettleSleep
  <2>3. slept \in Nat
    BY <2>1, <2>2, SleepIsNat
  <2>4. QED
    BY <1>23, <2>1, <2>2, <2>3 DEF SettleSleep, HandlerGoto, Sample, Interrupt, Leaves
<1>24. ASSUME NEW t \in Threads, SettlePush(t) PROVE ChargesOfExperiment'
  BY <1>24 DEF SettlePush, HandlerGoto
<1>25. ASSUME NEW t \in Threads, Flush(t) PROVE ChargesOfExperiment'
  BY <1>25 DEF Flush, HandlerGoto
<1>26. ASSUME NEW t \in Threads, ThreadStart(t) PROVE ChargesOfExperiment'
  BY <1>26 DEF ThreadStart, ThreadGoto
<1>27. ASSUME NEW t \in Threads, Register(t) PROVE ChargesOfExperiment'
  BY <1>27 DEF Register, ThreadGoto
<1>28. ASSUME NEW t \in Threads, HitProgressPoint(t) PROVE ChargesOfExperiment'
  BY <1>28 DEF HitProgressPoint, ThreadGoto
<1>29. ASSUME NEW t \in Threads, AddHit(t) PROVE ChargesOfExperiment'
  BY <1>29 DEF AddHit, ThreadGoto
<1>41. ASSUME NEW t \in Threads, ExitLoad(t) PROVE ChargesOfExperiment'
  BY <1>41 DEF ExitLoad, ThreadGoto
<1>30. ASSUME NEW t \in Threads, ExitFlush(t) PROVE ChargesOfExperiment'
  BY <1>30 DEF ExitFlush, ThreadGoto
<1>31. ASSUME NEW t \in Threads, ExitClear(t) PROVE ChargesOfExperiment'
  BY <1>31 DEF ExitClear, ThreadGoto
<1>32. ASSUME NEW t \in Threads, ExitReadGlobal(t) PROVE ChargesOfExperiment'
  BY <1>32 DEF ExitReadGlobal, ThreadGoto
<1>42. ASSUME NEW t \in Threads, ExitDiff(t) PROVE ChargesOfExperiment'
  BY <1>42 DEF ExitDiff, ThreadGoto
<1>33. ASSUME NEW t \in Threads, ExitSleep(t) PROVE ChargesOfExperiment'
  BY <1>33 DEF ExitSleep, ThreadGoto
<1>34. ASSUME NEW t \in Threads, ExitPush(t) PROVE ChargesOfExperiment'
  BY <1>34 DEF ExitPush, ThreadGoto
<1>35. ASSUME NEW t \in Threads, ExitErase(t) PROVE ChargesOfExperiment'
  BY <1>35 DEF ExitErase, ThreadGoto
<1>36. CASE StopHit
  BY <1>36 DEF StopHit, StopGoto
<1>37. CASE StopRunning
  BY <1>37 DEF StopRunning, StopGoto
<1>38. CASE Stopped
  BY <1>38 DEF Stopped, StopGoto
<1>39. CASE UNCHANGED vars
  BY <1>39
<1>40. QED
  BY <1>1, <1>2, <1>3, <1>4, <1>5, <1>6, <1>7, <1>8, <1>9, <1>10, <1>11, <1>12, <1>13, <1>14, <1>15, <1>16, <1>17, <1>18, <1>19, <1>20, <1>21, <1>22, <1>23, <1>24, <1>25, <1>26, <1>27, <1>28, <1>29, <1>30, <1>31, <1>32, <1>33, <1>34, <1>35, <1>36, <1>37, <1>38, <1>39, <1>41, <1>42
  DEF Next, AgentNext, LeaveSampling, Stop, Handler, ThreadCode

-----------------------------------------------------------------------------
(* Hits *)

\* Hits thread t may still add to points_hit, less those counted twice because of it:
\* until removeUserThread has cleared the counter, its handler may flush what is in
\* there on top of what was loaded.
Carried(t) ==
    Unflushed(t) - exit_hits[t]
        + (IF thread_pc[t] \in {"exitFlush", "exitClear"} THEN ut_points_hit[t] ELSE 0)
CarriedOfAll == [t \in Threads |-> Carried(t)]
CarriedHits == SumFunctionOnSet(CarriedOfAll, Threads)

\* removeUserThread loads the counter once.
LoadedOnce ==
    \A t \in Threads : thread_pc[t] \in {"unborn", "register", "live", "hit"} => exit_hits[t] = 0

\* The hits runExperiment read are still in the counter it is about to reset.
ReadHitsCovered == agent_pc = "resetHits" => current_experiment.points_hit <= points_hit

\* The hits that are in points_hit or on from there, less those that were made.
HitBalance == hits_written + UnwrittenHits + points_hit - made

\* The strengthening of HitsNeverInvented.
HitsBalanced == HitBalance + CarriedHits <= 0

HitsAccounted == HitsBalanced /\ ReadHitsCovered /\ LoadedOnce

\* All of these are integers.
HitTypeOK ==
    /\ CarriedOfAll \in [Threads -> Int] /\ \A t \in Threads : Carried(t) \in Int
    /\ UnwrittenHits \in Int /\ HitBalance \in Int

\* It follows from the types, before a step and after it.
LEMMA HitType == Base => HitTypeOK
BY DEF Base, TypeOK, Fields, HitTypeOK, CarriedOfAll, Carried, Unflushed, UnwrittenHits, HitBalance

\* The same of the state after the step.
LEMMA HitTypeNext == Base' => HitTypeOK'
BY HitType, PTL

\* What leaves one thread's counter may enter the balance.
LEMMA BalanceTransfer ==
    ASSUME NEW b \in Int, NEW c \in Int, NEW x \in Int, NEW y \in Int, NEW m \in Int, NEW n \in Int,
           b + x <= 0, c + n <= b + m, y + (m - n) <= x
    PROVE  c + y <= 0
OBVIOUS

\* A step that moves hits out of one thread's counter, or out of none, invents none.
LEMMA HitsByBalance ==
    ASSUME Base, Base', HitsBalanced, NEW t \in Threads,
           \A u \in Threads \ {t} : Carried(u)' <= Carried(u),
           HitBalance' + Carried(t)' <= HitBalance + Carried(t)
    PROVE  HitsBalanced'
<1>1. HitTypeOK /\ HitTypeOK' /\ IsFiniteSet(Threads)
  BY HitType, HitTypeNext, ConstantsAssumption
<1>2. CarriedOfAll \in [Threads -> Int] /\ CarriedOfAll' \in [Threads -> Int]
  BY <1>1 DEF HitTypeOK
<1>3. \A u \in Threads : CarriedOfAll[u] = Carried(u) /\ CarriedOfAll'[u] = Carried(u)'
  BY DEF CarriedOfAll
<1>4. SumFunctionOnSet(CarriedOfAll', Threads) + (CarriedOfAll[t] - CarriedOfAll'[t])
        <= SumFunctionOnSet(CarriedOfAll, Threads)
  BY <1>1, <1>2, <1>3, SumStep
<1>5. CarriedHits' + (Carried(t) - Carried(t)') <= CarriedHits
  BY <1>3, <1>4 DEF CarriedHits
<1>6. CarriedHits \in Int /\ CarriedHits' \in Int
  BY <1>1, <1>2, SumSplit DEF CarriedHits
<1>7. Carried(t) \in Int /\ Carried(t)' \in Int /\ HitBalance \in Int /\ HitBalance' \in Int
  BY <1>1 DEF HitTypeOK
<1>8. QED
  BY <1>5, <1>6, <1>7, BalanceTransfer DEF HitsBalanced

\* The strengthening is one.
LEMMA HitsFromBalance ==
    ASSUME Base, HitsBalanced
    PROVE  HitsNeverInvented
<1> DEFINE unflushed == [t \in Threads |-> Unflushed(t)]
<1> DEFINE least == [t \in Threads |-> Unflushed(t) - exit_hits[t]]
<1>1. /\ unflushed \in [Threads -> Int] /\ exit_hits \in [Threads -> Int] /\ least \in [Threads -> Int]
      /\ CarriedOfAll \in [Threads -> Int] /\ IsFiniteSet(Threads)
  BY HitType, ConstantsAssumption DEF Base, TypeOK, Unflushed, HitTypeOK
<1>2. \A t \in Threads : least[t] = unflushed[t] - exit_hits[t]
  OBVIOUS
<1>3. \A t \in Threads : least[t] <= CarriedOfAll[t]
  BY DEF CarriedOfAll, Carried, Unflushed, Base, TypeOK
<1>4. UnflushedHits = SumFunctionOnSet(unflushed, Threads)
  BY DEF UnflushedHits
<1> HIDE DEF unflushed, least
<1>5. SumFunctionOnSet(least, Threads) = UnflushedHits - SumFunctionOnSet(exit_hits, Threads)
  BY <1>1, <1>2, <1>4, SumMinus
<1>6. SumFunctionOnSet(least, Threads) <= CarriedHits
  BY <1>1, <1>3, SumMonotone DEF CarriedHits
<1>7. /\ UnflushedHits \in Int /\ SumFunctionOnSet(exit_hits, Threads) \in Int
      /\ CarriedHits \in Int
  BY <1>1, <1>4, SumSplit DEF CarriedHits
<1>8. UnwrittenHits \in Int /\ hits_written \in Int /\ points_hit \in Int /\ made \in Int
  BY HitType DEF HitTypeOK, Base, TypeOK
<1>9. hits_written + UnwrittenHits + points_hit - made + CarriedHits <= 0
  BY DEF HitsBalanced, HitBalance
<1>10. QED
  BY <1>5, <1>6, <1>7, <1>8, <1>9 DEF HitsNeverInvented

\* Every step of the agent, of Stop, of a handler and of a thread accounts for its hits.
LEMMA HitsStep ==
    ASSUME Base, HitsAccounted, [Next]_vars
    PROVE  HitsAccounted'
<1>0. Base /\ Base' /\ HitsBalanced /\ ReadHitsCovered /\ LoadedOnce
  BY BaseStep DEF HitsAccounted
<1>a. HitTypeOK /\ HitTypeOK'
  BY <1>0, HitType, HitTypeNext
<1>b. CarriedHits \in Int
  <2>1. CarriedOfAll \in [Threads -> Int] /\ IsFiniteSet(Threads)
    BY <1>a, ConstantsAssumption DEF HitTypeOK
  <2>2. QED
    BY <2>1, SumSplit DEF CarriedHits
<1>c. ASSUME UNCHANGED <<thread_pc, ut_points_hit, exit_hits>>, HitBalance' <= HitBalance, ReadHitsCovered'
      PROVE  HitsAccounted'
  <2>1. CarriedHits' = CarriedHits
    BY <1>c DEF CarriedHits, CarriedOfAll, Carried, Unflushed
  <2>2. HitBalance \in Int /\ HitBalance' \in Int
    BY <1>a DEF HitTypeOK
  <2>3. \A b, c, x \in Int : b + x <= 0 /\ c <= b => c + x <= 0
    OBVIOUS
  <2>4. HitsBalanced'
    BY <1>0, <1>b, <1>c, <2>1, <2>2, <2>3 DEF HitsBalanced
  <2>5. LoadedOnce'
    BY <1>0, <1>c DEF LoadedOnce
  <2>6. QED
    BY <1>c, <2>4, <2>5 DEF HitsAccounted
<1> USE DEF Base, TypeOK, Fields, ReadHitsCovered, vars, agentVars, hitVars, hitGhost
<1>1. CASE AgentLoop
  <2>1. UNCHANGED <<thread_pc, ut_points_hit, exit_hits>> /\ HitBalance' <= HitBalance /\ ReadHitsCovered'
    BY <1>0, <1>1 DEF AgentLoop, AgentGoto, HitBalance, UnwrittenHits
  <2>2. QED
    BY <1>c, <2>1
<1>2. CASE SampleRound
  <2>1. UNCHANGED <<thread_pc, ut_points_hit, exit_hits>> /\ HitBalance' <= HitBalance /\ ReadHitsCovered'
    BY <1>0, <1>2 DEF SampleRound, HitBalance, UnwrittenHits
  <2>2. QED
    BY <1>c, <2>1
<1>3. CASE NoFrameInScope
  <2>1. UNCHANGED <<thread_pc, ut_points_hit, exit_hits>> /\ HitBalance' <= HitBalance /\ ReadHitsCovered'
    BY <1>0, <1>3 DEF NoFrameInScope, AgentGoto, HitBalance, UnwrittenHits
  <2>2. QED
    BY <1>c, <2>1
<1>4. CASE BeginExperiment
  <2>1. UNCHANGED <<thread_pc, ut_points_hit, exit_hits>> /\ HitBalance' <= HitBalance /\ ReadHitsCovered'
    BY <1>0, <1>4 DEF BeginExperiment, AgentGoto, HitBalance, UnwrittenHits
  <2>2. QED
    BY <1>c, <2>1
<1>5. CASE ZeroHits
  <2>1. UNCHANGED <<thread_pc, ut_points_hit, exit_hits>> /\ HitBalance' <= HitBalance /\ ReadHitsCovered'
    BY <1>0, <1>5 DEF ZeroHits, AgentGoto, HitBalance, UnwrittenHits
  <2>2. QED
    BY <1>c, <2>1
<1>6. CASE ChooseSpeedup
  <2>1. UNCHANGED <<thread_pc, ut_points_hit, exit_hits>> /\ HitBalance' <= HitBalance /\ ReadHitsCovered'
    BY <1>0, <1>6 DEF ChooseSpeedup, AgentGoto, HitBalance, UnwrittenHits
  <2>2. QED
    BY <1>c, <2>1
<1>7. CASE EnterRound
  <2>1. UNCHANGED <<thread_pc, ut_points_hit, exit_hits>> /\ HitBalance' <= HitBalance /\ ReadHitsCovered'
    BY <1>0, <1>7 DEF EnterRound, AgentGoto, HitBalance, UnwrittenHits
  <2>2. QED
    BY <1>c, <2>1
<1>8. CASE SignalRound
  <2>1. UNCHANGED <<thread_pc, ut_points_hit, exit_hits>> /\ HitBalance' <= HitBalance /\ ReadHitsCovered'
    BY <1>0, <1>8 DEF SignalRound, AgentGoto, HitBalance, UnwrittenHits
  <2>2. QED
    BY <1>c, <2>1
<1>9. CASE EndExperiment
  <2>1. UNCHANGED <<thread_pc, ut_points_hit, exit_hits>> /\ HitBalance' <= HitBalance /\ ReadHitsCovered'
    BY <1>0, <1>9 DEF EndExperiment, AgentGoto, HitBalance, UnwrittenHits
  <2>2. QED
    BY <1>c, <2>1
<1>10. CASE EndSignal
  <2>1. UNCHANGED <<thread_pc, ut_points_hit, exit_hits>> /\ HitBalance' <= HitBalance /\ ReadHitsCovered'
    BY <1>0, <1>10 DEF EndSignal, AgentGoto, HitBalance, UnwrittenHits
  <2>2. QED
    BY <1>c, <2>1
<1>11. CASE AbandonExperiment
  <2>1. UNCHANGED <<thread_pc, ut_points_hit, exit_hits>> /\ HitBalance' <= HitBalance /\ ReadHitsCovered'
    BY <1>0, <1>11 DEF AbandonExperiment, AgentGoto, HitBalance, UnwrittenHits
  <2>2. QED
    BY <1>c, <2>1
<1>12. CASE ReadDelay
  <2>1. UNCHANGED <<thread_pc, ut_points_hit, exit_hits>> /\ HitBalance' <= HitBalance /\ ReadHitsCovered'
    BY <1>0, <1>12 DEF ReadDelay, AgentGoto, HitBalance, UnwrittenHits
  <2>2. QED
    BY <1>c, <2>1
<1>13. CASE ReadHits
  <2>1. UNCHANGED <<thread_pc, ut_points_hit, exit_hits>> /\ HitBalance' <= HitBalance /\ ReadHitsCovered'
    BY <1>0, <1>13 DEF ReadHits, AgentGoto, HitBalance, UnwrittenHits
  <2>2. QED
    BY <1>c, <2>1
<1>14. CASE ResetHits
  <2>1. UNCHANGED <<thread_pc, ut_points_hit, exit_hits>> /\ HitBalance' <= HitBalance /\ ReadHitsCovered'
    BY <1>0, <1>14 DEF ResetHits, AgentGoto, HitBalance, UnwrittenHits
  <2>2. QED
    BY <1>c, <2>1
<1>15. CASE ResetDelay
  <2>1. UNCHANGED <<thread_pc, ut_points_hit, exit_hits>> /\ HitBalance' <= HitBalance /\ ReadHitsCovered'
    BY <1>0, <1>15 DEF ResetDelay, AgentGoto, HitBalance, UnwrittenHits
  <2>2. QED
    BY <1>c, <2>1
<1>16. CASE Record
  <2>1. UNCHANGED <<thread_pc, ut_points_hit, exit_hits>> /\ HitBalance' <= HitBalance /\ ReadHitsCovered'
    BY <1>0, <1>16 DEF Record, AgentGoto, HitBalance, UnwrittenHits
  <2>2. QED
    BY <1>c, <2>1
<1>17. CASE DropBadSample
  <2>1. UNCHANGED <<thread_pc, ut_points_hit, exit_hits>> /\ HitBalance' <= HitBalance /\ ReadHitsCovered'
    BY <1>0, <1>17 DEF DropBadSample, AgentGoto, HitBalance, UnwrittenHits
  <2>2. QED
    BY <1>c, <2>1
<1>18. ASSUME NEW t \in Threads, Deliver(t) PROVE HitsAccounted'
  <2>1. UNCHANGED <<thread_pc, ut_points_hit, exit_hits>> /\ HitBalance' <= HitBalance /\ ReadHitsCovered'
    BY <1>0, <1>18 DEF Deliver, HandlerGoto, HitBalance, UnwrittenHits
  <2>2. QED
    BY <1>c, <2>1
<1>19. ASSUME NEW t \in Threads, IgnoreSignal(t) PROVE HitsAccounted'
  <2>1. UNCHANGED <<thread_pc, ut_points_hit, exit_hits>> /\ HitBalance' <= HitBalance /\ ReadHitsCovered'
    BY <1>0, <1>19 DEF IgnoreSignal, HitBalance, UnwrittenHits
  <2>2. QED
    BY <1>c, <2>1
<1>20. ASSUME NEW t \in Threads, SampleBranch(t) PROVE HitsAccounted'
  <2>1. UNCHANGED <<thread_pc, ut_points_hit, exit_hits>> /\ HitBalance' <= HitBalance /\ ReadHitsCovered'
    BY <1>0, <1>20 DEF SampleBranch, Forget, Leaves, HandlerGoto, HitBalance, UnwrittenHits
  <2>2. QED
    BY <1>c, <2>1
<1>21. ASSUME NEW t \in Threads, CountSignal(t) PROVE HitsAccounted'
  <2>1. UNCHANGED <<thread_pc, ut_points_hit, exit_hits>> /\ HitBalance' <= HitBalance /\ ReadHitsCovered'
    BY <1>0, <1>21 DEF CountSignal, HandlerGoto, HitBalance, UnwrittenHits
  <2>2. QED
    BY <1>c, <2>1
<1>22. ASSUME NEW t \in Threads, CheckDelay(t) PROVE HitsAccounted'
  <2>1. UNCHANGED <<thread_pc, ut_points_hit, exit_hits>> /\ HitBalance' <= HitBalance /\ ReadHitsCovered'
    BY <1>0, <1>22 DEF CheckDelay, HandlerGoto, HitBalance, UnwrittenHits
  <2>2. QED
    BY <1>c, <2>1
<1>23. ASSUME NEW t \in Threads, SettleSleep(t) PROVE HitsAccounted'
  <2>1. UNCHANGED <<thread_pc, ut_points_hit, exit_hits>> /\ HitBalance' <= HitBalance /\ ReadHitsCovered'
    BY <1>0, <1>23 DEF SettleSleep, HandlerGoto, HitBalance, UnwrittenHits
  <2>2. QED
    BY <1>c, <2>1
<1>24. ASSUME NEW t \in Threads, SettlePush(t) PROVE HitsAccounted'
  <2>1. UNCHANGED <<thread_pc, ut_points_hit, exit_hits>> /\ HitBalance' <= HitBalance /\ ReadHitsCovered'
    BY <1>0, <1>24 DEF SettlePush, HandlerGoto, HitBalance, UnwrittenHits
  <2>2. QED
    BY <1>c, <2>1
<1>25. ASSUME NEW t \in Threads, Flush(t) PROVE HitsAccounted'
  <2>1. \A u \in Threads \ {t} : Carried(u)' <= Carried(u)
    BY <1>0, <1>25 DEF Flush, HandlerGoto, Carried, Unflushed, LoadedOnce
  <2>2. HitBalance' + Carried(t)' <= HitBalance + Carried(t) /\ ReadHitsCovered' /\ LoadedOnce'
    BY <1>0, <1>25 DEF Flush, HandlerGoto, HitBalance, UnwrittenHits, Carried, Unflushed, LoadedOnce
  <2>3. QED
    BY <1>0, <2>1, <2>2, HitsByBalance DEF HitsAccounted
<1>26. ASSUME NEW t \in Threads, ThreadStart(t) PROVE HitsAccounted'
  <2>1. \A u \in Threads \ {t} : Carried(u)' <= Carried(u)
    BY <1>0, <1>26 DEF ThreadStart, ThreadGoto, Carried, Unflushed, LoadedOnce
  <2>2. HitBalance' + Carried(t)' <= HitBalance + Carried(t) /\ ReadHitsCovered' /\ LoadedOnce'
    BY <1>0, <1>26 DEF ThreadStart, ThreadGoto, HitBalance, UnwrittenHits, Carried, Unflushed, LoadedOnce
  <2>3. QED
    BY <1>0, <2>1, <2>2, HitsByBalance DEF HitsAccounted
<1>27. ASSUME NEW t \in Threads, Register(t) PROVE HitsAccounted'
  <2>1. \A u \in Threads \ {t} : Carried(u)' <= Carried(u)
    BY <1>0, <1>27 DEF Register, ThreadGoto, Carried, Unflushed, LoadedOnce
  <2>2. HitBalance' + Carried(t)' <= HitBalance + Carried(t) /\ ReadHitsCovered' /\ LoadedOnce'
    BY <1>0, <1>27 DEF Register, ThreadGoto, HitBalance, UnwrittenHits, Carried, Unflushed, LoadedOnce
  <2>3. QED
    BY <1>0, <2>1, <2>2, HitsByBalance DEF HitsAccounted
<1>28. ASSUME NEW t \in Threads, HitProgressPoint(t) PROVE HitsAccounted'
  <2>1. \A u \in Threads \ {t} : Carried(u)' <= Carried(u)
    BY <1>0, <1>28 DEF HitProgressPoint, ThreadGoto, Carried, Unflushed, LoadedOnce
  <2>2. HitBalance' + Carried(t)' <= HitBalance + Carried(t) /\ ReadHitsCovered' /\ LoadedOnce'
    BY <1>0, <1>28 DEF HitProgressPoint, ThreadGoto, HitBalance, UnwrittenHits, Carried, Unflushed, LoadedOnce
  <2>3. QED
    BY <1>0, <2>1, <2>2, HitsByBalance DEF HitsAccounted
<1>29. ASSUME NEW t \in Threads, AddHit(t) PROVE HitsAccounted'
  <2>1. \A u \in Threads \ {t} : Carried(u)' <= Carried(u)
    BY <1>0, <1>29 DEF AddHit, ThreadGoto, Carried, Unflushed, LoadedOnce
  <2>2. HitBalance' + Carried(t)' <= HitBalance + Carried(t) /\ ReadHitsCovered' /\ LoadedOnce'
    BY <1>0, <1>29 DEF AddHit, ThreadGoto, HitBalance, UnwrittenHits, Carried, Unflushed, LoadedOnce
  <2>3. QED
    BY <1>0, <2>1, <2>2, HitsByBalance DEF HitsAccounted
<1>41. ASSUME NEW t \in Threads, ExitLoad(t) PROVE HitsAccounted'
  <2>1. \A u \in Threads \ {t} : Carried(u)' <= Carried(u)
    BY <1>0, <1>41 DEF ExitLoad, ThreadGoto, Carried, Unflushed, LoadedOnce
  <2>2. HitBalance' + Carried(t)' <= HitBalance + Carried(t) /\ ReadHitsCovered' /\ LoadedOnce'
    BY <1>0, <1>41 DEF ExitLoad, ThreadGoto, HitBalance, UnwrittenHits, Carried, Unflushed, LoadedOnce
  <2>3. QED
    BY <1>0, <2>1, <2>2, HitsByBalance DEF HitsAccounted
<1>30. ASSUME NEW t \in Threads, ExitFlush(t) PROVE HitsAccounted'
  <2>1. \A u \in Threads \ {t} : Carried(u)' <= Carried(u)
    BY <1>0, <1>30 DEF ExitFlush, ThreadGoto, Carried, Unflushed, LoadedOnce
  <2>2. HitBalance' + Carried(t)' <= HitBalance + Carried(t) /\ ReadHitsCovered' /\ LoadedOnce'
    BY <1>0, <1>30 DEF ExitFlush, ThreadGoto, HitBalance, UnwrittenHits, Carried, Unflushed, LoadedOnce
  <2>3. QED
    BY <1>0, <2>1, <2>2, HitsByBalance DEF HitsAccounted
<1>31. ASSUME NEW t \in Threads, ExitClear(t) PROVE HitsAccounted'
  <2>1. \A u \in Threads \ {t} : Carried(u)' <= Carried(u)
    BY <1>0, <1>31 DEF ExitClear, ThreadGoto, Carried, Unflushed, LoadedOnce
  <2>2. HitBalance' + Carried(t)' <= HitBalance + Carried(t) /\ ReadHitsCovered' /\ LoadedOnce'
    BY <1>0, <1>31 DEF ExitClear, ThreadGoto, HitBalance, UnwrittenHits, Carried, Unflushed, LoadedOnce
  <2>3. QED
    BY <1>0, <2>1, <2>2, HitsByBalance DEF HitsAccounted
<1>32. ASSUME NEW t \in Threads, ExitReadGlobal(t) PROVE HitsAccounted'
  <2>1. \A u \in Threads \ {t} : Carried(u)' <= Carried(u)
    BY <1>0, <1>32 DEF ExitReadGlobal, ThreadGoto, Carried, Unflushed, LoadedOnce
  <2>2. HitBalance' + Carried(t)' <= HitBalance + Carried(t) /\ ReadHitsCovered' /\ LoadedOnce'
    BY <1>0, <1>32 DEF ExitReadGlobal, ThreadGoto, HitBalance, UnwrittenHits, Carried, Unflushed, LoadedOnce
  <2>3. QED
    BY <1>0, <2>1, <2>2, HitsByBalance DEF HitsAccounted
<1>42. ASSUME NEW t \in Threads, ExitDiff(t) PROVE HitsAccounted'
  <2>1. \A u \in Threads \ {t} : Carried(u)' <= Carried(u)
    BY <1>0, <1>42 DEF ExitDiff, ThreadGoto, Carried, Unflushed, LoadedOnce
  <2>2. HitBalance' + Carried(t)' <= HitBalance + Carried(t) /\ ReadHitsCovered' /\ LoadedOnce'
    BY <1>0, <1>42 DEF ExitDiff, ThreadGoto, HitBalance, UnwrittenHits, Carried, Unflushed, LoadedOnce
  <2>3. QED
    BY <1>0, <2>1, <2>2, HitsByBalance DEF HitsAccounted
<1>33. ASSUME NEW t \in Threads, ExitSleep(t) PROVE HitsAccounted'
  <2>1. \A u \in Threads \ {t} : Carried(u)' <= Carried(u)
    BY <1>0, <1>33 DEF ExitSleep, ThreadGoto, Carried, Unflushed, LoadedOnce
  <2>2. HitBalance' + Carried(t)' <= HitBalance + Carried(t) /\ ReadHitsCovered' /\ LoadedOnce'
    BY <1>0, <1>33 DEF ExitSleep, ThreadGoto, HitBalance, UnwrittenHits, Carried, Unflushed, LoadedOnce
  <2>3. QED
    BY <1>0, <2>1, <2>2, HitsByBalance DEF HitsAccounted
<1>34. ASSUME NEW t \in Threads, ExitPush(t) PROVE HitsAccounted'
  <2>1. \A u \in Threads \ {t} : Carried(u)' <= Carried(u)
    BY <1>0, <1>34 DEF ExitPush, ThreadGoto, Carried, Unflushed, LoadedOnce
  <2>2. HitBalance' + Carried(t)' <= HitBalance + Carried(t) /\ ReadHitsCovered' /\ LoadedOnce'
    BY <1>0, <1>34 DEF ExitPush, ThreadGoto, HitBalance, UnwrittenHits, Carried, Unflushed, LoadedOnce
  <2>3. QED
    BY <1>0, <2>1, <2>2, HitsByBalance DEF HitsAccounted
<1>35. ASSUME NEW t \in Threads, ExitErase(t) PROVE HitsAccounted'
  <2>1. \A u \in Threads \ {t} : Carried(u)' <= Carried(u)
    BY <1>0, <1>35 DEF ExitErase, ThreadGoto, Carried, Unflushed, LoadedOnce
  <2>2. HitBalance' + Carried(t)' <= HitBalance + Carried(t) /\ ReadHitsCovered' /\ LoadedOnce'
    BY <1>0, <1>35 DEF ExitErase, ThreadGoto, HitBalance, UnwrittenHits, Carried, Unflushed, LoadedOnce
  <2>3. QED
    BY <1>0, <2>1, <2>2, HitsByBalance DEF HitsAccounted
<1>36. CASE StopHit
  <2>1. UNCHANGED <<thread_pc, ut_points_hit, exit_hits>> /\ HitBalance' <= HitBalance /\ ReadHitsCovered'
    BY <1>0, <1>36 DEF StopHit, StopGoto, HitBalance, UnwrittenHits
  <2>2. QED
    BY <1>c, <2>1
<1>37. CASE StopRunning
  <2>1. UNCHANGED <<thread_pc, ut_points_hit, exit_hits>> /\ HitBalance' <= HitBalance /\ ReadHitsCovered'
    BY <1>0, <1>37 DEF StopRunning, StopGoto, HitBalance, UnwrittenHits
  <2>2. QED
    BY <1>c, <2>1
<1>38. CASE Stopped
  <2>1. UNCHANGED <<thread_pc, ut_points_hit, exit_hits>> /\ HitBalance' <= HitBalance /\ ReadHitsCovered'
    BY <1>0, <1>38 DEF Stopped, StopGoto, HitBalance, UnwrittenHits
  <2>2. QED
    BY <1>c, <2>1
<1>39. CASE UNCHANGED vars
  <2>1. UNCHANGED <<thread_pc, ut_points_hit, exit_hits>> /\ HitBalance' <= HitBalance /\ ReadHitsCovered'
    BY <1>0, <1>39 DEF HitBalance, UnwrittenHits
  <2>2. QED
    BY <1>c, <2>1
<1>40. QED
  BY <1>1, <1>2, <1>3, <1>4, <1>5, <1>6, <1>7, <1>8, <1>9, <1>10, <1>11, <1>12, <1>13, <1>14, <1>15, <1>16, <1>17, <1>18, <1>19, <1>20, <1>21, <1>22, <1>23, <1>24, <1>25, <1>26, <1>27, <1>28, <1>29, <1>30, <1>31, <1>32, <1>33, <1>34, <1>35, <1>36, <1>37, <1>38, <1>39, <1>41, <1>42
  DEF Next, AgentNext, LeaveSampling, Stop, Handler, ThreadCode

-----------------------------------------------------------------------------
(* The invariant *)

\* An inductive invariant of every run.
IInv == Base /\ Settlement /\ LedgerBalanced /\ ChargesOfExperiment /\ HitsAccounted

\* The invariant holds at the start: nobody is charged anything.
LEMMA InitOK == Init => IInv
<1> SUFFICES ASSUME Init PROVE IInv
  OBVIOUS
<1> USE ConstantsAssumption DEF Init
<1>1. TypeOK
  <2>1. thread_pc \in [Threads -> ThreadPCs] /\ handler_pc \in [Threads -> HandlerPCs]
    BY DEF ThreadPCs, HandlerPCs
  <2>2. current_experiment \in Fields
    BY DEF Fields
  <2>3. Zero \in [Threads -> Nat] /\ Zero \in [Threads -> Int] /\ Zero \in [Threads -> 0..CheckPeriod]
    BY DEF Zero
  <2>4. agent_pc \in AgentPCs /\ stop_pc \in StopPCs
    BY DEF AgentPCs, StopPCs
  <2>5. 0 \in 0..MaxExperiments /\ 0 \in 0..MaxRounds
    OBVIOUS
  <2>6. QED
    BY <2>1, <2>2, <2>3, <2>4, <2>5 DEF TypeOK
<1>2. Signs
  <2>1. \A t \in Threads : handler_pc[t] = "idle" /\ thread_pc[t] \in {"live", "unborn"}
    OBVIOUS
  <2>2. QED
    BY <2>1 DEF Signs
<1>3. CountBelowPeriod /\ Settlement
  BY DEF Zero, CountBelowPeriod, Settlement, AheadOnlyByUnsettled, PushIsCovered, DifferenceKept, HalfReadIsCovered
<1>4. LedgerBalanced
  <2>1. \A t \in Threads : Paid(t) = 0
    BY DEF Zero, Paid, Owed, Committed
  <2>2. PaidCharges = [t \in Threads |-> 0]
    BY <2>1 DEF PaidCharges
  <2>3. QED
    BY <2>2, SumZero DEF LedgerBalanced, Extra
<1>5. ChargesOfExperiment
  BY DEF Zero, ChargesOfExperiment, InExperimentPC, Residence, ClearedBetween, UnchargedBefore,
         ChargedLocally, Charging
<1>6. HitsAccounted
  <2>1. \A t \in Threads : Carried(t) = 0
    BY DEF Zero, Carried, Unflushed
  <2>2. CarriedOfAll = [t \in Threads |-> 0]
    BY <2>1 DEF CarriedOfAll
  <2>3. CarriedHits = 0
    BY <2>2, SumZero DEF CarriedHits
  <2>4. LoadedOnce
    BY DEF Zero, LoadedOnce
  <2>5. QED
    BY <2>3, <2>4 DEF HitsAccounted, HitsBalanced, HitBalance, ReadHitsCovered, UnwrittenHits
<1>7. QED
  BY <1>1, <1>2, <1>3, <1>4, <1>5, <1>6 DEF IInv, Base

\* Together they are an inductive invariant of every run.
THEOREM InductiveInvariant == Spec => []IInv
<1>1. IInv /\ [Next]_vars => IInv'
  BY BaseStep, SettlementStep, LedgerStep, ChargesStep, HitsStep DEF IInv
<1>2. QED
  BY InitOK, <1>1, PTL DEF Spec

\* Every variable keeps its type; in particular global_delay never goes negative and
\* no signal counter steps over the check period.
THEOREM TypeCorrect == Spec => []TypeOK
<1>1. IInv => TypeOK
  BY DEF IInv, Base
<1>2. QED
  BY InductiveInvariant, <1>1, PTL

\* A thread runs ahead of global_delay only by what it was charged since it settled
\* (Handle, addUserThread and removeUserThread against each other and the agent).
THEOREM NeverAheadOfItsCharge == Spec => []AheadOnlyByUnsettled
<1>1. IInv => AheadOnlyByUnsettled
  BY DEF IInv, Settlement
<1>2. QED
  BY InductiveInvariant, <1>1, PTL

\* What a handler, or removeUserThread where no handler settled within it, is about to
\* add to global_delay was charged to its own thread.
THEOREM PushesAreCovered == Spec => []PushIsCovered
<1>1. IInv => PushIsCovered
  BY DEF IInv, Settlement
<1>2. QED
  BY InductiveInvariant, <1>1, PTL

\* What a thread is about to sleep was charged to the others, or leaked.
LEMMA DelaysFromLedger ==
    ASSUME Base, Settlement, LedgerBalanced, ChargesOfExperiment
    PROVE  GlobalDelayIsBacked /\ NoSelfDelay
<1>0. PaidTypeOK /\ IsFiniteSet(Threads)
  BY PaidType, ConstantsAssumption
<1>1. /\ PaidCharges \in [Threads -> Int] /\ sampled \in [Threads -> Int]
      /\ \A u \in Threads : PaidCharges[u] <= sampled[u]
  BY <1>0 DEF PaidTypeOK, PaidCharges, Base, TypeOK
<1>2. global_delay \in Int /\ leaked \in Int /\ repushed \in Int
  BY DEF Base, TypeOK
<1>3. GlobalDelayIsBacked
  <2>1. SumFunctionOnSet(PaidCharges, Threads) <= SumFunctionOnSet(sampled, Threads)
    BY <1>0, <1>1, SumMonotone
  <2>2. SumFunctionOnSet(PaidCharges, Threads) \in Int /\ SumFunctionOnSet(sampled, Threads) \in Int
    BY <1>0, <1>1, SumSplit
  <2>3. QED
    BY <1>2, <2>1, <2>2 DEF GlobalDelayIsBacked, LedgerBalanced, Extra
<1>4. ASSUME NEW t \in Threads \ stale, handler_pc[t] = "sleep"
      PROVE  sleep_diff[t] <= SumFunctionOnSet(sampled, Threads \ {t}) + leaked + repushed
  <2>1. sampled[t] <= local_delay[t]
    <3>1. thread_pc[t] # "dead"
      BY <1>4 DEF ChargesOfExperiment, Residence
    <3>2. QED
      BY <1>4, <3>1 DEF ChargesOfExperiment, ChargedLocally, Charging
  <2>2. local_delay[t] + sleep_diff[t] <= global_delay
    BY <1>4 DEF Settlement, DifferenceKept
  <2>3. SumFunctionOnSet(PaidCharges, Threads) = PaidCharges[t] + SumFunctionOnSet(PaidCharges, Threads \ {t})
    BY <1>0, <1>1, SumSplit
  <2>4. SumFunctionOnSet(PaidCharges, Threads \ {t}) <= SumFunctionOnSet(sampled, Threads \ {t})
    BY <1>0, <1>1, SumMonotone
  <2>5. /\ SumFunctionOnSet(PaidCharges, Threads \ {t}) \in Int
        /\ SumFunctionOnSet(sampled, Threads \ {t}) \in Int
    BY <1>0, <1>1, SumSplit
  <2>6. /\ PaidCharges[t] \in Int /\ sampled[t] \in Int /\ PaidCharges[t] <= sampled[t]
        /\ local_delay[t] \in Int /\ sleep_diff[t] \in Int
    BY <1>1, <1>4 DEF Base, TypeOK
  <2>7. global_delay <= SumFunctionOnSet(PaidCharges, Threads) + leaked + repushed
    BY <1>2, <2>3, <2>5, <2>6 DEF LedgerBalanced, Extra
  <2>8. global_delay <= PaidCharges[t] + SumFunctionOnSet(PaidCharges, Threads \ {t}) + leaked + repushed
    BY <2>3, <2>7
  <2>9. QED
    BY <1>2, <2>1, <2>2, <2>4, <2>5, <2>6, <2>8
<1>5. QED
  BY <1>3, <1>4 DEF NoSelfDelay

\* Every unit of global_delay was charged to a thread in this experiment, or brought
\* over from an earlier one, or pushed by a removeUserThread in the middle of which a
\* handler settled, whatever the order in which threads test, push and leave.
THEOREM DelayIsBacked == Spec => []GlobalDelayIsBacked
<1>1. IInv => GlobalDelayIsBacked
  BY DelaysFromLedger DEF IInv
<1>2. QED
  BY InductiveInvariant, <1>1, PTL

\* A thread sleeps in its handler for the others' charges only.
THEOREM NobodyDelaysItself == Spec => []NoSelfDelay
<1>1. IInv => NoSelfDelay
  BY DelaysFromLedger DEF IInv
<1>2. QED
  BY InductiveInvariant, <1>1, PTL

\* No hit is counted more than twice on its way into the output, and twice only if
\* removeUserThread found it in its thread's counter.
THEOREM HitsNotInvented == Spec => []HitsNeverInvented
<1>1. IInv => HitsNeverInvented
  BY HitsFromBalance DEF IInv, HitsAccounted
<1>2. QED
  BY InductiveInvariant, <1>1, PTL


-----------------------------------------------------------------------------
(* The baseline, undisturbed *)

\* Nobody arrives, nobody leaves, and every signal a thread takes has its effect.
SettledThreads == Early = Threads /\ Leaving = {} /\ ~TraceErrors

AllLive ==
    /\ user_threads = Threads
    /\ \A t \in Threads : thread_pc[t] \in {"live", "hit"}

\* Nothing is left of an experiment that was carried through: global_delay is reset,
\* and a handler still running is one of the sampling branch.
NothingLeft ==
    agent_pc \in {"record", "sampling", "sampled"} \/ (agent_pc = "loop" /\ running) =>
        /\ global_delay = 0
        /\ \A t \in Threads : handler_pc[t] \in {"idle", "sample"}

\* The sampling loop makes every thread forget its charge.
ForgettingCharges ==
    agent_pc = "sampled" =>
        \A t \in Threads : t \in pending \/ handler_pc[t] = "sample" \/ local_delay[t] = 0

\* In a baseline experiment nothing is charged, so nobody settles anything.
NothingCharged ==
    /\ global_delay = 0
    /\ \A t \in Threads :
         /\ local_delay[t] = 0 /\ handler_pc[t] # "sleep"
         /\ handler_pc[t] = "push" => sleep_diff[t] = 0

BaselineQuiet ==
    /\ agent_pc \in {"zeroHits", "choose"} => NothingCharged
    /\ agent_pc \in {"rounds", "signal", "endSignal", "check", "readHits", "resetHits", "resetDelay", "record"}
       /\ current_experiment.speedup = 0 =>
          /\ current_experiment.delay = 0
          /\ agent_pc # "record" => NothingCharged

QuietInv ==
    /\ Base /\ InExperimentPC /\ AllLive
    /\ SleepsOutlastHandlers /\ SamplingOutlastsHandlers
    /\ NothingLeft /\ ForgettingCharges /\ BaselineQuiet

\* A step of a quiet run keeps its baselines quiet.
LEMMA QuietStep ==
    ASSUME SettledThreads, QuietInv, [QuietNext]_vars
    PROVE  QuietInv'
<1> DEFINE Kept == (InExperimentPC /\ AllLive /\ NothingLeft /\ ForgettingCharges /\ BaselineQuiet)'
<1> SUFFICES Kept
  <2>1. Base'
    BY BaseStep DEF QuietInv, QuietNext
  <2>2. (SleepsOutlastHandlers /\ SamplingOutlastsHandlers)'
    BY DEF QuietInv, QuietNext, SleepsOutlastHandlers, SamplingOutlastsHandlers, HandlersDone,
           vars, agentVars, signalVars
  <2>3. QED
    BY <2>1, <2>2 DEF QuietInv
<1> USE DEF QuietInv, Base, TypeOK, Fields, SettledThreads, InExperimentPC, AllLive, NothingLeft,
            ForgettingCharges, BaselineQuiet, NothingCharged, SleepsOutlastHandlers, SamplingOutlastsHandlers, HandlersDone,
            vars, agentVars, signalVars, delayVars
<1>1. CASE AgentLoop
  BY <1>1 DEF AgentLoop, AgentGoto
<1>2. CASE SampleRound
  BY <1>2 DEF SampleRound, SignalUserThreads
<1>3. CASE NoFrameInScope
  BY <1>3 DEF NoFrameInScope, AgentGoto
<1>4. CASE BeginExperiment /\ SamplingOutlastsHandlers'
  BY <1>4 DEF BeginExperiment, AgentGoto
<1>5. CASE ZeroHits
  BY <1>5 DEF ZeroHits, AgentGoto
<1>6. CASE ChooseSpeedup
  BY <1>6 DEF ChooseSpeedup, AgentGoto
<1>7. CASE EnterRound
  BY <1>7 DEF EnterRound, AgentGoto
<1>8. CASE SignalRound
  BY <1>8 DEF SignalRound, AgentGoto, SignalUserThreads
<1>9. CASE EndExperiment
  BY <1>9 DEF EndExperiment, AgentGoto
<1>10. CASE EndSignal
  BY <1>10 DEF EndSignal, AgentGoto, SignalUserThreads
<1>11. CASE AbandonExperiment
  BY <1>11 DEF AbandonExperiment, AgentGoto
<1>12. CASE ReadDelay
  BY <1>12 DEF ReadDelay, AgentGoto
<1>13. CASE ReadHits
  BY <1>13 DEF ReadHits, AgentGoto
<1>14. CASE ResetHits
  BY <1>14 DEF ResetHits, AgentGoto
<1>15. CASE ResetDelay
  BY <1>15 DEF ResetDelay, AgentGoto
<1>16. CASE Record
  BY <1>16 DEF Record, AgentGoto
<1>17. CASE DropBadSample
  BY <1>17 DEF DropBadSample, AgentGoto
<1>18. ASSUME NEW t \in Threads, Deliver(t) PROVE Kept
  BY <1>18 DEF Deliver, HandlerGoto, TakeSignal
<1>19. ASSUME NEW t \in Threads, SampleBranch(t) PROVE Kept
  BY <1>19 DEF SampleBranch, Forget, Leaves, HandlerGoto
<1>20. ASSUME NEW t \in Threads, CountSignal(t) PROVE Kept
  <2>1. PICK charge \in Charges : local_delay' = [local_delay EXCEPT ![t] = @ + charge]
    BY <1>20 DEF CountSignal
  <2>2. /\ UNCHANGED <<agentVars, signalVars, global_delay, sleep_diff, thread_pc>>
        /\ handler_pc[t] = "count"
        /\ \E next \in {"check", "flush"} : handler_pc' = [handler_pc EXCEPT ![t] = next]
    BY <1>20 DEF CountSignal, HandlerGoto
  <2>3. agent_pc \notin {"record", "sampling", "sampled", "zeroHits", "choose"} /\ ~(agent_pc = "loop" /\ running)
    BY <2>2
  <2>4. InExperimentPC' /\ AllLive' /\ NothingLeft' /\ ForgettingCharges'
    BY <2>2, <2>3
  <2>5. NothingCharged /\ current_experiment.delay = 0 => NothingCharged'
    BY <2>1, <2>2 DEF Charges
  <2>6. BaselineQuiet'
    BY <2>2, <2>3, <2>5
  <2>7. QED
    BY <2>4, <2>6
<1>21. ASSUME NEW t \in Threads, CheckDelay(t) PROVE Kept
  BY <1>21 DEF CheckDelay, HandlerGoto, Lag
<1>22. ASSUME NEW t \in Threads, SettleSleep(t) PROVE Kept
  BY <1>22 DEF SettleSleep, HandlerGoto
<1>23. ASSUME NEW t \in Threads, SettlePush(t) PROVE Kept
  BY <1>23 DEF SettlePush, HandlerGoto, Surplus
<1>24. ASSUME NEW t \in Threads, Flush(t) PROVE Kept
  BY <1>24 DEF Flush, HandlerGoto
<1>25. ASSUME NEW t \in Threads, IgnoreSignal(t) PROVE Kept
  BY <1>25 DEF IgnoreSignal
<1>26. ASSUME NEW t \in Threads, HitProgressPoint(t) PROVE Kept
  BY <1>26 DEF HitProgressPoint, ThreadGoto
<1>27. ASSUME NEW t \in Threads, AddHit(t) PROVE Kept
  BY <1>27 DEF AddHit, ThreadGoto
<1>28. ASSUME NEW t \in Threads,
               \/ ThreadStart(t) \/ Register(t) \/ ExitLoad(t) \/ ExitFlush(t) \/ ExitClear(t)
               \/ ExitReadGlobal(t) \/ ExitDiff(t) \/ ExitSleep(t) \/ ExitPush(t) \/ ExitErase(t)
      PROVE Kept
  BY <1>28 DEF ThreadStart, Register, ExitLoad, ExitFlush, ExitClear, ExitReadGlobal, ExitDiff, ExitSleep,
               ExitPush, ExitErase, ThreadGoto
<1>29. CASE StopHit
  BY <1>29 DEF StopHit, StopGoto
<1>30. CASE StopRunning
  BY <1>30 DEF StopRunning, StopGoto
<1>31. CASE Stopped
  BY <1>31 DEF Stopped, StopGoto
<1>32. CASE UNCHANGED vars
  BY <1>32
<1>33. QED
  BY <1>1, <1>2, <1>3, <1>4, <1>5, <1>6, <1>7, <1>8, <1>9, <1>10, <1>11, <1>12,
     <1>13, <1>14, <1>15, <1>16, <1>17, <1>18, <1>19, <1>20, <1>21, <1>22, <1>23,
     <1>24, <1>25, <1>26, <1>27, <1>28, <1>29, <1>30, <1>31, <1>32
  DEF QuietNext, Next, AgentNext, LeaveSampling, Stop, Handler, ThreadCode

\* The run starts quiet.
LEMMA QuietInit == SettledThreads /\ Init => QuietInv
<1> SUFFICES ASSUME SettledThreads, Init PROVE QuietInv
  OBVIOUS
<1>1. Base
  BY InitOK DEF IInv
<1>2. QED
  BY <1>1 DEF Init, Zero, QuietInv, SettledThreads, InExperimentPC, AllLive, NothingLeft,
              ForgettingCharges, BaselineQuiet, SleepsOutlastHandlers, SamplingOutlastsHandlers, HandlersDone

\* If the agent's sleeps are long enough for every handler, and no thread arrives or
\* leaves, the line of a baseline experiment never shows a delay.
THEOREM BaselineUndisturbed == SettledThreads => (QuietSpec => []BaselineHasNoDelay)
<1> SUFFICES ASSUME SettledThreads PROVE QuietSpec => []BaselineHasNoDelay
  OBVIOUS
<1>1. Init => QuietInv
  BY QuietInit
<1>2. QuietInv /\ [QuietNext]_vars => QuietInv'
  BY QuietStep
<1>3. QuietInv => BaselineHasNoDelay
  BY DEF QuietInv, BaselineQuiet, BaselineHasNoDelay
<1>4. QED
  BY <1>1, <1>2, <1>3, PTL DEF QuietSpec

=============================================================================
