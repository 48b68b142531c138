-------------------------- MODULE TrainingRunProofs --------------------------
(***************************************************************************)
(* Proofs about TrainingRun: marks, checkpoints and the results of a       *)
(* process, for every size of the vector, the rollout and the intervals,   *)
(* every number of seeds and of deaths.                                    *)
(***************************************************************************)
EXTENDS TrainingRun, TLAPS

-----------------------------------------------------------------------------
(* Marks *)

(* The multiple of an interval below an amount of steps, and the next one. *)
LEMMA Quotient ==
    ASSUME NEW n \in Nat, NEW f \in Nat \ {0}
    PROVE  /\ n \div f \in Nat
           /\ f * (n \div f) <= n
           /\ n < f * (n \div f) + f
<1>1. n \div f \in Nat
  OBVIOUS
<1>2. f * (n \div f) <= n
  OBVIOUS
<1>3. n < f * (n \div f) + f
  OBVIOUS
<1> QED
  BY <1>1, <1>2, <1>3

(* An amount without a remainder is a multiple. *)
LEMMA IsMultiple ==
    ASSUME NEW n \in Int, NEW f \in Nat \ {0}, n % f = 0
    PROVE  \E k \in Int : n = f * k
OBVIOUS

(* A multiple leaves no remainder. *)
LEMMA NoRemainder ==
    ASSUME NEW n \in Int, NEW f \in Nat \ {0}, NEW k \in Int, n = f * k
    PROVE  n % f = 0
OBVIOUS

(* A mark that was reached is moved past the steps taken, by no more than  *)
(* one interval, and stays a multiple of it.                               *)
LEMMA NextMark ==
    ASSUME NEW next \in Nat, NEW f \in Nat \ {0}, NEW n \in Nat, n >= next
    PROVE  LET mark == next + f * (1 + (n - next) \div f)
           IN  /\ mark \in Nat
               /\ n < mark /\ mark <= n + f
               /\ next % f = 0 => mark % f = 0
<1> DEFINE q == (n - next) \div f
           mark == next + f * (1 + q)
<1>1. n - next \in Nat
  OBVIOUS
<1>2. q \in Nat /\ f * q <= n - next /\ n - next < f * q + f
  BY <1>1, Quotient
<1> HIDE DEF q
<1>3. f * (1 + q) = f + f * q /\ f * q \in Nat
  BY <1>2
<1>4. mark \in Nat /\ n < mark /\ mark <= n + f
  BY <1>2, <1>3
<1>5. ASSUME next % f = 0 PROVE mark % f = 0
  <2>1. PICK k \in Int : next = f * k
    BY <1>5, IsMultiple
  <2>2. mark = f * (k + (1 + q))
    BY <1>2, <2>1
  <2> QED
    BY <1>2, <1>4, <2>2, NoRemainder
<1> QED
  BY <1>4, <1>5 DEF q

(* The first mark after some steps. *)
LEMMA FirstMark ==
    ASSUME NEW n \in Nat, NEW f \in Nat \ {0}
    PROVE  LET mark == (n \div f + 1) * f
           IN  /\ mark \in Nat
               /\ n < mark /\ mark <= n + f
               /\ mark % f = 0
<1> DEFINE q == n \div f
<1>1. q \in Nat /\ f * q <= n /\ n < f * q + f
  BY Quotient
<1> HIDE DEF q
<1>2. (q + 1) * f = f * q + f /\ f * q \in Nat /\ (q + 1) * f = f * (q + 1)
  BY <1>1
<1>3. ((q + 1) * f) % f = 0
  BY <1>1, <1>2, NoRemainder
<1> QED
  BY <1>1, <1>2, <1>3 DEF q

(* The largest of a set of steps that has a largest. *)
LEMMA MaxOf ==
    ASSUME NEW S \in SUBSET Nat, NEW m \in S, \A c \in S : c <= m
    PROVE  Max(S) = m
<1>1. \E x \in S : \A y \in S : x >= y
  OBVIOUS
<1>2. Max(S) \in S /\ \A y \in S : Max(S) >= y
  BY <1>1 DEF Max
<1>3. m \in Nat /\ Max(S) \in Nat /\ Max(S) >= m /\ Max(S) <= m
  BY <1>2
<1> QED
  BY <1>3

(* Constants are numbers. *)
LEMMA Numbers ==
    /\ NEnvs \in Nat \ {0} /\ RolloutSteps \in Nat \ {0} /\ Total \in Nat \ {0}
    /\ SaveFreq \in Nat \ {0} /\ ViaFreq \in Nat \ {0} /\ MaxSeeds \in Nat \ {0}
    /\ EvalFreq \in Nat \ {0} /\ EvalFreq <= Total
BY TrainingAssumption DEF EvalFreq

-----------------------------------------------------------------------------
(* Types.  A largest checkpoint exists because steps only grow while       *)
(* checkpoints are written.                                                *)

Collecting == {"collect", "callbacks", "update"}

HasMax(S) == S = {} \/ \E m \in S : \A c \in S : c <= m

Sound ==
    /\ \A c \in ckpts : c <= t
    /\ HasMax(ckpts) /\ HasMax(checks)
    /\ pc = "collect" => collected < RolloutSteps
    /\ pc = "prepare" => t = LastSaved
    /\ pc \in Collecting => nextSave <= LastSaved + SaveFreq

TypeInv == TypeOK /\ Sound

(* The result of a seed that has none. *)
LEMMA NoResultType ==
    NoResult \in Result
BY DEF Result, NoResult, Reasons, BestStates

(* A process starts well typed. *)
LEMMA InitType == Init => TypeInv
<1> SUFFICES ASSUME Init PROVE TypeInv
  OBVIOUS
<1>1. SaveFreq % SaveFreq = 0
  BY Numbers, NoRemainder
<1>2. nseeds \in Seeds /\ seed \in 1 .. nseeds
  BY Numbers DEF Init, Seeds
<1>3. results \in [Seeds -> Result]
  BY NoResultType DEF Init
<1>4. {t, nextSave, nextEval, nextVia, inactive, crashes} \subseteq Nat
  BY Numbers DEF Init
<1>5. nextSave % SaveFreq = 0 /\ collected \in 0 .. RolloutSteps
  BY <1>1, Numbers DEF Init
<1>6. TypeOK
  BY <1>2, <1>3, <1>4, <1>5 DEF Init, TypeOK, Reasons, BestStates, Statuses
<1>7. Sound
  BY DEF Init, Sound, HasMax, LastSaved, Collecting
<1> QED
  BY <1>6, <1>7 DEF TypeInv

(* The last checkpoint is one of those on disk, or nothing. *)
LEMMA LastSavedType ==
    ASSUME TypeInv
    PROVE  /\ LastSaved \in Nat /\ LastSaved <= t
           /\ ckpts # {} => LastSaved = Max(ckpts)
           /\ \A c \in ckpts : c <= LastSaved
<1> USE DEF TypeInv
<1>1. CASE ckpts = {}
  BY <1>1 DEF LastSaved, TypeOK
<1>2. CASE ckpts # {}
  <2>1. PICK m \in ckpts : \A c \in ckpts : c <= m
    BY <1>2 DEF Sound, HasMax
  <2>2. Max(ckpts) = m
    BY <2>1, MaxOf DEF TypeOK
  <2> QED
    BY <1>2, <2>1, <2>2 DEF LastSaved, TypeOK, Sound
<1> QED
  BY <1>1, <1>2

(* Preparing a seed sets the marks after its steps. *)
LEMMA PrepareType == TypeInv /\ Prepare => TypeInv'
<1> SUFFICES ASSUME TypeInv, Prepare PROVE TypeInv'
  OBVIOUS
<1> USE DEF TypeInv
<1>1. /\ FirstSave \in Nat /\ t < FirstSave /\ FirstSave <= t + SaveFreq
      /\ FirstSave % SaveFreq = 0
  BY Numbers, FirstMark DEF TypeOK, FirstSave
<1>5. {t, nextSave, nextEval, nextVia, inactive, crashes}' \subseteq Nat
  BY <1>1, Numbers DEF Prepare, TypeOK
<1>6. nextSave' % SaveFreq = 0 /\ t' < nextSave' /\ collected' \in 0 .. RolloutSteps
  BY <1>1, Numbers DEF Prepare
<1>2. TypeOK'
  BY <1>5, <1>6 DEF Prepare, TypeOK, outcome, Reasons, BestStates
<1>3. LastSaved' = LastSaved
  BY DEF Prepare, LastSaved
<1>4. Sound'
  BY <1>1, <1>3, Numbers DEF Prepare, Sound, HasMax, Collecting
<1> QED
  BY <1>2, <1>4

(* A step of the vector passes a mark only with a checkpoint. *)
LEMMA VecStepType == TypeInv /\ VecStep => TypeInv'
<1> SUFFICES ASSUME TypeInv, VecStep PROVE TypeInv'
  OBVIOUS
<1> USE DEF TypeInv
<1>1. /\ pc = "collect" /\ pc' = "callbacks"
      /\ t' = t + NEnvs /\ collected' = collected + 1
      /\ UNCHANGED <<nseeds, seed, loaded, bestEval, abortCb, metric, outcome,
                     crashes, badAt>>
  BY DEF VecStep
<1>2. t \in Nat /\ t' \in Nat /\ t' > t
  BY <1>1, Numbers DEF TypeOK
<1>3. collected' \in 0 .. RolloutSteps
  BY <1>1, Numbers DEF TypeOK, Sound
<1>4. /\ nextSave' \in Nat /\ nextSave' % SaveFreq = 0 /\ t' < nextSave'
      /\ ckpts' \subseteq Nat /\ (\A c \in ckpts' : c <= t') /\ HasMax(ckpts')
      /\ nextSave' <= LastSaved' + SaveFreq
  <2>1. CASE t' >= nextSave
    <3>1. ckpts' = ckpts \cup {t'} /\ nextSave' = Crossed(nextSave, SaveFreq)
      BY <2>1 DEF VecStep, PeriodicSave
    <3>2. /\ nextSave' \in Nat /\ nextSave' % SaveFreq = 0 /\ t' < nextSave'
          /\ nextSave' <= t' + SaveFreq
      <4>1. nextSave \in Nat /\ nextSave % SaveFreq = 0
        BY DEF TypeOK
      <4>2. nextSave' = nextSave + SaveFreq * (1 + (t' - nextSave) \div SaveFreq)
        BY <3>1 DEF Crossed
      <4> QED
        BY <1>2, <2>1, <4>1, <4>2, Numbers, NextMark
    <3>3. ckpts' \in SUBSET Nat /\ t' \in ckpts' /\ \A c \in ckpts' : c <= t'
      BY <1>2, <3>1 DEF TypeOK, Sound
    <3>4. LastSaved' = t'
      BY <3>3, MaxOf DEF LastSaved
    <3> QED
      BY <3>2, <3>3, <3>4 DEF HasMax
  <2>2. CASE ~(t' >= nextSave)
    <3>1. ckpts' = ckpts /\ nextSave' = nextSave
      BY <2>2 DEF VecStep, PeriodicSave
    <3>2. LastSaved' = LastSaved
      BY <3>1 DEF LastSaved
    <3> QED
      BY <1>1, <1>2, <2>2, <3>1, <3>2 DEF TypeOK, Sound, Collecting
  <2> QED
    BY <2>1, <2>2
<1>5. TypeOK'
  BY <1>1, <1>2, <1>3, <1>4 DEF TypeOK, bestEval, abortCb, outcome
<1>6. Sound'
  BY <1>1, <1>4 DEF Sound, bestEval, Collecting, HasMax
<1> QED
  BY <1>5, <1>6

(* The callbacks keep their marks, reasons and the set of replays. *)
LEMMA CallbacksType == TypeInv /\ Callbacks => TypeInv'
<1> SUFFICES ASSUME TypeInv, Callbacks PROVE TypeInv'
  OBVIOUS
<1> USE DEF TypeInv
<1>1. /\ pc = "callbacks" /\ pc' \in {"fit", "update", "collect"}
      /\ pc' = "collect" => collected # RolloutSteps
      /\ UNCHANGED <<nseeds, seed, t, collected, loaded, ckpts, nextSave, metric,
                     outcome, crashes>>
  BY DEF Callbacks
<1>2. nonfinite' \in BOOLEAN /\ badAt' \in Nat \cup {None} /\ abort' \in Reasons
  BY DEF Callbacks, CheckAbort, Abort, Reasons, TypeOK
<1>3. best' \in BestStates /\ nextEval' \in Nat
  <2>1. CASE t >= nextEval
    <3>1. nextEval + EvalFreq * (1 + (t - nextEval) \div EvalFreq) \in Nat
      BY <2>1, Numbers, NextMark DEF TypeOK
    <3> QED
      BY <2>1, <3>1 DEF Callbacks, CheckRank, Rank, BestStates
  <2>2. CASE ~(t >= nextEval)
    BY <2>2 DEF Callbacks, CheckRank, TypeOK
  <2> QED
    BY <2>1, <2>2
<1>4. /\ inactive' \in Nat /\ checks' \subseteq Nat /\ HasMax(checks')
      /\ failure' \in Reasons /\ nextVia' \in Nat
  <2>1. CASE t >= nextVia
    <3>1. nextVia' \in Nat
      <4>1. nextVia + ViaFreq * (1 + (t - nextVia) \div ViaFreq) \in Nat
        BY <2>1, Numbers, NextMark DEF TypeOK
      <4> QED
        BY <2>1, <4>1 DEF Callbacks, CheckViability
    <3>2. PICK r \in {"trades", "failed", "idle", "no_candidates"} : Viability(r)
      BY <2>1 DEF Callbacks, CheckViability
    <3>3. inactive' \in Nat /\ failure' \in Reasons
      BY <3>2 DEF Viability, Consecutive, TypeOK, Reasons
    <3>4. \/ checks' = {} \/ checks' = {t}
          \/ (checks # {} /\ checks' = {t, Max(checks)})
      <4>0. checks' = IF r \in {"idle", "no_candidates"}
                      THEN {t} \cup IF checks = {} THEN {} ELSE {Max(checks)}
                      ELSE {}
        BY <3>2 DEF Viability
      <4>1. CASE r \in {"idle", "no_candidates"} /\ checks = {}
        <5>1. checks' = {t} \cup {}
          BY <4>0, <4>1
        <5> QED
          BY <5>1
      <4>2. CASE r \in {"idle", "no_candidates"} /\ checks # {}
        <5>1. checks' = {t} \cup {Max(checks)}
          BY <4>0, <4>2
        <5> QED
          BY <4>2, <5>1
      <4>3. CASE ~(r \in {"idle", "no_candidates"})
        BY <4>0, <4>3
      <4> QED
        BY <4>1, <4>2, <4>3
    <3>5. checks # {} => Max(checks) \in Nat
      <4> SUFFICES ASSUME checks # {} PROVE Max(checks) \in Nat
        OBVIOUS
      <4>1. PICK m \in checks : \A c \in checks : c <= m
        BY DEF Sound, HasMax
      <4> QED
        BY <4>1, MaxOf DEF TypeOK
    <3>6. t \in Nat
      BY DEF TypeOK
    <3>7. checks' \subseteq Nat /\ HasMax(checks')
      BY <3>4, <3>5, <3>6 DEF HasMax
    <3> QED
      BY <3>1, <3>3, <3>7
  <2>2. CASE ~(t >= nextVia)
    BY <2>2 DEF Callbacks, CheckViability, TypeOK, Sound
  <2> QED
    BY <2>1, <2>2
<1>5. TypeOK'
  BY <1>1, <1>2, <1>3, <1>4 DEF TypeOK, outcome
<1>6. LastSaved' = LastSaved
  BY <1>1 DEF LastSaved
<1>7. Sound'
  BY <1>1, <1>4, <1>6, Numbers DEF Sound, Collecting, TypeOK, HasMax
<1> QED
  BY <1>5, <1>7

(* The other steps of a process keep the types. *)
LEMMA NextType == TypeInv /\ [Next]_vars => TypeInv'
<1> SUFFICES ASSUME TypeInv, [Next]_vars PROVE TypeInv'
  OBVIOUS
<1> USE DEF TypeInv
<1>1. CASE Prepare
  BY <1>1, PrepareType
<1>2. CASE VecStep
  BY <1>2, VecStepType
<1>3. CASE Callbacks
  BY <1>3, CallbacksType
<1>4. CASE Update
  <2>1. TypeOK'
    BY <1>4, Numbers DEF Update, TypeOK, bestEval, outcome, LoggedNonfinite
  <2>2. LastSaved' = LastSaved
    BY <1>4 DEF Update, LastSaved
  <2>3. Sound'
    BY <1>4, <2>2, Numbers DEF Update, Sound, bestEval, Collecting, HasMax
  <2> QED
    BY <2>1, <2>3
<1>5. CASE RankLoaded
  <2>1. TypeOK'
    BY <1>5 DEF RankLoaded, Rank, TypeOK, abortCb, outcome, BestStates
  <2>2. Sound'
    BY <1>5 DEF RankLoaded, Sound, Collecting, HasMax
  <2> QED
    BY <2>1, <2>2
<1>6. CASE Fit
  <2>1. AbortReason \in Reasons
    BY DEF AbortReason, TypeOK
  <2>4. results' \in [Seeds -> Result]
    <3>1. results \in [Seeds -> Result] /\ t \in Nat /\ best \in BestStates
      BY DEF TypeOK
    <3>2. results' = [results EXCEPT ![seed] =
                        [results[seed] EXCEPT !.steps = t, !.reason = AbortReason,
                                              !.best = best]]
      BY <1>6 DEF Fit
    <3>3. results[seed] \in Result
          => [results[seed] EXCEPT !.steps = t, !.reason = AbortReason, !.best = best]
               \in Result
      BY <2>1, <3>1 DEF Result
    <3>4. seed \in Seeds
      BY Numbers DEF TypeOK, Seeds
    <3> QED
      BY <3>1, <3>2, <3>3, <3>4
  <2>2. TypeOK'
    BY <1>6, <2>4 DEF Fit, TypeOK, bestEval, abortCb
  <2>3. Sound'
    BY <1>6 DEF Fit, Sound, bestEval, Collecting, HasMax
  <2> QED
    BY <2>2, <2>3
<1>7. CASE Evaluate
  <2>1. /\ pc' \in {"prepare", "finalize"} /\ seed' \in 1 .. nseeds /\ nseeds' = nseeds
        /\ \/ t' = t /\ ckpts' = ckpts /\ pc' = "finalize"
           \/ t' = 0 /\ ckpts' = {}
    <3>1. nseeds \in Nat /\ seed \in 1 .. nseeds /\ nseeds' = nseeds
      BY <1>7, Numbers DEF Evaluate, TypeOK, Seeds
    <3>2. CASE seed < nseeds
      BY <1>7, <3>1, <3>2 DEF Evaluate
    <3>3. CASE ~(seed < nseeds)
      BY <1>7, <3>1, <3>3 DEF Evaluate
    <3> QED
      BY <3>2, <3>3
  <2>2. results' \in [Seeds -> Result]
    <3>1. results \in [Seeds -> Result] /\ seed \in Seeds
      BY Numbers DEF TypeOK, Seeds
    <3>2. PICK survival \in {"ok", "breach", "policy_miss"}, active \in BOOLEAN :
            results' = [results EXCEPT ![seed].survival = survival,
                                       ![seed].active = active]
      BY <1>7 DEF Evaluate
    <3>3. results' = [results EXCEPT ![seed] =
                        [results[seed] EXCEPT !.survival = survival, !.active = active]]
      BY <3>2
    <3>4. results[seed] \in Result
          => [results[seed] EXCEPT !.survival = survival, !.active = active] \in Result
      BY DEF Result
    <3> QED
      BY <3>1, <3>3, <3>4
  <2>3. TypeOK'
    BY <1>7, <2>1, <2>2 DEF Evaluate, TypeOK, bestEval, abortCb
  <2>4. Sound'
    BY <1>7, <2>1 DEF Evaluate, Sound, bestEval, Collecting, LastSaved, HasMax
  <2> QED
    BY <2>3, <2>4
<1>8. CASE Finalize
  <2>1. TypeOK'
    BY <1>8 DEF Finalize, TypeOK, bestEval, abortCb, Overall, ExitCode, Statuses
  <2>2. Sound'
    BY <1>8 DEF Finalize, Sound, bestEval, Collecting, HasMax
  <2> QED
    BY <2>1, <2>2
<1>9. CASE Crash
  <2>1. TypeOK'
    BY <1>9 DEF Crash, TypeOK, bestEval, abortCb, outcome
  <2>2. Sound'
    BY <1>9 DEF Crash, Sound, bestEval, Collecting, HasMax
  <2> QED
    BY <2>1, <2>2
<1>10. CASE Restart
  <2>1. /\ pc' = "prepare" /\ t' = LastSaved /\ t' \in Nat
        /\ loaded' \in Nat \cup {None} /\ ckpts' = ckpts
        /\ \A c \in ckpts' : c <= t'
    BY <1>10, LastSavedType DEF Restart, LastSaved
  <2>2. results' = [s \in Seeds |-> NoResult]
    BY <1>10 DEF Restart
  <2>3. results' \in [Seeds -> Result]
    BY <2>2, NoResultType
  <2>4. TypeOK'
    BY <1>10, <2>1, <2>3 DEF Restart, TypeOK, bestEval, abortCb
  <2>5. LastSaved' = LastSaved
    BY <2>1 DEF LastSaved
  <2>6. Sound'
    BY <1>10, <2>1, <2>5 DEF Restart, Sound, bestEval, Collecting, HasMax
  <2> QED
    BY <2>4, <2>6
<1>11. CASE UNCHANGED vars
  <2>1. TypeOK'
    BY <1>11 DEF vars, TypeOK
  <2>2. Sound'
    BY <1>11 DEF vars, Sound, Collecting, LastSaved, HasMax
  <2> QED
    BY <2>1, <2>2
<1> QED
  BY <1>1, <1>2, <1>3, <1>4, <1>5, <1>6, <1>7, <1>8, <1>9, <1>10, <1>11
  DEF Next, Step

(* Every variable keeps its type; a mark that was reached has its          *)
(* checkpoint.                                                             *)
THEOREM TrainingTypes == Spec => []TypeOK
<1>1. Init => TypeInv
  BY InitType
<1>2. TypeInv /\ [Next]_vars => TypeInv'
  BY NextType
<1>3. TypeInv => TypeOK
  BY DEF TypeInv
<1> QED
  BY <1>1, <1>2, <1>3, PTL DEF Spec

(* A process that dies loses less than one interval of checkpoints and one *)
(* step of the vector.                                                     *)
THEOREM LittleIsLost == Spec => []LittleLost
<1>1. Init => TypeInv
  BY InitType
<1>2. TypeInv /\ [Next]_vars => TypeInv'
  BY NextType
<1>3. TypeInv => LittleLost
  <2> SUFFICES ASSUME TypeInv, pc \in Collecting
               PROVE  t - LastSaved < SaveFreq + NEnvs
    BY DEF LittleLost, Collecting
  <2>1. /\ t < nextSave /\ nextSave <= LastSaved + SaveFreq
        /\ t \in Nat /\ nextSave \in Nat
    BY DEF TypeInv, TypeOK, Sound, Collecting
  <2>2. LastSaved \in Nat
    BY LastSavedType
  <2> QED
    BY <2>1, <2>2, Numbers
<1> QED
  BY <1>1, <1>2, <1>3, PTL DEF Spec

-----------------------------------------------------------------------------
(* Results.  A seed leaves fit either aborted or trained to the end with a *)
(* ranked policy.                                                          *)

Earned(r) == Aborted(r) \/ (Completed(r) /\ r.best # "unranked")

BadLately == badAt = None \/ badAt + Rollout >= t

(* A policy is not ranked yet: its first mark is still to come.            *)
RankInv ==
    pc \in Collecting /\ best = "unranked" =>
        nextEval = EvalFreq /\ (pc = "update" => t < nextEval)

(* A value that is not finite was met and is remembered, or is in the      *)
(* logger since the last update.                                           *)
BadInv ==
    /\ pc \in Collecting /\ badAt # None =>
         nonfinite \/ (metric /\ badAt + NEnvs * collected = t)
    /\ pc = "update" => ~nonfinite /\ collected = RolloutSteps
    /\ pc = "rank" => t >= Total /\ badAt = None

FitInv ==
    pc = "fit" => \/ AbortReason # "none"
                  \/ t >= Total /\ best # "unranked" /\ BadLately

ResultInv ==
    /\ \A s \in Seeds : Completed(results[s]) => Earned(results[s])
    /\ \A s \in Trained : s < seed => Earned(results[s])
    /\ pc \in {"evaluate", "finalize", "over"} =>
         Earned(results[seed]) /\ (Aborted(results[seed]) \/ BadLately)
    /\ pc \in {"finalize", "over"} => seed = nseeds
    /\ exit # None \/ status # "none" => pc = "over"
    /\ exit = 0 \/ status = "PASS_ACTIVE" => aborts = {}

EarnInv == RankInv /\ BadInv /\ FitInv /\ ResultInv

(* A new process has earned nothing. *)
LEMMA EarnInit == Init => EarnInv
<1> SUFFICES ASSUME Init PROVE EarnInv
  OBVIOUS
<1>1. pc = "prepare" /\ seed = 1 /\ exit = None /\ status = "none"
  BY DEF Init
<1>2. \A s \in Seeds : ~Completed(results[s])
  BY Numbers DEF Init, NoResult, Completed
<1>3. ~\E s \in Trained : s < seed
  BY <1>1 DEF Trained, Init, Seeds
<1> QED
  BY <1>1, <1>2, <1>3
  DEF EarnInv, RankInv, BadInv, FitInv, ResultInv, Collecting, None

(* The results of seeds are records, one for each trained seed. *)
LEMMA SeedType ==
    ASSUME TypeInv
    PROVE  /\ seed \in Seeds /\ seed \in Trained /\ Trained \subseteq Seeds
           /\ nseeds \in Nat /\ seed \in Nat /\ seed <= nseeds
           /\ results \in [Seeds -> Result]
BY Numbers DEF TypeInv, TypeOK, Seeds, Trained

(* What stays when results, seed and exit do. *)
LEMMA SameResults ==
    ASSUME ResultInv, UNCHANGED <<nseeds, seed, outcome>>,
           pc # "over", pc' \notin {"evaluate", "finalize", "over"}
    PROVE  ResultInv'
BY DEF ResultInv, outcome, Trained, aborts, None

(* No step of the training claims what is not earned. *)
LEMMA CollectEarned ==
    ASSUME TypeInv, EarnInv, Prepare \/ VecStep \/ Callbacks \/ Update
    PROVE  EarnInv'
<1> USE DEF EarnInv
<1>1. CASE Prepare
  <2>1. /\ pc = "prepare" /\ t <= Total /\ t' = t
        /\ pc' = IF t = Total THEN "rank" ELSE "collect"
        /\ nextEval' = EvalFreq /\ badAt' = None
        /\ UNCHANGED <<nseeds, seed, outcome>>
    BY <1>1 DEF Prepare
  <2>2. t \in Nat
    BY DEF TypeInv, TypeOK
  <2>3. ResultInv'
    BY <2>1, SameResults
  <2> QED
    BY <2>1, <2>2, <2>3, Numbers
    DEF RankInv, BadInv, FitInv, Collecting, EvalFreq
<1>2. CASE VecStep
  <2>1. /\ pc = "collect" /\ pc' = "callbacks"
        /\ t' = t + NEnvs /\ collected' = collected + 1
        /\ UNCHANGED <<nseeds, seed, best, nextEval, nonfinite, metric, badAt, outcome>>
    BY <1>2 DEF VecStep, bestEval, abortCb
  <2>2. /\ t \in Nat /\ collected \in Nat /\ badAt \in Nat \cup {None}
    BY DEF TypeInv, TypeOK
  <2>3. NEnvs * collected' = NEnvs * collected + NEnvs /\ NEnvs * collected \in Nat
    BY <2>1, <2>2, Numbers
  <2>4. ResultInv'
    BY <2>1, SameResults
  <2>5. RankInv'
    BY <2>1 DEF RankInv, Collecting, EvalFreq
  <2>6. BadInv'
    <3>1. badAt' # None => nonfinite' \/ (metric' /\ badAt + NEnvs * collected = t)
      BY <2>1 DEF BadInv, Collecting
    <3>2. badAt' # None => badAt \in Nat
      BY <2>1, <2>2
    <3>3. badAt' # None
          => nonfinite' \/ (metric' /\ badAt' + NEnvs * collected' = t')
      BY <2>1, <2>2, <2>3, <3>1, <3>2, Numbers
    <3> QED
      BY <2>1, <3>3 DEF BadInv
  <2> QED
    BY <2>1, <2>4, <2>5, <2>6 DEF FitInv
<1>3. CASE Callbacks
  <2>1. /\ pc = "callbacks" /\ CheckAbort /\ CheckRank
        /\ pc' = IF abort' # "none" \/ failure' # "none" THEN "fit"
                 ELSE IF collected = RolloutSteps THEN "update" ELSE "collect"
        /\ UNCHANGED <<nseeds, seed, t, collected, metric, outcome>>
    BY <1>3 DEF Callbacks
  <2>2. ResultInv'
    BY <2>1, SameResults
  <2>3. FitInv'
    BY <2>1 DEF FitInv, AbortReason
  <2>4. RankInv'
    <3>1. CASE t >= nextEval
      BY <2>1, <3>1 DEF RankInv, CheckRank, Rank
    <3>2. CASE ~(t >= nextEval)
      <4>1. best' = best /\ nextEval' = nextEval
        BY <2>1, <3>2 DEF CheckRank
      <4>2. t \in Nat /\ nextEval \in Nat
        BY DEF TypeInv, TypeOK
      <4> QED
        BY <2>1, <3>2, <4>1, <4>2 DEF RankInv, Collecting, EvalFreq
    <3> QED
      BY <3>1, <3>2
  <2>5. BadInv'
    <3>1. PICK bad \in BOOLEAN :
            /\ nonfinite' = (nonfinite \/ bad)
            /\ badAt' = IF bad /\ badAt = None THEN t ELSE badAt
      BY <2>1 DEF CheckAbort
    <3>2. nonfinite' => abort' # "none"
      BY <2>1 DEF CheckAbort, Abort
    <3>3. pc' \in Collecting => ~nonfinite' /\ badAt' = badAt /\ ~nonfinite
      BY <2>1, <3>1, <3>2 DEF Collecting
    <3>4. pc' \in {"fit", "update", "collect"}
      BY <2>1
    <3>5. pc' = "update" => collected' = RolloutSteps
      BY <2>1
    <3> QED
      BY <2>1, <3>3, <3>4, <3>5 DEF BadInv, Collecting
  <2> QED
    BY <2>2, <2>3, <2>4, <2>5
<1>4. CASE Update
  <2>1. /\ pc = "update" /\ pc' = IF t < Total THEN "collect" ELSE "fit"
        /\ collected' = 0 /\ t' = t
        /\ UNCHANGED <<nseeds, seed, best, nextEval, abort, failure, outcome>>
    BY <1>4 DEF Update, bestEval
  <2>2. t \in Nat /\ badAt \in Nat \cup {None} /\ nextEval \in Nat
    BY DEF TypeInv, TypeOK
  <2>3. ResultInv'
    BY <2>1, SameResults
  <2>4. RankInv'
    BY <2>1 DEF RankInv, Collecting, EvalFreq
  <2>5. PICK rollout \in BOOLEAN :
          /\ nonfinite' = LoggedNonfinite(rollout)
          /\ metric' \in BOOLEAN
          /\ badAt' = IF (rollout \/ metric') /\ badAt = None THEN t ELSE badAt
    BY <1>4 DEF Update
  <2>6. BadInv'
    <3>1. CASE badAt = None
      <4>1. badAt' # None => badAt' = t /\ (nonfinite' \/ metric')
        BY <2>5, <3>1 DEF LoggedNonfinite
      <4>2. NEnvs * collected' = 0
        BY <2>1, Numbers
      <4>3. badAt' # None => nonfinite' \/ (metric' /\ badAt' + NEnvs * collected' = t')
        BY <2>1, <2>2, <4>1, <4>2
      <4> QED
        BY <2>1, <4>3 DEF BadInv
    <3>2. CASE badAt # None
      <4>1. metric \/ nonfinite
        BY <2>1, <3>2 DEF BadInv, Collecting
      <4>2. nonfinite'
        BY <2>5, <4>1 DEF LoggedNonfinite
      <4> QED
        BY <2>1, <4>2 DEF BadInv
    <3> QED
      BY <3>1, <3>2
  <2>7. FitInv'
    <3> SUFFICES ASSUME pc' = "fit"
                 PROVE  t' >= Total /\ best' # "unranked" /\ BadLately'
      BY DEF FitInv
    <3>1. t >= Total
      BY <2>1, <2>2, Numbers
    <3>2. best # "unranked"
      BY <2>1, <2>2, <3>1, Numbers DEF RankInv, Collecting
    <3>3. badAt # None => badAt + Rollout = t
      BY <2>1 DEF BadInv, Collecting, Rollout
    <3>4. Rollout \in Nat
      BY Numbers DEF Rollout
    <3>5. badAt' = None \/ badAt' + Rollout >= t
      BY <2>2, <2>5, <3>3, <3>4
    <3> QED
      BY <2>1, <3>1, <3>2, <3>5 DEF BadLately, Rollout
  <2> QED
    BY <2>3, <2>4, <2>6, <2>7
<1> QED
  BY <1>1, <1>2, <1>3, <1>4

(* No step after the training, death or resumption does. *)
LEMMA EarnNext ==
    ASSUME TypeInv, EarnInv, [Next]_vars
    PROVE  EarnInv'
<1> USE DEF EarnInv
<1>1. CASE Prepare \/ VecStep \/ Callbacks \/ Update
  BY <1>1, CollectEarned
<1>2. CASE RankLoaded
  <2>1. /\ pc = "rank" /\ pc' = "fit" /\ best' # "unranked"
        /\ UNCHANGED <<nseeds, seed, t, badAt, outcome>>
    BY <1>2 DEF RankLoaded, Rank
  <2>2. ResultInv'
    BY <2>1, SameResults
  <2> QED
    BY <2>1, <2>2 DEF RankInv, BadInv, FitInv, BadLately, Rollout, Collecting
<1>3. CASE Fit
  <2>1. /\ pc = "fit" /\ pc' = "evaluate"
        /\ UNCHANGED <<nseeds, seed, t, badAt, status, exit>>
    BY <1>3 DEF Fit
  <2>2. results' = [results EXCEPT ![seed] =
                      [results[seed] EXCEPT !.steps = t, !.reason = AbortReason,
                                            !.best = best]]
    BY <1>3 DEF Fit
  <2>3. /\ results'[seed].steps = t /\ results'[seed].reason = AbortReason
        /\ results'[seed].best = best
    BY <2>2, SeedType DEF Result
  <2>4. \A s \in Seeds : s # seed => results'[s] = results[s]
    BY <2>2, SeedType
  <2>5. Earned(results'[seed]) /\ (Aborted(results'[seed]) \/ BadLately')
    BY <2>1, <2>3 DEF FitInv, Earned, Aborted, Completed, BadLately, Rollout
  <2>6. \A s \in Seeds : Completed(results'[s]) => Earned(results'[s])
    BY <2>4, <2>5 DEF ResultInv
  <2>7. \A s \in Trained : s < seed => Earned(results'[s])
    BY <2>4, SeedType DEF ResultInv
  <2>8. ResultInv'
    BY <2>1, <2>5, <2>6, <2>7 DEF ResultInv, Trained, None
  <2> QED
    BY <2>1, <2>8 DEF RankInv, BadInv, FitInv, Collecting
<1>4. CASE Evaluate
  <2>1. /\ pc = "evaluate" /\ UNCHANGED <<nseeds, badAt, status, exit>>
        /\ \/ pc' = "prepare" /\ seed' = seed + 1
           \/ pc' = "finalize" /\ UNCHANGED <<seed, t>> /\ ~(seed < nseeds)
    BY <1>4 DEF Evaluate
  <2>2. PICK survival \in {"ok", "breach", "policy_miss"}, active \in BOOLEAN :
          results' = [results EXCEPT ![seed].survival = survival,
                                     ![seed].active = active]
    BY <1>4 DEF Evaluate
  <2>3. results' = [results EXCEPT ![seed] =
                      [results[seed] EXCEPT !.survival = survival, !.active = active]]
    BY <2>2
  <2>4. /\ results'[seed].steps = results[seed].steps
        /\ results'[seed].reason = results[seed].reason
        /\ results'[seed].best = results[seed].best
    BY <2>3, SeedType DEF Result
  <2>5. \A s \in Seeds : s # seed => results'[s] = results[s]
    BY <2>3, SeedType
  <2>6. \A s \in Seeds : /\ results'[s].steps = results[s].steps
                          /\ results'[s].reason = results[s].reason
                          /\ results'[s].best = results[s].best
    BY <2>4, <2>5
  <2>7. Earned(results[seed]) /\ (Aborted(results[seed]) \/ BadLately)
    BY <2>1 DEF ResultInv
  <2>8. \A s \in Trained : s < seed + 1 => Earned(results'[s])
    <3> SUFFICES ASSUME NEW s \in Trained, s < seed + 1
                 PROVE  Earned(results'[s])
      OBVIOUS
    <3>1. s \in Seeds /\ (s = seed \/ s < seed)
      BY SeedType DEF Trained
    <3>2. Earned(results[s])
      BY <2>7, <3>1 DEF ResultInv
    <3> QED
      BY <2>6, <3>1, <3>2 DEF Earned, Completed, Aborted
  <2>9. seed' # seed + 1 => seed = nseeds
    BY <2>1, SeedType
  <2>10. \A s \in Seeds : Completed(results'[s]) => Earned(results'[s])
    <3> SUFFICES ASSUME NEW s \in Seeds, Completed(results'[s])
                 PROVE  Earned(results'[s])
      OBVIOUS
    <3>1. Completed(results[s])
      BY <2>6 DEF Completed
    <3>2. Earned(results[s])
      BY <3>1 DEF ResultInv
    <3> QED
      BY <2>6, <3>2 DEF Earned, Completed, Aborted
  <2>11. ResultInv'
    <3>1. CASE pc' = "prepare" /\ seed' = seed + 1
      BY <2>1, <2>8, <2>10, <3>1 DEF ResultInv, Trained, None
    <3>2. CASE pc' = "finalize" /\ UNCHANGED <<seed, t>>
      <4>1. Earned(results'[seed]) /\ (Aborted(results'[seed]) \/ BadLately')
        <5>1. Earned(results'[seed])
          BY <2>6, <2>7, SeedType DEF Earned, Completed, Aborted
        <5>2. BadLately' = BadLately
          BY <2>1, <3>2 DEF BadLately, Rollout
        <5>3. Aborted(results'[seed]) \/ BadLately
          BY <2>6, <2>7, SeedType DEF Earned, Completed, Aborted
        <5> QED
          BY <5>1, <5>2, <5>3
      <4>2. seed = nseeds
        BY <2>1, <3>2, SeedType
      <4>3. \A s \in Trained : s < seed => Earned(results'[s])
        BY <2>8, SeedType DEF Trained
      <4> QED
        BY <2>1, <2>10, <3>2, <4>1, <4>2, <4>3 DEF ResultInv, Trained, None
    <3> QED
      BY <2>1, <3>1, <3>2
  <2> QED
    BY <2>1, <2>11 DEF RankInv, BadInv, FitInv, Collecting
<1>5. CASE Finalize
  <2>1. /\ pc = "finalize" /\ pc' = "over"
        /\ UNCHANGED <<nseeds, seed, t, results, badAt>>
        /\ status' = Overall /\ exit' = ExitCode
    BY <1>5 DEF Finalize
  <2>2. ExitCode = 0 => aborts = {}
    BY DEF ExitCode
  <2>3. Overall = "PASS_ACTIVE" => aborts = {}
    BY DEF Overall
  <2>4. aborts' = aborts
    BY <2>1 DEF aborts, Trained
  <2>5. ResultInv'
    BY <2>1, <2>2, <2>3, <2>4 DEF ResultInv, Trained, BadLately, Rollout
  <2> QED
    BY <2>1, <2>5 DEF RankInv, BadInv, FitInv, Collecting
<1>6. CASE Crash
  <2>1. /\ pc # "over" /\ pc' = "down"
        /\ UNCHANGED <<nseeds, seed, outcome>>
    BY <1>6 DEF Crash
  <2>2. ResultInv'
    BY <2>1, SameResults
  <2> QED
    BY <2>1, <2>2 DEF RankInv, BadInv, FitInv, Collecting
<1>7. CASE Restart
  <2>1. /\ pc = "down" /\ pc' = "prepare" /\ nseeds = 1
        /\ results' = [s \in Seeds |-> NoResult]
        /\ UNCHANGED <<nseeds, seed, status, exit>>
    BY <1>7 DEF Restart
  <2>2. \A s \in Seeds : ~Completed(results'[s])
    BY <2>1, Numbers DEF NoResult, Completed
  <2>3. ~\E s \in Trained : s < seed
    BY <2>1, SeedType DEF Trained
  <2>4. ResultInv'
    BY <2>1, <2>2, <2>3 DEF ResultInv, Trained, None
  <2> QED
    BY <2>1, <2>4 DEF RankInv, BadInv, FitInv, Collecting
<1>8. CASE UNCHANGED vars
  <2>1. RankInv' /\ BadInv' /\ FitInv'
    BY <1>8 DEF vars, bestEval, abortCb, RankInv, BadInv, FitInv, AbortReason, BadLately,
                Rollout, EvalFreq
  <2>2. ResultInv'
    BY <1>8 DEF vars, outcome, ResultInv, Trained, aborts, BadLately, Rollout
  <2> QED
    BY <2>1, <2>2
<1> QED
  BY <1>1, <1>2, <1>3, <1>4, <1>5, <1>6, <1>7, <1>8 DEF Next, Step

(* The invariants of the results, for every behaviour. *)
LEMMA AlwaysEarned == Spec => [](TypeInv /\ EarnInv)
<1>1. Init => TypeInv /\ EarnInv
  BY InitType, EarnInit
<1>2. TypeInv /\ EarnInv /\ [Next]_vars => (TypeInv /\ EarnInv)'
  BY NextType, EarnNext
<1> QED
  BY <1>1, <1>2, PTL DEF Spec

(* Exit code zero means that every seed was trained to the end.            *)
THEOREM ExitZero == Spec => []ExitZeroCompletes
<1>1. TypeInv /\ EarnInv => ExitZeroCompletes
  <2> SUFFICES ASSUME TypeInv, EarnInv, exit = 0, NEW s \in Trained
               PROVE  Completed(results[s]) /\ ~Aborted(results[s])
    BY DEF ExitZeroCompletes
  <2>1. pc = "over" /\ seed = nseeds /\ aborts = {}
    BY DEF EarnInv, ResultInv, None
  <2>2. ~Aborted(results[s])
    BY <2>1 DEF aborts
  <2>3. s < seed \/ s = seed
    BY <2>1, SeedType DEF Trained
  <2>4. Earned(results[s])
    BY <2>1, <2>3 DEF EarnInv, ResultInv
  <2> QED
    BY <2>2, <2>4 DEF Earned
<1> QED
  BY <1>1, AlwaysEarned, PTL

(* A seed trained to the end has a ranked policy, and a run that passes    *)
(* has seen a value that is not finite at most in its last rollout.        *)
THEOREM EarnedResults == Spec => []ResultsAreEarned
<1>1. TypeInv /\ EarnInv => ResultsAreEarned
  <2> SUFFICES ASSUME TypeInv, EarnInv PROVE ResultsAreEarned
    OBVIOUS
  <2>1. \A s \in Seeds : Completed(results[s]) /\ ~Aborted(results[s])
                          => results[s].best # "unranked"
    BY DEF EarnInv, ResultInv, Earned
  <2>2. ASSUME status = "PASS_ACTIVE" PROVE badAt = None \/ badAt + Rollout >= t
    <3>1. pc = "over" /\ aborts = {}
      BY <2>2 DEF EarnInv, ResultInv
    <3>2. ~Aborted(results[seed])
      BY <3>1, SeedType DEF aborts
    <3> QED
      BY <3>1, <3>2 DEF EarnInv, ResultInv, BadLately
  <2> QED
    BY <2>1, <2>2 DEF ResultsAreEarned
<1> QED
  BY <1>1, AlwaysEarned, PTL
=============================================================================
