------------------------------ MODULE TrainingRun -----------------------------
(***************************************************************************)
(* training/runner/seed_runtime.py, reporting_runtime.py and the callbacks *)
(* of learning/rl/callbacks.py: one training process.  For each seed it    *)
(* builds a model, or loads a checkpoint, lets PPO collect rollouts of     *)
(* NEnvs steps at a time under its callbacks (periodic checkpoints, early  *)
(* abort, ranking of policies, viability of the training calendar), saves  *)
(* the final model, replays both splits and judges them; the judgements of *)
(* all seeds become the status in training_log.json and the exit code.     *)
(* A process that dies is started again on its latest checkpoint.          *)
(* What a policy earns, whether a metric is finite and how a replay is     *)
(* judged are chosen nondeterministically.                                 *)
(***************************************************************************)
EXTENDS Integers, FiniteSets, FiniteSetsExt

CONSTANTS
    MaxSeeds,      \* bound on the seeds of the process
    NEnvs,         \* environments of the vector
    RolloutSteps,  \* steps of the vector in a rollout
    Total,         \* timesteps asked for
    SaveFreq,      \* ppo.checkpoint_freq
    ViaFreq,       \* steps between viability replays
    CollapseAt,    \* steps before a collapse stops a run
    EntryMachine,  \* the entry state machine is on
    MaxCrashes     \* bound on the deaths of the process

(* As configured: NEnvs is a power of two up to 64, SaveFreq a million and  *)
(* Total a multiple of both, a rollout some thousand steps.                *)
ASSUME TrainingAssumption ==
    /\ {MaxSeeds, NEnvs, RolloutSteps, Total, SaveFreq, ViaFreq} \subseteq Nat \ {0}
    /\ {CollapseAt, MaxCrashes} \subseteq Nat
    /\ EntryMachine \in BOOLEAN
    /\ Total % NEnvs = 0 /\ Total % SaveFreq = 0
    /\ NEnvs * RolloutSteps < SaveFreq + NEnvs

Seeds   == 1 .. MaxSeeds
Rollout == NEnvs * RolloutSteps

VARIABLES
    pc,         \* where the process is
    nseeds,     \* seeds of the process
    seed,
    t,          \* model.num_timesteps
    collected,  \* vector steps of this rollout
    loaded,     \* steps of the checkpoint the model came from
    ckpts,      \* steps of the checkpoints on disk
    nextSave,   \* PeriodicCheckpointCallback._next_save
    nextEval,   \* BestCheckpointEvalCallback._next_eval_at
    nextVia,    \* BestCheckpointEvalCallback._next_viability_eval_at
    inactive,   \* consecutive_inactive_viability_evals
    failure,    \* viability_failure_reason
    best,       \* best_checkpoint_status
    nonfinite,  \* EarlyAbortCallback._nonfinite
    abort,      \* EarlyAbortCallback.reason
    metric,     \* the logger holds a value that is not finite
    results,    \* what build_result returns for each seed
    status,     \* overall_status
    exit,       \* exit code
    crashes,
    badAt,      \* steps at the first value that is not finite
    checks      \* steps of the last inactive viability replays

vars == <<pc, nseeds, seed, t, collected, loaded, ckpts, nextSave, nextEval, nextVia,
          inactive, failure, best, nonfinite, abort, metric, results, status,
          exit, crashes, badAt, checks>>

bestEval == <<nextEval, nextVia, inactive, failure, best, checks>>
abortCb  == <<nonfinite, abort>>
outcome  == <<results, status, exit>>

None == -1

NoResult == [steps |-> 0, reason |-> "none", survival |-> "none",
             active |-> FALSE, best |-> "unranked"]

Init ==
    /\ nseeds \in Seeds
    /\ pc = "prepare" /\ seed = 1 /\ t = 0 /\ collected = 0 /\ loaded = None
    /\ ckpts = {} /\ nextSave = SaveFreq
    /\ nextEval = 0 /\ nextVia = 0 /\ inactive = 0 /\ failure = "none"
    /\ best = "unranked" /\ checks = {}
    /\ nonfinite = FALSE /\ abort = "none" /\ metric = FALSE /\ badAt = None
    /\ results = [s \in Seeds |-> NoResult]
    /\ status = "none" /\ exit = None /\ crashes = 0

-----------------------------------------------------------------------------
(* SeedRunner.prepare_training and the callbacks of train_model *)

(* PeriodicCheckpointCallback._init_callback *)
FirstSave == (t \div SaveFreq + 1) * SaveFreq

(* best_eval_freq *)
EvalFreq == IF ViaFreq < Total THEN ViaFreq ELSE Total

(* A checkpoint beyond the steps asked for is refused, with no step left   *)
(* learn is not called.                                                    *)
Prepare ==
    /\ pc = "prepare" /\ t <= Total
    /\ pc' = IF t = Total THEN "rank" ELSE "collect"
    /\ collected' = 0 /\ nextSave' = FirstSave
    /\ nextEval' = EvalFreq /\ nextVia' = ViaFreq
    /\ inactive' = 0 /\ failure' = "none" /\ best' = "unranked" /\ checks' = {}
    /\ nonfinite' = FALSE /\ abort' = "none" /\ metric' = FALSE /\ badAt' = None
    /\ UNCHANGED <<nseeds, seed, t, loaded, ckpts, outcome, crashes>>

-----------------------------------------------------------------------------
(* PPO and its callbacks *)

Crossed(next, freq) == next + freq * (1 + (t' - next) \div freq)

(* Mutation: checkpoints wait for the end of the rollout. *)
SaveAtRollouts ==
    IF t' >= nextSave /\ collected' = RolloutSteps
    THEN /\ ckpts' = ckpts \cup {t'}
         /\ nextSave' = Crossed(nextSave, SaveFreq)
    ELSE UNCHANGED <<ckpts, nextSave>>

(* Mutation: calls of the vector are counted, not steps of environments. *)
SaveEveryCalls ==
    IF t' >= nextSave
    THEN /\ ckpts' = ckpts \cup {t'}
         /\ nextSave' = Crossed(nextSave, SaveFreq * NEnvs)
    ELSE UNCHANGED <<ckpts, nextSave>>

(* PeriodicCheckpointCallback._on_step *)
PeriodicSave ==
    IF t' >= nextSave
    THEN /\ ckpts' = ckpts \cup {t'}
         /\ nextSave' = Crossed(nextSave, SaveFreq)
    ELSE UNCHANGED <<ckpts, nextSave>>

(* One step of the vector, and the checkpoint callback. *)
VecStep ==
    /\ pc = "collect" /\ pc' = "callbacks"
    /\ t' = t + NEnvs /\ collected' = collected + 1
    /\ PeriodicSave
    /\ UNCHANGED <<nseeds, seed, loaded, bestEval, abortCb, metric, outcome, crashes,
                   badAt>>

(* decide_early_abort; the stops on no trades and on breaches are off by   *)
(* default and left out.                                                   *)
Abort == IF nonfinite' THEN "nonfinite" ELSE "none"

(* EarlyAbortCallback._on_step; the episodes that end here may report a    *)
(* value that is not finite.                                               *)
CheckAbort ==
    /\ \E bad \in BOOLEAN :
          /\ nonfinite' = (nonfinite \/ bad)
          /\ badAt' = IF bad /\ badAt = None THEN t ELSE badAt
    /\ abort' = Abort

(* _run_eval *)
Rank ==
    best' \in {"NO_ACTIVE_CHECKPOINT", "ACTIVE_CHECKPOINT_AVAILABLE"}

CheckRank ==
    IF t >= nextEval
    THEN Rank /\ nextEval' = nextEval + EvalFreq * (1 + (t - nextEval) \div EvalFreq)
    ELSE UNCHANGED <<best, nextEval>>

(* consecutive_inactive_viability_evals *)
Consecutive(replay) ==
    IF replay \in {"idle", "no_candidates"} THEN inactive + 1 ELSE 0

(* _run_viability_eval of one kind of replay: trades, a breach or a value  *)
(* that is not finite, nothing, nothing and not even a candidate.          *)
Viability(replay) ==
    /\ inactive' = Consecutive(replay)
    /\ checks' = IF replay \in {"idle", "no_candidates"}
                 THEN {t} \cup IF checks = {} THEN {} ELSE {Max(checks)}
                 ELSE {}
    /\ failure' =
          IF replay = "no_candidates" /\ EntryMachine /\ t >= ViaFreq
          THEN "FAIL_ENTRY_PATH"
          ELSE IF t >= CollapseAt /\ inactive' >= 2
          THEN "FAIL_POLICY_COLLAPSE" ELSE failure

CheckViability ==
    IF t >= nextVia
    THEN /\ \E r \in {"trades", "failed", "idle", "no_candidates"} : Viability(r)
         /\ nextVia' = nextVia + ViaFreq * (1 + (t - nextVia) \div ViaFreq)
    ELSE UNCHANGED <<inactive, checks, failure, nextVia>>

(* The other callbacks of the step: all run, and one that says stop ends   *)
(* learn without the end of the rollout.                                   *)
Callbacks ==
    /\ pc = "callbacks"
    /\ CheckAbort /\ CheckRank /\ CheckViability
    /\ pc' = IF abort' # "none" \/ failure' # "none" THEN "fit"
             ELSE IF collected = RolloutSteps THEN "update" ELSE "collect"
    /\ UNCHANGED <<nseeds, seed, t, collected, loaded, ckpts, nextSave, metric, outcome,
                   crashes>>

(* EarlyAbortCallback._on_rollout_end: the logger holds the metrics of the *)
(* rollout and of the update before it.                                    *)
LoggedNonfinite(rollout) == nonfinite \/ metric \/ rollout

(* The end of a rollout, then PPO updates the policy. *)
Update ==
    /\ pc = "update" /\ pc' = IF t < Total THEN "collect" ELSE "fit"
    /\ collected' = 0
    /\ \E rollout \in BOOLEAN :
          /\ nonfinite' = LoggedNonfinite(rollout)
          /\ metric' \in BOOLEAN
          /\ badAt' = IF (rollout \/ metric') /\ badAt = None THEN t ELSE badAt
    /\ UNCHANGED <<nseeds, seed, t, loaded, ckpts, nextSave, bestEval, abort, outcome,
                   crashes>>

(* Mutation: policies are ranked while learn runs, and only then. *)
SkipRanking ==
    /\ pc = "rank" /\ pc' = "fit"
    /\ UNCHANGED <<nseeds, seed, t, collected, loaded, ckpts, nextSave, bestEval,
                   abortCb, metric, outcome, crashes, badAt>>

(* The ranking of a model that was complete when it was loaded. *)
RankLoaded ==
    /\ pc = "rank" /\ pc' = "fit" /\ Rank
    /\ UNCHANGED <<nseeds, seed, t, collected, loaded, ckpts, nextSave, nextEval,
                   nextVia, inactive, failure, checks, abortCb, metric, outcome,
                   crashes, badAt>>

-----------------------------------------------------------------------------
(* After the training *)

(* Mutation: the reason of the abort callback is forgotten. *)
ViabilityReason == failure

(* abort_reason of train_model *)
AbortReason == IF failure # "none" THEN failure ELSE abort

(* The final model is saved. *)
Fit ==
    /\ pc = "fit" /\ pc' = "evaluate"
    /\ results' = [results EXCEPT ![seed].steps = t, ![seed].reason = AbortReason,
                                  ![seed].best = best]
    /\ UNCHANGED <<nseeds, seed, t, collected, loaded, ckpts, nextSave, bestEval,
                   abortCb, metric, status, exit, crashes, badAt>>

(* evaluate_test_split, evaluate_train_split, write_artifacts and the next *)
(* seed of run_seed_training.                                              *)
Evaluate ==
    /\ pc = "evaluate"
    /\ \E survival \in {"ok", "breach", "policy_miss"}, active \in BOOLEAN :
          results' = [results EXCEPT ![seed].survival = survival,
                                     ![seed].active = active]
    /\ IF seed < nseeds
       THEN pc' = "prepare" /\ seed' = seed + 1 /\ t' = 0 /\ ckpts' = {}
       ELSE pc' = "finalize" /\ UNCHANGED <<seed, t, ckpts>>
    /\ UNCHANGED <<nseeds, collected, loaded, nextSave, bestEval, abortCb, metric,
                   status, exit, crashes, badAt>>

Aborted(r)   == r.reason # "none"
Completed(r) == r.steps >= Total

Trained == 1 .. nseeds

aborts                 == {s \in Trained : Aborted(results[s])}
hard_survival_failures == {s \in Trained : results[s].survival = "breach"}
inactive_seeds         == {s \in Trained : ~results[s].active}
policy_fit_misses      == {s \in Trained : results[s].survival = "policy_miss"}
training_completed     ==
    aborts = {} /\ \A s \in Trained : Completed(results[s])

(* overall_status *)
Overall ==
    IF \E s \in aborts : results[s].reason = "nonfinite" THEN "FAIL_NUMERICAL"
    ELSE IF aborts # {} THEN "FAIL_EARLY_ABORT"
    ELSE IF hard_survival_failures # {} THEN "FAIL_SURVIVAL"
    ELSE IF inactive_seeds # {} THEN "FAIL_INACTIVE"
    ELSE IF policy_fit_misses # {}
    THEN IF training_completed THEN "COMPLETED_POLICY_MISS_RETRAIN_REQUIRED"
         ELSE "INCOMPLETE_POLICY_MISS"
    ELSE IF training_completed THEN "PASS_ACTIVE" ELSE "INCOMPLETE"

(* The SystemExits of finalize_training_run. *)
ExitCode ==
    IF hard_survival_failures \cup inactive_seeds \cup aborts # {} THEN 1 ELSE 0

Finalize ==
    /\ pc = "finalize" /\ pc' = "over"
    /\ status' = Overall /\ exit' = ExitCode
    /\ UNCHANGED <<nseeds, seed, t, collected, loaded, ckpts, nextSave, bestEval,
                   abortCb, metric, results, crashes, badAt>>

-----------------------------------------------------------------------------
(* Deaths and resumptions *)

Crash ==
    /\ pc \notin {"over", "down"} /\ crashes < MaxCrashes
    /\ pc' = "down" /\ crashes' = crashes + 1
    /\ UNCHANGED <<nseeds, seed, t, collected, loaded, ckpts, nextSave, bestEval,
                   abortCb, metric, outcome, badAt>>

(* --resume-checkpoint takes one seed; without a checkpoint the run starts *)
(* from nothing.                                                           *)
Restart ==
    /\ pc = "down" /\ nseeds = 1
    /\ pc' = "prepare"
    /\ loaded' = IF ckpts = {} THEN None ELSE Max(ckpts)
    /\ t' = IF ckpts = {} THEN 0 ELSE Max(ckpts)
    /\ results' = [s \in Seeds |-> NoResult]
    /\ UNCHANGED <<nseeds, seed, collected, ckpts, nextSave, bestEval, abortCb, metric,
                   status, exit, crashes, badAt>>

Step == Prepare \/ VecStep \/ Callbacks \/ Update \/ RankLoaded
        \/ Fit \/ Evaluate \/ Finalize \/ Restart

Next == Step \/ Crash

(* The process runs by itself, and a controller restarts it. *)
Spec == Init /\ [][Next]_vars /\ WF_vars(Step)

-----------------------------------------------------------------------------
(* Properties *)

Reasons == {"none", "nonfinite", "FAIL_ENTRY_PATH", "FAIL_POLICY_COLLAPSE"}
BestStates == {"unranked", "NO_ACTIVE_CHECKPOINT", "ACTIVE_CHECKPOINT_AVAILABLE"}
Statuses == {"none", "FAIL_NUMERICAL", "FAIL_EARLY_ABORT", "FAIL_SURVIVAL",
             "FAIL_INACTIVE", "INCOMPLETE_POLICY_MISS", "INCOMPLETE",
             "COMPLETED_POLICY_MISS_RETRAIN_REQUIRED", "PASS_ACTIVE"}

Result == [steps : Nat, reason : Reasons,
           survival : {"none", "ok", "breach", "policy_miss"},
           active : BOOLEAN, best : BestStates]

(* Types.  Marks are multiples of the interval, also after a resumption    *)
(* beside them, and a mark that was reached has its checkpoint.            *)
TypeOK ==
    /\ pc \in {"prepare", "collect", "callbacks", "update", "rank", "fit",
               "evaluate", "finalize", "over", "down"}
    /\ nseeds \in Seeds /\ seed \in 1 .. nseeds
    /\ {t, nextSave, nextEval, nextVia, inactive, crashes} \subseteq Nat
    /\ nextSave % SaveFreq = 0
    /\ pc \in {"collect", "callbacks", "update"} => t < nextSave
    /\ collected \in 0 .. RolloutSteps
    /\ loaded \in Nat \cup {None} /\ badAt \in Nat \cup {None}
    /\ ckpts \subseteq Nat /\ checks \subseteq Nat
    /\ failure \in Reasons /\ abort \in Reasons /\ best \in BestStates
    /\ nonfinite \in BOOLEAN /\ metric \in BOOLEAN
    /\ results \in [Seeds -> Result]
    /\ status \in Statuses /\ exit \in {None, 0, 1}

(* A process that dies while it collects loses less than one interval of   *)
(* checkpoints and one step of the vector, also after a resumption and     *)
(* when no step falls on a multiple of the interval.                       *)
LastSaved == IF ckpts = {} THEN 0 ELSE Max(ckpts)

LittleLost ==
    nseeds = 1 /\ pc \in {"collect", "callbacks", "update"} =>
        t - LastSaved < SaveFreq + NEnvs

(* Exit code zero means that every seed was trained to the end.            *)
ExitZeroCompletes ==
    exit = 0 => \A s \in Trained : Completed(results[s]) /\ ~Aborted(results[s])

(* A result is earned: a seed that was trained to the end has had its      *)
(* policy ranked, also when it was resumed from a complete checkpoint; and *)
(* a run that passes has seen a value that is not finite at most in its    *)
(* last rollout or the two updates around it.                              *)
ResultsAreEarned ==
    /\ \A s \in Seeds :
          Completed(results[s]) /\ ~Aborted(results[s])
          => results[s].best # "unranked"
    /\ status = "PASS_ACTIVE" => badAt = None \/ badAt + Rollout >= t

(* A policy is called collapsed only after two inactive replays that lie   *)
(* one whole interval apart, and nothing else between them.                *)
TwoChecks ==
    failure = "FAIL_POLICY_COLLAPSE" =>
        \E a, b \in checks : b - a > ViaFreq - NEnvs /\ b - a < ViaFreq + NEnvs

(* However often the process dies and is resumed, the run ends. *)
RunEnds == nseeds = 1 => <>[](pc = "over")
=============================================================================
