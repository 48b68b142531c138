-------------------------- MODULE OrchestraPipeline --------------------------
(***************************************************************************)
(* orchestra/pipeline.py, routing.py, state.py and the phase_*.py mixins:  *)
(* one task of the coding orchestra.  A phase runs one or more agents; the *)
(* text they return may carry a routing directive, which an allowlist, the *)
(* auto-skips, a soft guard and a cap on revisits turn into the next       *)
(* phase.  The state file is saved after every change, so a task whose     *)
(* process died, was parked or failed can be resumed from it.              *)
(* Which agents answer, what they ask for, how many of them the route asks *)
(* for and whether the CI gate passes are chosen nondeterministically.     *)
(***************************************************************************)
EXTENDS Integers

CONSTANTS
    MAX_REVISITS,       \* visits of each of the phases 2 to 9
    MaxFixes,           \* --max-fixes
    MAX_PHASE_STEPS,    \* phases of one run
    MaxGotos,           \* bound on the directives that are obeyed
    MaxResumes,         \* bound on the runs after the first
    FromPhases          \* the --from phases tried

Capped == {"planning", "critique", "synthesis", "implementation", "review",
           "review_synthesis", "fixing", "verification"}
Runnable == Capped \cup {"triage", "reporting"}
AgentPhases == Runnable \ {"verification", "reporting"}

(* Phases that raise when every agent has failed: the panels at once, the  *)
(* phases with one required agent after parking the task.                  *)
PanelPhases    == {"planning", "critique"}
RequiredPhases == AgentPhases \ {"planning", "critique", "review"}

ASSUME OrchestraAssumption ==
    /\ {MAX_REVISITS, MaxFixes, MAX_PHASE_STEPS, MaxGotos, MaxResumes} \subseteq Nat
    /\ FromPhases \subseteq Runnable

VARIABLES
    pc,           \* "idle" between runs, "phase", "route", "enter"
    phase,        \* data["phase"]
    parkedAt,     \* data["parked_at"]
    failedAt,     \* data["failed_at"]
    visits,       \* data["phase_visit_counts"]
    fixes,        \* data["fix_loop_count"]
    gate,         \* data["verification_result"]
    verdict,      \* data["review_verdict"]
    implemented,  \* data["implementation_succeeded"]
    waived,       \* no coding task, or tier T0 with verify_mode skip
    passed,       \* what _phase_verification returned
    next,         \* the phase that was chosen
    steps,        \* phases of this run
    gotos,        \* directives obeyed
    resumes,      \* runs after the first
    origin,       \* phase this run started in
    stoppedIn     \* phase the last run ended in

vars == <<pc, phase, parkedAt, failedAt, visits, fixes, gate, verdict,
          implemented, waived, passed, next, steps, gotos, resumes, origin,
          stoppedIn>>

results == <<fixes, gate, verdict, implemented, waived>>
stops   == <<parkedAt, failedAt, stoppedIn>>
history == <<resumes, origin>>

(* _run_phases for a new task: PENDING becomes TRIAGE. *)
Init ==
    /\ pc = "phase" /\ phase = "triage" /\ origin = "triage"
    /\ parkedAt = "none" /\ failedAt = "none" /\ stoppedIn = "none"
    /\ visits = [p \in Runnable |-> 0]
    /\ fixes = 0 /\ gate = "none" /\ verdict = "none"
    /\ implemented = FALSE /\ waived = FALSE
    /\ passed = TRUE /\ next = "none"
    /\ steps = 0 /\ gotos = 0 /\ resumes = 0

-----------------------------------------------------------------------------
(* Routing *)

Allowed == [
    triage           |-> {"planning", "implementation", "reporting"},
    planning         |-> {"triage", "critique", "synthesis", "implementation",
                          "reporting"},
    critique         |-> {"triage", "planning", "synthesis", "implementation",
                          "reporting"},
    synthesis        |-> {"triage", "planning", "critique", "implementation",
                          "reporting"},
    implementation   |-> {"triage", "planning", "review", "verification",
                          "reporting"},
    review           |-> {"triage", "planning", "implementation",
                          "review_synthesis", "fixing", "verification",
                          "reporting"},
    review_synthesis |-> {"triage", "planning", "implementation", "review",
                          "fixing", "verification", "reporting"},
    fixing           |-> {"triage", "planning", "implementation", "review",
                          "verification", "reporting"},
    verification     |-> {"triage", "planning", "implementation", "review",
                          "fixing", "reporting"}]

AfterReviews == IF verdict = "fail" THEN "fixing" ELSE "verification"

(* silent_default_next, for all tiers and all numbers of agents. *)
SilentDefaults(p) ==
    CASE p = "triage"           -> {"planning", "implementation"}
      [] p = "planning"         -> {"critique", "synthesis", "implementation"}
      [] p = "critique"         -> {"synthesis", "implementation"}
      [] p = "synthesis"        -> {"implementation"}
      [] p = "implementation"   -> {"review", "verification"}
      [] p = "review"           -> {"review_synthesis", "verification"}
      [] p = "review_synthesis" -> {AfterReviews}
      [] p = "fixing"           -> {"verification"}
      [] p = "verification"     -> {IF passed THEN "reporting" ELSE "fixing"}

(* Mutation: a phase may ask for itself again. *)
DirectivesOrSelf(p) ==
    IF gotos = MaxGotos \/ p = "verification" \/ (p = "fixing" /\ fixes = 0)
    THEN {} ELSE Allowed[p] \cup {p}

(* An agent's directive; the verification has no agent, and a fix phase    *)
(* that skips its agent reads the directive of the previous fix again.     *)
Directives(p) ==
    IF gotos = MaxGotos \/ p = "verification" \/ (p = "fixing" /\ fixes = 0)
    THEN {} ELSE Allowed[p]

(* substitute_auto_skips: a phase with nothing to merge, or one that an    *)
(* agent has asked to skip.                                                *)
AutoSkips(p) ==
    {p} \cup CASE p = "synthesis"        -> {"implementation"}
               [] p = "critique"         -> {"synthesis", "implementation"}
               [] p = "review_synthesis" -> {AfterReviews}
               [] OTHER                  -> {}

(* apply_soft_guards *)
SoftGuard(p) ==
    IF p = "reporting" /\ ~implemented /\ ~waived' /\ phase # "implementation"
    THEN "implementation" ELSE p

(* check_revisit_cap *)
RevisitCap(p) ==
    IF p \in Capped /\ visits[p] >= MAX_REVISITS THEN "reporting" ELSE p

(* _advance_after_phase up to the save: the visit of the next phase is     *)
(* counted and saved before the phase is entered.                          *)
Route ==
    /\ pc = "route" /\ pc' = "enter"
    /\ waived' \in IF phase = "verification" THEN {waived} ELSE BOOLEAN
    /\ \/ /\ Directives(phase) # {} /\ gotos' = gotos + 1
          /\ \E g \in Directives(phase) : \E p \in AutoSkips(g) :
               next' = RevisitCap(SoftGuard(p))
       \/ /\ UNCHANGED gotos
          /\ \E d \in SilentDefaults(phase) : \E p \in AutoSkips(d) :
               next' = RevisitCap(SoftGuard(p))
    /\ visits' = [visits EXCEPT ![next'] = @ + 1]
    /\ UNCHANGED <<phase, fixes, gate, verdict, implemented, passed, steps,
                   stops, history>>

(* _advance_after_phase: set_phase. *)
Enter ==
    /\ pc = "enter" /\ pc' = "phase"
    /\ phase' = next /\ next' = "none"
    /\ UNCHANGED <<visits, results, passed, steps, gotos, stops, history>>

-----------------------------------------------------------------------------
(* Phases *)

Begin(P) == pc = "phase" /\ phase \in P /\ steps < MAX_PHASE_STEPS /\ steps' = steps + 1

Complete ==
    /\ pc' = "route"
    /\ UNCHANGED <<phase, visits, next, gotos, stops, history>>

EndRun(p) ==
    /\ pc' = "idle" /\ phase' = p /\ stoppedIn' = phase
    /\ UNCHANGED <<visits, next, gotos, passed, history>>

(* Triage, panels and synthesis leave nothing that the routing reads. *)
Consult ==
    /\ Begin({"triage", "planning", "critique", "synthesis", "review"})
    /\ Complete /\ UNCHANGED <<results, passed>>

Implement ==
    /\ Begin({"implementation"}) /\ Complete
    /\ implemented' = TRUE
    /\ UNCHANGED <<fixes, gate, verdict, waived, passed>>

SynthesizeReviews ==
    /\ Begin({"review_synthesis"}) /\ Complete
    /\ verdict' \in {"pass", "conditional_pass", "fail"}
    /\ UNCHANGED <<fixes, gate, implemented, waived, passed>>

(* The early returns of _phase_fixing. *)
NothingToFix == gate # "fail" /\ verdict \in {"none", "pass"}

Fix ==
    /\ Begin({"fixing"}) /\ Complete
    /\ fixes' = IF NothingToFix \/ fixes >= MaxFixes THEN fixes ELSE fixes + 1
    /\ UNCHANGED <<gate, verdict, implemented, waived, passed>>

(* The CI gate, or verify_mode skip, which records a pass. *)
VerifyPasses ==
    /\ Begin({"verification"}) /\ Complete
    /\ gate' = "pass" /\ passed' = TRUE
    /\ UNCHANGED <<fixes, verdict, implemented, waived>>

(* Mutation: the result of the gate is not handed to the routing. *)
FailsUnseen ==
    /\ Begin({"verification"}) /\ fixes < MaxFixes /\ Complete
    /\ gate' = "fail"
    /\ UNCHANGED <<fixes, verdict, implemented, waived, passed>>

VerifyFails ==
    /\ Begin({"verification"}) /\ fixes < MaxFixes /\ Complete
    /\ gate' = "fail" /\ passed' = FALSE
    /\ UNCHANGED <<fixes, verdict, implemented, waived>>

GiveUp ==
    /\ Begin({"verification"}) /\ fixes >= MaxFixes /\ EndRun("failed")
    /\ gate' = "fail" /\ failedAt' = phase
    /\ UNCHANGED <<fixes, verdict, implemented, waived, parkedAt>>

Report ==
    /\ Begin({"reporting"}) /\ EndRun("done")
    /\ UNCHANGED <<results, parkedAt, failedAt>>

(* park *)
Parked == phase

(* _select_models finds no model. *)
NoModels ==
    /\ Begin(AgentPhases) /\ EndRun("parked")
    /\ phase = "fixing" => ~NothingToFix /\ fixes < MaxFixes
    /\ parkedAt' = Parked
    /\ UNCHANGED <<results, failedAt>>

(* All agents of a panel fail: the exception fails the task. *)
PanelFails ==
    /\ Begin(PanelPhases) /\ EndRun("failed")
    /\ failedAt' = phase
    /\ UNCHANGED <<results, parkedAt>>

(* All models of a required agent fail: _invoke_required parks the task    *)
(* and raises, and the exception fails the parked task; set_phase records  *)
(* the failed phase of a running task only.                                *)
RequiredFails ==
    /\ Begin(RequiredPhases) /\ EndRun("failed")
    /\ phase = "fixing" => ~NothingToFix /\ fixes < MaxFixes
    /\ parkedAt' = Parked
    /\ UNCHANGED <<results, failedAt>>

TooManySteps ==
    /\ pc = "phase" /\ steps = MAX_PHASE_STEPS
    /\ EndRun(phase)
    /\ UNCHANGED <<results, steps, parkedAt, failedAt>>

-----------------------------------------------------------------------------
(* Runs *)

(* The process dies between two saves. *)
Crash ==
    /\ pc # "idle"
    /\ pc' = "idle" /\ stoppedIn' = phase /\ next' = "none" /\ passed' = TRUE
    /\ UNCHANGED <<phase, visits, results, steps, gotos, parkedAt, failedAt,
                   history>>

(* Mutation: a parked task starts over. *)
ResumeAtTriage ==
    CASE phase = "failed" -> IF failedAt = "none" THEN "triage" ELSE failedAt
      [] phase = "parked" -> "triage"
      [] OTHER            -> phase

(* _resume_phase without --from, for a task that is not done. *)
ResumePhase ==
    CASE phase = "parked" -> parkedAt
      [] phase = "failed" -> IF failedAt = "none" THEN "verification" ELSE failedAt
      [] OTHER            -> phase

StartRun(p) ==
    /\ pc = "idle" /\ resumes < MaxResumes
    /\ pc' = "phase" /\ resumes' = resumes + 1
    /\ phase' = p /\ origin' = p
    /\ steps' = 0 /\ passed' = TRUE
    /\ UNCHANGED <<visits, results, next, gotos, stops>>

Resume == phase # "done" /\ StartRun(ResumePhase)

RestartFrom(p) == StartRun(p)

(* The command orchestra fix. *)
FixTask ==
    /\ phase \notin {"fixing", "verification"}
    /\ StartRun("fixing")

PhaseStep ==
    \/ Consult \/ Implement \/ SynthesizeReviews \/ Fix \/ VerifyPasses
    \/ VerifyFails \/ GiveUp \/ Report \/ NoModels \/ PanelFails
    \/ RequiredFails \/ TooManySteps

Run == PhaseStep \/ Route \/ Enter

Next == Run \/ Crash \/ Resume \/ FixTask \/ \E p \in FromPhases : RestartFrom(p)

(* A run is one sequential loop. *)
Spec == Init /\ [][Next]_vars /\ WF_vars(Run)

-----------------------------------------------------------------------------
(* Properties *)

(* Triage may be revisited without a cap, and still only as often as the   *)
(* capped phases pay for it: every triage is followed by a counted phase   *)
(* or by the report.                                                       *)
CappedVisits ==
    visits["planning"] + visits["critique"] + visits["synthesis"]
    + visits["implementation"] + visits["review"] + visits["review_synthesis"]
    + visits["fixing"] + visits["verification"]

TriagePaid == visits["triage"] <= CappedVisits + resumes

(* Without --from, a task that was parked or whose process died restarts   *)
(* the phase it was in.                                                    *)
RestartsPhase ==
    [][Resume /\ phase # "failed" => phase' = stoppedIn]_vars

(* The report is earned, or the user asked for it, or a phase was visited  *)
(* as often as allowed: a task that is done has an implementation unless   *)
(* it is no coding task, and, without directives of agents, the tests that *)
(* ran last have passed.                                                   *)
ReportIsEarned ==
    phase = "done" =>
        \/ origin = "reporting"
        \/ \E p \in Capped : visits[p] >= MAX_REVISITS
        \/ /\ implemented \/ waived
           /\ gate = "fail" => gotos > 0
=============================================================================
