---------------------- MODULE OrchestraPipelineProofs ----------------------
(***************************************************************************)
(* Theorems about one task of the coding orchestra, for every cap on       *)
(* visits, fixes and phases and every number of directives and restarts:   *)
(* a task restarts where it stopped, triage is paid for by the capped      *)
(* phases, and a report is earned.  The invariant says what a route, an    *)
(* entered phase and a stopped run know of the phases before them.         *)
(***************************************************************************)
EXTENDS OrchestraPipeline, TLAPS

Running == {"phase", "route", "enter"}

TypeInv ==
    /\ pc \in Running \cup {"idle"}
    /\ phase \in Runnable \cup {"parked", "failed", "done"}
    /\ parkedAt \in Runnable \cup {"none"} /\ failedAt \in Runnable \cup {"none"}
    /\ stoppedIn \in Runnable \cup {"none"}
    /\ visits \in [Runnable -> Nat]
    /\ fixes \in Nat /\ gate \in {"none", "pass", "fail"}
    /\ verdict \in {"none", "pass", "conditional_pass", "fail"}
    /\ implemented \in BOOLEAN /\ waived \in BOOLEAN /\ passed \in BOOLEAN
    /\ next \in Runnable \cup {"none"}
    /\ steps \in Nat /\ gotos \in Nat /\ resumes \in Nat
    /\ origin \in Runnable
    \* a run is in a phase that can be run, and reporting ends it
    /\ pc \in Running => phase \in Runnable
    /\ pc \in {"route", "enter"} => phase # "reporting"
    /\ pc = "enter" => next \in Runnable

(* What a stopped run leaves behind tells where it stopped. *)
StopInv ==
    pc = "idle" =>
        /\ stoppedIn \in Runnable
        /\ phase = "parked" => parkedAt = stoppedIn
        /\ phase \in Runnable => phase = stoppedIn

(* The visit of a capped phase is a triage in hand. *)
InHand ==
    \/ pc \in {"phase", "route"} /\ phase \in Capped
    \/ pc = "enter" /\ next \in Capped

PaidInv ==
    visits["triage"] + (IF InHand THEN 1 ELSE 0) <= CappedVisits + resumes

(* What a phase tells the routing, and what earns the report that a run    *)
(* has chosen, entered or written.                                         *)
Earned ==
    \/ origin = "reporting"
    \/ \E p \in Capped : visits[p] >= MAX_REVISITS
    \/ /\ implemented \/ waived
       /\ gate = "fail" => gotos > 0

EarnInv ==
    /\ pc = "route" /\ phase = "implementation" => implemented
    /\ pc = "route" /\ phase = "verification" /\ passed => gate = "pass"
    /\ pc = "enter" /\ next = "reporting" => Earned
    /\ pc = "phase" /\ phase = "reporting" => Earned
    /\ phase = "done" => Earned

IInv == TypeInv /\ StopInv /\ PaidInv /\ EarnInv
-----------------------------------------------------------------------------
(* The routing *)

(* An agent's directive leads to another phase than the one that ran. *)
LEMMA DirectiveLeaves ==
    ASSUME NEW p \in Runnable \ {"reporting"}
    PROVE  Directives(p) \subseteq Runnable \ {p}
<1>1. Directives(p) \subseteq Allowed[p]
  BY DEF Directives
<1>2. Allowed[p] \subseteq Runnable \ {p}
  <2>1. CASE p = "triage"
    BY <2>1 DEF Allowed, Runnable, Capped
  <2>2. CASE p = "planning"
    BY <2>2 DEF Allowed, Runnable, Capped
  <2>3. CASE p = "critique"
    BY <2>3 DEF Allowed, Runnable, Capped
  <2>4. CASE p = "synthesis"
    BY <2>4 DEF Allowed, Runnable, Capped
  <2>5. CASE p = "implementation"
    BY <2>5 DEF Allowed, Runnable, Capped
  <2>6. CASE p = "review"
    BY <2>6 DEF Allowed, Runnable, Capped
  <2>7. CASE p = "review_synthesis"
    BY <2>7 DEF Allowed, Runnable, Capped
  <2>8. CASE p = "fixing"
    BY <2>8 DEF Allowed, Runnable, Capped
  <2>9. CASE p = "verification"
    BY <2>9 DEF Allowed, Runnable, Capped
  <2> QED
    BY <2>1, <2>2, <2>3, <2>4, <2>5, <2>6, <2>7, <2>8, <2>9 DEF Runnable, Capped
<1> QED
  BY <1>1, <1>2

(* Without a directive no phase goes back to triage, and only a            *)
(* verification that has passed goes to the report.                        *)
LEMMA DefaultGoesOn ==
    ASSUME NEW p \in Runnable \ {"reporting"}, NEW d \in SilentDefaults(p)
    PROVE  /\ d \in Runnable \ {"triage"}
           /\ d = "reporting" => p = "verification" /\ passed
<1>1. CASE p \in {"triage", "planning", "critique", "synthesis"}
  BY <1>1 DEF SilentDefaults, Runnable, Capped
<1>2. CASE p \in {"implementation", "review", "review_synthesis"}
  BY <1>2 DEF SilentDefaults, AfterReviews, Runnable, Capped
<1>3. CASE p \in {"fixing", "verification"}
  BY <1>3 DEF SilentDefaults, Runnable, Capped
<1> QED
  BY <1>1, <1>2, <1>3 DEF Runnable, Capped

(* A skip chooses neither triage nor the report. *)
LEMMA SkipKeeps ==
    ASSUME NEW p \in Runnable, NEW a \in AutoSkips(p)
    PROVE  a \in Runnable /\ (a \in {"triage", "reporting"} => a = p)
BY DEF AutoSkips, AfterReviews, Runnable, Capped

(* The guards choose the report for a task that has its implementation, or *)
(* at the cap, and triage never.                                           *)
LEMMA GuardsKeep ==
    ASSUME NEW a \in Runnable
    PROVE  LET n == RevisitCap(SoftGuard(a)) IN
           /\ n \in Runnable
           /\ n = "triage" => a = "triage"
           /\ n = "reporting" =>
                \/ \E c \in Capped : visits[c] >= MAX_REVISITS
                \/ a = "reporting" /\ (implemented \/ waived' \/ phase = "implementation")
<1>1. /\ SoftGuard(a) \in Runnable
      /\ SoftGuard(a) = "triage" => a = "triage"
      /\ SoftGuard(a) = "reporting" =>
            a = "reporting" /\ (implemented \/ waived' \/ phase = "implementation")
  BY DEF SoftGuard, Runnable, Capped
<1> DEFINE g == SoftGuard(a)
<1>2. /\ RevisitCap(g) \in {g, "reporting"}
      /\ RevisitCap(g) = g \/ (g \in Capped /\ visits[g] >= MAX_REVISITS)
  BY DEF RevisitCap
<1> HIDE DEF g
<1>3. "reporting" \in Runnable
  BY DEF Runnable
<1> QED
  BY <1>1, <1>2, <1>3 DEF g

(* What a route leads to. *)
LEMMA RouteTo ==
    ASSUME TypeInv, Route
    PROVE  /\ next' \in Runnable
           /\ phase = "triage" => next' # "triage"
           /\ next' = "reporting" =>
                \/ \E c \in Capped : visits[c] >= MAX_REVISITS
                \/ /\ implemented \/ waived' \/ phase = "implementation"
                   /\ gotos' > 0 \/ (phase = "verification" /\ passed)
           /\ gotos' \in Nat /\ gotos' >= gotos
<1>1. phase \in Runnable \ {"reporting"} /\ gotos \in Nat
  BY DEF Route, TypeInv, Running
<1>2. CASE \E g \in Directives(phase) : \E p \in AutoSkips(g) :
             next' = RevisitCap(SoftGuard(p)) /\ gotos' = gotos + 1
  <2>1. PICK g \in Directives(phase) : \E p \in AutoSkips(g) :
             next' = RevisitCap(SoftGuard(p)) /\ gotos' = gotos + 1
    BY <1>2
  <2>2. PICK p \in AutoSkips(g) :
             next' = RevisitCap(SoftGuard(p)) /\ gotos' = gotos + 1
    BY <2>1
  <2>3. g \in Runnable \ {phase}
    BY <1>1, DirectiveLeaves
  <2>4. p \in Runnable /\ (p \in {"triage", "reporting"} => p = g)
    BY <2>3, SkipKeeps
  <2> QED
    BY <1>1, <2>2, <2>3, <2>4, GuardsKeep
<1>3. CASE \E d \in SilentDefaults(phase) : \E p \in AutoSkips(d) :
             next' = RevisitCap(SoftGuard(p)) /\ gotos' = gotos
  <2>1. PICK d \in SilentDefaults(phase) : \E p \in AutoSkips(d) :
             next' = RevisitCap(SoftGuard(p)) /\ gotos' = gotos
    BY <1>3
  <2>2. PICK p \in AutoSkips(d) :
             next' = RevisitCap(SoftGuard(p)) /\ gotos' = gotos
    BY <2>1
  <2>3. /\ d \in Runnable \ {"triage"}
        /\ d = "reporting" => phase = "verification" /\ passed
    BY <1>1, DefaultGoesOn
  <2>4. p \in Runnable /\ (p \in {"triage", "reporting"} => p = d)
    BY <2>3, SkipKeeps
  <2> QED
    BY <1>1, <2>2, <2>3, <2>4, GuardsKeep
<1> QED
  BY <1>2, <1>3 DEF Route
-----------------------------------------------------------------------------
(* Visits *)

(* One more visit is one more visit of triage, of a capped phase or of the *)
(* report; the visits of no phase are forgotten.                           *)
LEMMA OneMoreVisit ==
    ASSUME visits \in [Runnable -> Nat], NEW n \in Runnable,
           visits' = [visits EXCEPT ![n] = @ + 1]
    PROVE  /\ visits' \in [Runnable -> Nat]
           /\ CappedVisits \in Nat /\ CappedVisits' \in Nat
           /\ visits'["triage"] = visits["triage"] + (IF n = "triage" THEN 1 ELSE 0)
           /\ CappedVisits' = CappedVisits + (IF n \in Capped THEN 1 ELSE 0)
           /\ \A c \in Capped : visits'[c] >= visits[c]
<1>1. visits' \in [Runnable -> Nat]
  OBVIOUS
<1>2. \A p \in Runnable : visits'[p] = IF p = n THEN visits[p] + 1 ELSE visits[p]
  OBVIOUS
<1>3. \A p \in Runnable : visits[p] \in Nat /\ visits'[p] \in Nat
  BY <1>1
<1>4. Capped \subseteq Runnable /\ "triage" \in Runnable \ Capped
  BY DEF Runnable, Capped
<1>5. CappedVisits \in Nat /\ CappedVisits' \in Nat
  BY <1>3 DEF CappedVisits, Runnable, Capped
<1>6. CappedVisits' = CappedVisits + (IF n \in Capped THEN 1 ELSE 0)
  BY <1>2, <1>3 DEF CappedVisits, Runnable, Capped
<1>7. visits'["triage"] = visits["triage"] + (IF n = "triage" THEN 1 ELSE 0)
  BY <1>2, <1>3, <1>4
<1>8. \A c \in Capped : visits'[c] >= visits[c]
  BY <1>2, <1>3, <1>4
<1> QED
  BY <1>1, <1>5, <1>6, <1>7, <1>8

LEMMA VisitsType ==
    ASSUME TypeInv
    PROVE  CappedVisits \in Nat /\ visits["triage"] \in Nat
BY DEF TypeInv, CappedVisits, Runnable, Capped
-----------------------------------------------------------------------------
(* The inductive invariant *)

LEMMA InitInv == Init => IInv
<1> SUFFICES ASSUME Init PROVE IInv
  OBVIOUS
<1>1. TypeInv
  BY DEF Init, TypeInv, Runnable, Running
<1>2. StopInv
  BY DEF Init, StopInv
<1>3. PaidInv
  BY DEF Init, PaidInv, InHand, CappedVisits, Runnable, Capped
<1>4. EarnInv
  BY DEF Init, EarnInv
<1> QED
  BY <1>1, <1>2, <1>3, <1>4 DEF IInv

(* A route counts the visit of the phase that it chose. *)
LEMMA RouteInv ==
    ASSUME IInv, Route
    PROVE  IInv'
<1>1. /\ pc = "route" /\ pc' = "enter" /\ phase' = phase /\ parkedAt' = parkedAt
      /\ failedAt' = failedAt /\ stoppedIn' = stoppedIn /\ fixes' = fixes
      /\ gate' = gate /\ verdict' = verdict /\ implemented' = implemented
      /\ waived' \in BOOLEAN /\ passed' = passed /\ steps' = steps
      /\ resumes' = resumes /\ origin' = origin
      /\ visits' = [visits EXCEPT ![next'] = @ + 1]
  BY DEF Route, stops, history, IInv, TypeInv
<1>2. TypeInv /\ StopInv /\ PaidInv /\ EarnInv
  BY DEF IInv
<1>3. /\ next' \in Runnable
      /\ phase = "triage" => next' # "triage"
      /\ next' = "reporting" =>
            \/ \E c \in Capped : visits[c] >= MAX_REVISITS
            \/ /\ implemented \/ waived' \/ phase = "implementation"
               /\ gotos' > 0 \/ (phase = "verification" /\ passed)
      /\ gotos' \in Nat
  BY <1>2, RouteTo
<1>4. /\ visits' \in [Runnable -> Nat]
      /\ CappedVisits \in Nat /\ CappedVisits' \in Nat
      /\ visits'["triage"] = visits["triage"] + (IF next' = "triage" THEN 1 ELSE 0)
      /\ CappedVisits' = CappedVisits + (IF next' \in Capped THEN 1 ELSE 0)
      /\ \A c \in Capped : visits'[c] >= visits[c]
  BY <1>1, <1>2, <1>3, OneMoreVisit DEF TypeInv
<1>5. phase \in Runnable \ {"reporting"}
  BY <1>1, <1>2 DEF TypeInv, Running
<1>6. TypeInv'
  BY <1>1, <1>2, <1>3, <1>4, <1>5 DEF TypeInv, Running
<1>7. StopInv'
  BY <1>1 DEF StopInv
<1>8. PaidInv'
  <2>1. phase \in Capped <=> phase # "triage"
    BY <1>5 DEF Runnable, Capped
  <2>2. InHand' <=> next' \in Capped
    BY <1>1 DEF InHand
  <2>3. InHand <=> phase \in Capped
    BY <1>1 DEF InHand
  <2>4. "triage" \notin Capped
    BY DEF Capped
  <2>5. visits["triage"] \in Nat /\ resumes \in Nat
    BY <1>2, VisitsType DEF TypeInv
  <2> QED
    BY <1>1, <1>2, <1>3, <1>4, <2>1, <2>2, <2>3, <2>4, <2>5 DEF PaidInv
<1>9. next' = "reporting" => Earned'
  <2>1. SUFFICES ASSUME next' = "reporting" PROVE Earned'
    OBVIOUS
  <2>2. CASE \E c \in Capped : visits[c] >= MAX_REVISITS
    <3>1. PICK c \in Capped : visits[c] >= MAX_REVISITS
      BY <2>2
    <3>2. visits[c] \in Nat /\ visits'[c] \in Nat
      BY <1>2, <1>4 DEF TypeInv, Runnable
    <3>3. visits'[c] >= MAX_REVISITS
      BY <1>4, <3>1, <3>2, OrchestraAssumption
    <3> QED
      BY <3>3 DEF Earned
  <2>3. CASE /\ implemented \/ waived' \/ phase = "implementation"
             /\ gotos' > 0 \/ (phase = "verification" /\ passed)
    <3>1. implemented' \/ waived'
      BY <1>1, <1>2, <2>3 DEF EarnInv
    <3>2. gate' = "fail" => gotos' > 0
      BY <1>1, <1>2, <2>3 DEF EarnInv
    <3> QED
      BY <3>1, <3>2 DEF Earned
  <2> QED
    BY <1>3, <2>1, <2>2, <2>3
<1>10. EarnInv'
  BY <1>1, <1>5, <1>9 DEF EarnInv, Runnable, Capped
<1> QED
  BY <1>6, <1>7, <1>8, <1>10 DEF IInv

(* What earns a report stays, outside a phase that runs or is routed. *)
LEMMA EnterInv ==
    ASSUME IInv, Enter
    PROVE  IInv'
<1>1. /\ pc = "enter" /\ pc' = "phase" /\ phase' = next /\ next' = "none"
      /\ UNCHANGED <<visits, results, passed, steps, gotos, stops, history>>
  BY DEF Enter
<1>2. TypeInv'
  BY <1>1 DEF IInv, TypeInv, Running, results, stops, history
<1>3. StopInv'
  BY <1>1 DEF StopInv
<1>4. PaidInv'
  <2>1. CappedVisits' = CappedVisits /\ visits'["triage"] = visits["triage"]
    BY <1>1 DEF CappedVisits
  <2>2. InHand' <=> InHand
    BY <1>1 DEF InHand
  <2> QED
    BY <1>1, <2>1, <2>2 DEF IInv, PaidInv, history
<1>5. EarnInv'
  <2>1. Earned' <=> Earned
    BY <1>1 DEF Earned, results, history
  <2>2. next \in Runnable
    BY <1>1 DEF IInv, TypeInv
  <2> QED
    BY <1>1, <2>1, <2>2 DEF IInv, EarnInv, Runnable, Capped
<1> QED
  BY <1>2, <1>3, <1>4, <1>5 DEF IInv

(* A phase that completes: its results change, and it is routed. *)
LEMMA CompleteInv ==
    ASSUME IInv, pc = "phase", phase # "reporting", Complete,
           steps' \in Nat, fixes' \in Nat, gate' \in {"none", "pass", "fail"},
           verdict' \in {"none", "pass", "conditional_pass", "fail"},
           implemented' \in BOOLEAN, waived' = waived, passed' \in BOOLEAN,
           phase = "implementation" => implemented',
           phase = "verification" /\ passed' => gate' = "pass"
    PROVE  IInv'
<1>1. /\ pc' = "route" /\ phase' = phase /\ visits' = visits /\ next' = next
      /\ gotos' = gotos /\ parkedAt' = parkedAt /\ failedAt' = failedAt
      /\ stoppedIn' = stoppedIn /\ resumes' = resumes /\ origin' = origin
  BY DEF Complete, stops, history
<1>2. TypeInv'
  BY <1>1 DEF IInv, TypeInv, Running
<1>3. StopInv'
  BY <1>1 DEF StopInv
<1>4. PaidInv'
  <2>1. CappedVisits' = CappedVisits /\ visits'["triage"] = visits["triage"]
    BY <1>1 DEF CappedVisits
  <2>2. InHand' <=> InHand
    BY <1>1 DEF InHand
  <2> QED
    BY <1>1, <2>1, <2>2 DEF IInv, PaidInv
<1>5. EarnInv'
  BY <1>1 DEF EarnInv, IInv, TypeInv, Running, Runnable, Capped
<1> QED
  BY <1>2, <1>3, <1>4, <1>5 DEF IInv

LEMMA CompletesInv ==
    ASSUME IInv,
           Consult \/ Implement \/ SynthesizeReviews \/ Fix \/ VerifyPasses \/ VerifyFails
    PROVE  IInv'
<1>1. /\ pc = "phase" /\ phase # "reporting" /\ Complete /\ steps' \in Nat
      /\ fixes' \in Nat /\ gate' \in {"none", "pass", "fail"}
      /\ verdict' \in {"none", "pass", "conditional_pass", "fail"}
      /\ implemented' \in BOOLEAN /\ waived' = waived /\ passed' \in BOOLEAN
      /\ phase = "implementation" => implemented'
      /\ phase = "verification" /\ passed' => gate' = "pass"
  <2>1. TypeInv /\ MaxFixes \in Nat
    BY OrchestraAssumption DEF IInv
  <2>2. CASE Consult
    BY <2>1, <2>2 DEF Consult, Begin, TypeInv, results
  <2>3. CASE Implement
    BY <2>1, <2>3 DEF Implement, Begin, TypeInv
  <2>4. CASE SynthesizeReviews
    BY <2>1, <2>4 DEF SynthesizeReviews, Begin, TypeInv
  <2>5. CASE Fix
    BY <2>1, <2>5 DEF Fix, Begin, TypeInv
  <2>6. CASE VerifyPasses
    BY <2>1, <2>6 DEF VerifyPasses, Begin, TypeInv
  <2>7. CASE VerifyFails
    <3>1. passed' = FALSE
      BY <2>7 DEF VerifyFails
    <3>2. passed' \in BOOLEAN /\ ~passed'
      BY <3>1
    <3> QED
      BY <2>1, <2>7, <3>2 DEF VerifyFails, Begin, TypeInv
  <2> QED
    BY <2>2, <2>3, <2>4, <2>5, <2>6, <2>7
<1> QED
  BY <1>1, CompleteInv

(* A run that ends: what is left says where, and a report that is written  *)
(* was earned.                                                             *)
LEMMA StopsInv ==
    ASSUME IInv, pc \in Running, pc' = "idle", stoppedIn' = phase,
           visits' = visits, resumes' = resumes, origin' = origin,
           gotos' = gotos, fixes' = fixes, verdict' = verdict,
           implemented' = implemented, waived' = waived,
           gate' \in {gate, "fail"}, steps' \in Nat, passed' \in BOOLEAN,
           next' \in {next, "none"},
           parkedAt' \in {parkedAt, phase}, failedAt' \in {failedAt, phase},
           phase' \in {phase, "failed", "parked", "done"},
           phase' = "parked" => parkedAt' = phase,
           phase' = "done" => pc = "phase" /\ phase = "reporting" /\ gate' = gate
    PROVE  IInv'
<1>1. phase \in Runnable
  BY DEF IInv, TypeInv
<1>2. TypeInv'
  BY <1>1 DEF IInv, TypeInv, Running
<1>3. StopInv'
  BY <1>1 DEF StopInv, Runnable, Capped
<1>4. PaidInv'
  <2>1. CappedVisits' = CappedVisits /\ visits'["triage"] = visits["triage"]
    BY DEF CappedVisits
  <2>2. ~InHand'
    BY DEF InHand
  <2>3. CappedVisits \in Nat /\ visits["triage"] \in Nat /\ resumes \in Nat
    BY VisitsType DEF IInv, TypeInv
  <2> QED
    BY <2>1, <2>2, <2>3 DEF IInv, PaidInv
<1>5. EarnInv'
  <2>1. phase' = "done" => Earned'
    <3>1. phase' = "done" => Earned
      BY <1>1 DEF IInv, EarnInv, Runnable, Capped
    <3> QED
      BY <3>1 DEF Earned
  <2> QED
    BY <2>1 DEF EarnInv
<1> QED
  BY <1>2, <1>3, <1>4, <1>5 DEF IInv

LEMMA EndsInv ==
    ASSUME IInv,
           GiveUp \/ Report \/ NoModels \/ PanelFails \/ RequiredFails
             \/ TooManySteps \/ Crash
    PROVE  IInv'
<1>1. /\ pc \in Running /\ pc' = "idle" /\ stoppedIn' = phase
      /\ visits' = visits /\ resumes' = resumes /\ origin' = origin
      /\ gotos' = gotos /\ fixes' = fixes /\ verdict' = verdict
      /\ implemented' = implemented /\ waived' = waived
      /\ gate' \in {gate, "fail"} /\ steps' \in Nat /\ passed' \in BOOLEAN
      /\ next' \in {next, "none"}
      /\ parkedAt' \in {parkedAt, phase} /\ failedAt' \in {failedAt, phase}
      /\ phase' \in {phase, "failed", "parked", "done"}
      /\ phase' = "parked" => parkedAt' = phase
      /\ phase' = "done" => pc = "phase" /\ phase = "reporting" /\ gate' = gate
  <2>1. TypeInv
    BY DEF IInv
  <2>2. pc \in Running => phase \notin {"parked", "failed", "done"}
    BY <2>1 DEF TypeInv, Runnable, Capped
  <2>3. CASE GiveUp
    BY <2>1, <2>2, <2>3 DEF GiveUp, EndRun, Begin, TypeInv, Running, history
  <2>4. CASE Report
    BY <2>1, <2>2, <2>4 DEF Report, EndRun, Begin, TypeInv, Running, history, results
  <2>5. CASE NoModels
    BY <2>1, <2>2, <2>5
       DEF NoModels, EndRun, Begin, Parked, TypeInv, Running, history, results
  <2>6. CASE PanelFails
    BY <2>1, <2>2, <2>6 DEF PanelFails, EndRun, Begin, TypeInv, Running, history, results
  <2>7. CASE RequiredFails
    BY <2>1, <2>2, <2>7
       DEF RequiredFails, EndRun, Begin, Parked, TypeInv, Running, history, results
  <2>8. CASE TooManySteps
    BY <2>1, <2>2, <2>8 DEF TooManySteps, EndRun, TypeInv, Running, history, results
  <2>9. CASE Crash
    BY <2>1, <2>2, <2>9 DEF Crash, TypeInv, Running, history, results
  <2> QED
    BY <2>3, <2>4, <2>5, <2>6, <2>7, <2>8, <2>9
<1> QED
  BY <1>1, StopsInv

(* A task resumes in a phase that can be run. *)
LEMMA ResumesSomewhere ==
    ASSUME IInv, pc = "idle", phase # "done"
    PROVE  ResumePhase \in Runnable
BY DEF ResumePhase, IInv, TypeInv, StopInv, Runnable, Capped

(* A restart pays for one triage, and for the report it was asked for. *)
LEMMA StartInv ==
    ASSUME IInv, NEW p \in Runnable, StartRun(p)
    PROVE  IInv'
<1>1. /\ pc = "idle" /\ pc' = "phase" /\ resumes' = resumes + 1
      /\ phase' = p /\ origin' = p /\ steps' = 0 /\ passed' = TRUE
      /\ UNCHANGED <<visits, results, next, gotos, stops>>
  BY DEF StartRun
<1>2. TypeInv'
  BY <1>1 DEF IInv, TypeInv, Running, results, stops
<1>3. StopInv'
  BY <1>1 DEF StopInv
<1>4. PaidInv'
  <2>1. CappedVisits' = CappedVisits /\ visits'["triage"] = visits["triage"]
    BY <1>1 DEF CappedVisits
  <2>2. ~InHand
    BY <1>1 DEF InHand
  <2>3. CappedVisits \in Nat /\ visits["triage"] \in Nat /\ resumes \in Nat
    BY VisitsType DEF IInv, TypeInv
  <2> QED
    BY <1>1, <2>1, <2>2, <2>3 DEF IInv, PaidInv
<1>5. EarnInv'
  BY <1>1 DEF EarnInv, Earned, Runnable, Capped
<1> QED
  BY <1>2, <1>3, <1>4, <1>5 DEF IInv

LEMMA Inductive == Spec => []IInv
<1>1. Init => IInv
  BY InitInv
<1>2. IInv /\ [Next]_vars => IInv'
  <2> SUFFICES ASSUME IInv, [Next]_vars PROVE IInv'
    OBVIOUS
  <2>1. CASE Consult \/ Implement \/ SynthesizeReviews \/ Fix \/ VerifyPasses \/ VerifyFails
    BY <2>1, CompletesInv
  <2>2. CASE GiveUp \/ Report \/ NoModels \/ PanelFails \/ RequiredFails
               \/ TooManySteps \/ Crash
    BY <2>2, EndsInv
  <2>3. CASE Route
    BY <2>3, RouteInv
  <2>4. CASE Enter
    BY <2>4, EnterInv
  <2>5. CASE Resume
    BY <2>5, ResumesSomewhere, StartInv DEF Resume, StartRun
  <2>6. CASE FixTask
    BY <2>6, StartInv DEF FixTask, Runnable, Capped
  <2>7. CASE \E p \in FromPhases : RestartFrom(p)
    <3>1. PICK p \in FromPhases : StartRun(p)
      BY <2>7 DEF RestartFrom
    <3>2. p \in Runnable
      BY OrchestraAssumption
    <3> QED
      BY <3>1, <3>2, StartInv
  <2>8. CASE UNCHANGED vars
    <3>1. TypeInv' /\ StopInv'
      BY <2>8 DEF vars, IInv, TypeInv, StopInv
    <3>2. PaidInv'
      BY <2>8 DEF vars, IInv, PaidInv, InHand, CappedVisits
    <3>3. EarnInv'
      BY <2>8 DEF vars, IInv, EarnInv, Earned
    <3> QED
      BY <3>1, <3>2, <3>3 DEF IInv
  <2> QED
    BY <2>1, <2>2, <2>3, <2>4, <2>5, <2>6, <2>7, <2>8 DEF Next, Run, PhaseStep
<1> QED
  BY <1>1, <1>2, PTL DEF Spec
-----------------------------------------------------------------------------
(* The theorems *)

(* The state of a task, whatever is answered, killed and restarted. *)
THEOREM TypeCorrect == Spec => []TypeInv
<1>1. IInv => TypeInv
  BY DEF IInv
<1> QED
  BY <1>1, Inductive, PTL

(* Agents may send a task back to triage without a cap on triage, and the  *)
(* capped phases and the restarts still bound how often.                   *)
THEOREM TriageIsPaid == Spec => []TriagePaid
<1>1. IInv => TriagePaid
  <2>1. SUFFICES ASSUME IInv PROVE TriagePaid
    OBVIOUS
  <2>2. CappedVisits \in Nat /\ visits["triage"] \in Nat /\ resumes \in Nat
    BY <2>1, VisitsType DEF IInv, TypeInv
  <2> QED
    BY <2>1, <2>2 DEF IInv, PaidInv, TriagePaid
<1> QED
  BY <1>1, Inductive, PTL

(* A task that is done has an implementation and, without directives,      *)
(* passing tests, or the user or a cap sent it to the report.              *)
THEOREM ReportEarned == Spec => []ReportIsEarned
<1>1. IInv => ReportIsEarned
  BY DEF IInv, EarnInv, Earned, ReportIsEarned
<1> QED
  BY <1>1, Inductive, PTL

(* A parked or killed task restarts in the phase it was in. *)
THEOREM RestartsThere == Spec => RestartsPhase
<1>1. IInv /\ [Next]_vars => [Resume /\ phase # "failed" => phase' = stoppedIn]_vars
  <2>1. SUFFICES ASSUME IInv, Resume, phase # "failed" PROVE phase' = stoppedIn
    OBVIOUS
  <2>2. pc = "idle" /\ phase # "done" /\ phase' = ResumePhase
    BY <2>1 DEF Resume, StartRun
  <2> QED
    BY <2>1, <2>2 DEF IInv, TypeInv, StopInv, ResumePhase, Runnable, Capped
<1> QED
  BY <1>1, Inductive, PTL DEF Spec, RestartsPhase
=============================================================================
