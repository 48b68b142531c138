------------------------------ MODULE Campaign ------------------------------
(***************************************************************************)
(* experiments/campaigns/execution.py: one controller runs the training    *)
(* jobs of a campaign and keeps their state in campaign.json, which is     *)
(* replaced atomically; compute/slurm/resume.py edits that file between    *)
(* controllers.  The controller may crash between any two writes and be    *)
(* started again with --resume; workers run in sessions of their own and   *)
(* survive it.  The lock on the campaign directory admits one controller.  *)
(***************************************************************************)
EXTENDS Integers, FiniteSets

CONSTANTS
    NJobs,         \* jobs of the manifest, in its order
    Workers,       \* --workers
    Budget,        \* --timesteps, in checkpoint intervals
    Parent,        \* steps of the archived parent checkpoint, 0 = none
    MaxAttempts,   \* bound on the attempts of a job
    MaxStarts,     \* bound on the controllers started
    MaxCrashes     \* bound: the controllers that may die alone are the first

ASSUME CampaignAssumption ==
    /\ {NJobs, Workers, Budget, MaxAttempts, MaxStarts} \subseteq Nat \ {0}
    /\ Parent \in 0 .. Budget
    /\ MaxCrashes \in Nat

Jobs     == 1 .. NJobs
Attempts == 1 .. MaxAttempts
Gens     == 1 .. MaxStarts

VARIABLES
    ctl,       \* where the controller is
    gen,       \* which controller this is
    cur,       \* the job start() is working on, 0 = none
    mem,       \* manifest["jobs"] of the controller
    disk,      \* the same in campaign.json
    running,   \* keys of the controller's `running`
    exit,      \* proc.poll() of the jobs in running
    stop,      \* STOP, and the signals already sent
    workers,   \* live worker processes, orphans included
    dir,       \* attempt directories
    marker,    \* markers/<key>.done
    report     \* cache_recovery.json and the two manifest backups

vars == <<ctl, gen, cur, mem, disk, running, exit, stop, workers, dir,
          marker, report>>

(* An entry of manifest["jobs"]; resume_from_attempt 0 stands for absent,  *)
(* hashes for artifact_hashes.                                             *)
Statuses == {"pending", "running", "succeeded", "failed", "interrupted"}
Job == [status : Statuses, attempts : 0 .. MaxAttempts,
        from : 0 .. MaxAttempts, hashes : SUBSET Gens]

(* An attempt directory with its log: the controllers that started the     *)
(* attempt, its origin (the attempt whose checkpoint it started from, 0 =  *)
(* the parent's or none), the newest checkpoint in it, the processes whose *)
(* final record it holds and what its log shows.                           *)
Outcomes == {"none", "complete", "gate", "cache", "error"}
Dir == [by : SUBSET Gens, origin : 0 .. MaxAttempts, base : 0 .. Budget,
        saved : 0 .. Budget, records : SUBSET Gens, outcome : Outcomes]

Worker == [job : Jobs, attempt : Attempts, gen : Gens, steps : 0 .. Budget]

NewJob == [status |-> "pending", attempts |-> 0, from |-> 0, hashes |-> {}]
NoDir  == [by |-> {}, origin |-> 0, base |-> 0, saved |-> 0, records |-> {},
           outcome |-> "none"]
NoReport == [failed |-> [j \in Jobs |-> 0], from |-> [j \in Jobs |-> 0],
             backup |-> FALSE, repaired |-> FALSE]

Alive == ctl \in {"loop", "spawn", "snap"}

Last(jobs, j) == dir[j][jobs[j].attempts]

(* The first controller has just written the manifest. *)
Init ==
    /\ ctl = "loop" /\ gen = 1 /\ cur = 0
    /\ mem = [j \in Jobs |-> NewJob] /\ disk = mem
    /\ running = {} /\ exit = [j \in Jobs |-> "none"] /\ stop = "no"
    /\ workers = {} /\ dir = [j \in Jobs |-> [a \in Attempts |-> NoDir]]
    /\ marker = {} /\ report = NoReport

-----------------------------------------------------------------------------
(* The controller *)

(* choose_resume_checkpoint: the newest checkpoint of the attempt resumed  *)
(* from, else the parent's.                                                *)
HasCheckpoint(j, a) == a # 0 /\ dir[j][a].by # {} /\ dir[j][a].saved > 0
ResumeOrigin(j) == IF HasCheckpoint(j, mem[j].from) THEN mem[j].from ELSE 0

ResumeSteps(j)  == IF HasCheckpoint(j, mem[j].from)
                   THEN dir[j][mem[j].from].saved ELSE Parent

NextPending(j) ==
    /\ mem[j].status = "pending"
    /\ \A k \in Jobs : mem[k].status = "pending" => j <= k

(* start, up to the provenance of the new attempt; a directory left by an  *)
(* unrecorded attempt of the same number is used again.                    *)
Prepare(j) ==
    /\ ctl = "loop" /\ stop = "no" /\ Cardinality(running) < Workers
    /\ NextPending(j) /\ mem[j].attempts < MaxAttempts
    /\ ctl' = "spawn" /\ cur' = j
    /\ LET attempt == mem[j].attempts + 1
           found   == dir[j][attempt]
       IN  /\ mem' = [mem EXCEPT ![j] = [NewJob EXCEPT !.attempts = attempt]]
           /\ dir' = [dir EXCEPT ![j][attempt] =
                        [found EXCEPT !.by = found.by \cup {gen},
                                      !.origin = ResumeOrigin(j),
                                      !.base = ResumeSteps(j)]]
    /\ UNCHANGED <<gen, disk, running, exit, stop, workers, marker, report>>

(* start: Popen, then the in-memory status. *)
Spawn ==
    /\ ctl = "spawn" /\ ctl' = "snap"
    /\ workers' = workers \cup
         {[job |-> cur, attempt |-> mem[cur].attempts, gen |-> gen,
           steps |-> Last(mem, cur).base]}
    /\ mem' = [mem EXCEPT ![cur].status = "running"]
    /\ running' = running \cup {cur}
    /\ exit' = [exit EXCEPT ![cur] = "none"]
    /\ UNCHANGED <<gen, cur, disk, stop, dir, marker, report>>

(* snapshot: the last step of start and of the handling of an exit. *)
Snapshot ==
    /\ ctl = "snap" /\ ctl' = "loop" /\ cur' = 0
    /\ disk' = mem
    /\ UNCHANGED <<gen, mem, running, exit, stop, workers, dir, marker, report>>

(* Mutation: only what an earlier snapshot recorded gets its marker. *)
MarkedLate(j, success) ==
    marker \cup {k \in Jobs : disk[k].status = "succeeded"}

(* The marker of a success is written before the manifest that records it. *)
Marked(j, success) == IF success THEN marker \cup {j} ELSE marker

(* An exited worker: success needs exit code 0 and verified artifacts; a   *)
(* failure after STOP is an interruption unless the risk gate failed.      *)
Reap(j) ==
    LET success == exit[j] = "zero" /\ Last(mem, j).outcome = "complete"
        gate    == Last(mem, j).outcome = "gate"
    IN  /\ ctl = "loop" /\ j \in running /\ exit[j] # "none"
        /\ ctl' = "snap"
        /\ mem' = [mem EXCEPT
             ![j].status = IF success THEN "succeeded"
                           ELSE IF stop # "no" /\ ~gate THEN "interrupted"
                           ELSE "failed",
             ![j].hashes = Last(mem, j).records]
        /\ marker' = Marked(j, success)
        /\ running' = running \ {j}
        /\ UNCHANGED <<gen, cur, disk, exit, stop, workers, dir, report>>

(* STOP: a snapshot, SIGTERM to the live workers and, 60 seconds later,    *)
(* SIGKILL.  What SIGTERM does is up to the worker (WorkerFails).          *)
Signal ==
    /\ Alive /\ stop = "no" /\ stop' = "flagged"
    /\ UNCHANGED <<ctl, gen, cur, mem, disk, running, exit, workers, dir,
                   marker, report>>

SendStop ==
    /\ ctl = "loop" /\ stop = "flagged" /\ running # {}
    /\ stop' = "sent" /\ disk' = mem
    /\ UNCHANGED <<ctl, gen, cur, mem, running, exit, workers, dir, marker, report>>

(* Mutation: the deadline is never set. *)
NoDeadline == FALSE

DeadlinePassed == stop = "sent"

KillWorkers ==
    /\ ctl = "loop" /\ running # {} /\ DeadlinePassed
    /\ stop' = "killed"
    /\ workers' = {w \in workers : w.gen # gen}
    /\ exit' = [j \in Jobs |-> IF j \in running /\ exit[j] = "none"
                               THEN "nonzero" ELSE exit[j]]
    /\ UNCHANGED <<ctl, gen, cur, mem, disk, running, dir, marker, report>>

(* Mutation: the loop ends with its queue, running workers or not. *)
QueueEmpty == stop # "no" \/ \A j \in Jobs : mem[j].status # "pending"

(* The condition of the main loop, and the snapshot after it. *)
Drained ==
    /\ running = {}
    /\ stop # "no" \/ \A j \in Jobs : mem[j].status # "pending"

Return ==
    /\ ctl = "loop" /\ Drained
    /\ ctl' = "over" /\ disk' = mem
    /\ UNCHANGED <<gen, cur, mem, running, exit, stop, workers, dir, marker, report>>

-----------------------------------------------------------------------------
(* Crashes and restarts *)

Gone ==
    /\ ctl' = "down" /\ cur' = 0 /\ mem' = disk /\ running' = {}
    /\ exit' = [j \in Jobs |-> "none"] /\ stop' = "no"

Crash ==
    /\ Alive /\ gen <= MaxCrashes /\ Gone
    /\ UNCHANGED <<gen, disk, workers, dir, marker, report>>

(* The allocation ends: the controller and every worker are gone. *)
AllocationEnds ==
    /\ Alive \/ workers # {}
    /\ workers' = {}
    /\ IF Alive THEN Gone ELSE UNCHANGED <<ctl, cur, mem, running, exit, stop>>
    /\ UNCHANGED <<gen, disk, dir, marker, report>>

(* Mutation: every job is tried again. *)
RequeuedAll(job) ==
    [job EXCEPT !.status = "pending", !.from = job.attempts]

(* --resume: jobs that were running or interrupted are pending again, from *)
(* their last attempt.                                                     *)
Requeued(job) ==
    IF job.status \in {"running", "interrupted"}
    THEN [job EXCEPT !.status = "pending", !.from = job.attempts]
    ELSE job

(* A success is verified again: marker, artifacts and their hashes. *)
Intact(j) ==
    disk[j].status = "succeeded" =>
        /\ j \in marker
        /\ Last(disk, j).outcome = "complete"
        /\ Last(disk, j).records = disk[j].hashes

Resume ==
    /\ ctl \in {"down", "over"} /\ gen < MaxStarts
    /\ gen' = gen + 1 /\ stop' = "no"
    /\ IF \A j \in Jobs : Intact(j)
       THEN ctl' = "loop" /\ mem' = [j \in Jobs |-> Requeued(disk[j])]
       ELSE ctl' = "refused" /\ UNCHANGED mem
    /\ UNCHANGED <<cur, disk, running, exit, workers, dir, marker, report>>

(* prepare_campaign_resume, between two controllers.  Failed jobs are      *)
(* requeued when every one of them failed on the cache before training, on *)
(* a checkpoint of an earlier attempt of this campaign; the report names   *)
(* that attempt.  The first backup is immutable: another set of failures   *)
(* is refused.                                                             *)
FailedJobs == {j \in Jobs : disk[j].status = "failed"}

CacheFailure(j) ==
    /\ Last(disk, j).outcome = "cache" /\ Last(disk, j).saved = 0
    /\ Last(disk, j).origin # 0

RequeueFailed ==
    /\ ctl \in {"down", "over"} /\ FailedJobs # {}
    /\ \A j \in FailedJobs : CacheFailure(j)
    /\ ~report.backup
    /\ disk' = [j \in Jobs |->
         IF j \in FailedJobs
         THEN [disk[j] EXCEPT !.status = "interrupted", !.from = Last(disk, j).origin]
         ELSE disk[j]]
    /\ mem' = disk'
    /\ report' = [report EXCEPT
         !.backup = TRUE,
         !.failed = [j \in Jobs |-> IF j \in FailedJobs THEN disk[j].attempts ELSE 0],
         !.from   = [j \in Jobs |-> IF j \in FailedJobs THEN Last(disk, j).origin ELSE 0]]
    /\ UNCHANGED <<ctl, gen, cur, running, exit, stop, workers, dir, marker>>

(* The second call: the attempt of the report is put back where a job that *)
(* is interrupted names another one.                                       *)
Misdirected(j) ==
    report.failed[j] # 0 /\ disk[j].status = "interrupted"
        /\ disk[j].from # report.from[j]

RepairPointers ==
    /\ ctl \in {"down", "over"} /\ FailedJobs = {} /\ ~report.repaired
    /\ \E j \in Jobs : Misdirected(j)
    /\ disk' = [j \in Jobs |->
         IF Misdirected(j) THEN [disk[j] EXCEPT !.from = report.from[j]] ELSE disk[j]]
    /\ mem' = disk'
    /\ report' = [report EXCEPT !.repaired = TRUE]
    /\ UNCHANGED <<ctl, gen, cur, running, exit, stop, workers, dir, marker>>

-----------------------------------------------------------------------------
(* The workers, as the controller sees them: a checkpoint after every      *)
(* interval, a final record, an exit code.                                 *)

Exits(w, code) ==
    /\ workers' = workers \ {w}
    /\ exit' = IF w.gen = gen /\ Alive THEN [exit EXCEPT ![w.job] = code] ELSE exit

WorkerTrains(w) ==
    /\ w.steps < Budget
    /\ workers' = (workers \ {w}) \cup {[w EXCEPT !.steps = w.steps + 1]}
    /\ dir' = [dir EXCEPT ![w.job][w.attempt].saved =
                 IF @ > w.steps THEN @ ELSE w.steps + 1]
    /\ UNCHANGED <<ctl, gen, cur, mem, disk, running, exit, stop, marker, report>>

WorkerCompletes(w) ==
    /\ w.steps = Budget
    /\ Exits(w, "zero")
    /\ \E result \in {"complete", "gate"} :
           dir' = [dir EXCEPT
                     ![w.job][w.attempt].records = @ \cup {w.gen},
                     ![w.job][w.attempt].outcome = IF @ = "complete" THEN @ ELSE result]
    /\ UNCHANGED <<ctl, gen, cur, mem, disk, running, stop, marker, report>>

WorkerFails(w) ==
    /\ Exits(w, "nonzero")
    /\ \E result \in IF w.steps = dir[w.job][w.attempt].base
                     THEN {"cache", "error"} ELSE {"error"} :
           dir' = [dir EXCEPT ![w.job][w.attempt].outcome =
                     IF @ = "complete" THEN @ ELSE result]
    /\ UNCHANGED <<ctl, gen, cur, mem, disk, running, stop, marker, report>>

-----------------------------------------------------------------------------
Controller ==
    \/ Spawn \/ Snapshot \/ SendStop \/ KillWorkers \/ Return
    \/ \E j \in Jobs : Prepare(j) \/ Reap(j)

Next ==
    \/ Controller
    \/ Signal \/ Crash \/ AllocationEnds \/ Resume
    \/ RequeueFailed \/ RepairPointers
    \/ \E w \in workers : WorkerTrains(w) \/ WorkerCompletes(w) \/ WorkerFails(w)

(* The controller polls every second and the kernel delivers SIGKILL;      *)
(* nothing is assumed of the workers, of crashes or of who restarts what.  *)
Spec == Init /\ [][Next]_vars /\ WF_vars(Controller)

-----------------------------------------------------------------------------
(***************************************************************************)
(* Properties                                                              *)
(***************************************************************************)
TypeOK ==
    /\ ctl \in {"loop", "spawn", "snap", "down", "over", "refused"}
    /\ gen \in Gens /\ cur \in 0 .. NJobs
    /\ ctl = "spawn" => cur \in Jobs /\ mem[cur].attempts \in Attempts
    /\ mem \in [Jobs -> Job] /\ disk \in [Jobs -> Job]
    /\ running \subseteq Jobs
    /\ exit \in [Jobs -> {"none", "zero", "nonzero"}]
    /\ stop \in {"no", "flagged", "sent", "killed"}
    /\ workers \subseteq Worker
    /\ dir \in [Jobs -> [Attempts -> Dir]]
    /\ marker \subseteq Jobs
    /\ report \in [failed : [Jobs -> 0 .. MaxAttempts],
                   from : [Jobs -> 0 .. MaxAttempts],
                   backup : BOOLEAN, repaired : BOOLEAN]

(* --resume refuses a campaign with a completed job only when one attempt  *)
(* directory was used by two controllers: marker, artifacts and hashes of  *)
(* a success are in place wherever a crash hits.                           *)
ResumeAccepted ==
    ctl = "refused" =>
        \E j \in Jobs, a \in Attempts : Cardinality(dir[j][a].by) > 1

(* A success recorded in campaign.json is never lost, requeued or          *)
(* attempted again, by whatever sequence of crashes, restarts and          *)
(* recoveries.                                                             *)
SuccessIsDurable ==
    [][\A j \in Jobs : disk[j].status = "succeeded" => disk'[j] = disk[j]]_vars

(* When the controller returns, nothing it has started is alive and the    *)
(* manifest calls no job running.                                          *)
ReturnsClean ==
    ctl = "over" =>
        /\ \A w \in workers : w.gen # gen
        /\ \A j \in Jobs : disk[j].status # "running"

(* A controller that was told to stop returns, even when the workers       *)
(* ignore SIGTERM (unless it crashes first).                               *)
StopDrains == Alive /\ stop # "no" ~> ~Alive
=============================================================================
