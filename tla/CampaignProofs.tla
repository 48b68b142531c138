--------------------------- MODULE CampaignProofs ---------------------------
(***************************************************************************)
(* A campaign and the dispatch of its workers.  Campaign, for every number *)
(* of jobs, workers, attempts and controllers; WorkerDispatch, for every   *)
(* set of clients: what a leaving manager leaves behind, and that the      *)
(* dispatch is a RequestBoard.                                             *)
(***************************************************************************)
EXTENDS Campaign, WorkerDispatch, FiniteSetTheorems, TLAPS

-----------------------------------------------------------------------------
(* The inductive invariant.                                                *)

(* A job that has left the queue once has an attempt, and so a directory.  *)
(* The job that start() works on is still pending in memory.               *)
AttemptInv ==
    /\ \A j \in Jobs : mem[j].status # "pending" => mem[j].attempts >= 1
    /\ \A j \in Jobs : disk[j].status # "pending" => disk[j].attempts >= 1
    /\ ctl = "spawn" => /\ cur \in Jobs /\ mem[cur].status = "pending"
                        /\ mem[cur].attempts >= 1

(* What the controller waits for is what it calls running. *)
RunningInv ==
    /\ ~Alive => running = {}
    /\ \A j \in running : mem[j].status = "running"
    /\ Alive => \A j \in Jobs : mem[j].status = "running" => j \in running

(* The memory of the controller and campaign.json agree on every success   *)
(* the latter records.                                                     *)
DurableInv ==
    \A j \in Jobs : disk[j].status = "succeeded" => mem[j] = disk[j]

(* A live worker of the present controller is the only one of its job, and *)
(* the controller waits for it; no worker comes from a later controller.   *)
WorkerInv ==
    /\ \A w \in workers : w.gen <= gen
    /\ Alive => \A w \in workers : w.gen = gen =>
                    w.job \in running /\ exit[w.job] = "none"
    /\ \A v, w \in workers : v.gen = gen /\ w.gen = gen /\ v.job = w.job => v = w

-----------------------------------------------------------------------------
(* Types.                                                                  *)

(* A requeued job is a job that keeps its success and has an attempt if it *)
(* had one. *)
LEMMA RequeuedType ==
    ASSUME NEW job \in Job
    PROVE  /\ Requeued(job) \in Job
           /\ Requeued(job).attempts = job.attempts
           /\ Requeued(job).status # "running"
           /\ job.status = "succeeded" => Requeued(job) = job
           /\ Requeued(job).status # "pending" => job.status # "pending"
BY CampaignAssumption DEF Requeued, Job, Statuses

(* The job a new attempt is prepared for has a checkpoint to start from    *)
(* that lies within the budget.                                            *)
LEMMA ResumeType ==
    ASSUME TypeOK, NEW j \in Jobs
    PROVE  ResumeOrigin(j) \in 0 .. MaxAttempts /\ ResumeSteps(j) \in 0 .. Budget
<1>1. mem[j].from \in 0 .. MaxAttempts
  BY DEF TypeOK, Job
<1>2. ASSUME HasCheckpoint(j, mem[j].from)
      PROVE  dir[j][mem[j].from].saved \in 0 .. Budget
  <2>1. mem[j].from \in Attempts
    BY <1>1, <1>2, CampaignAssumption DEF HasCheckpoint, Attempts
  <2> QED
    BY <2>1 DEF TypeOK, Dir
<1> QED
  BY <1>1, <1>2, CampaignAssumption DEF ResumeOrigin, ResumeSteps

(* The first controller starts well-typed. *)
LEMMA InitType == Init => TypeOK /\ AttemptInv
<1> SUFFICES ASSUME Init PROVE TypeOK /\ AttemptInv
  OBVIOUS
<1>1. NewJob \in Job
  BY CampaignAssumption DEF NewJob, Job, Statuses
<1>2. NoDir \in Dir
  BY CampaignAssumption DEF NoDir, Dir, Outcomes
<1>3. report \in [failed : [Jobs -> 0 .. MaxAttempts],
                  from : [Jobs -> 0 .. MaxAttempts],
                  backup : BOOLEAN, repaired : BOOLEAN]
  BY CampaignAssumption DEF Init, NoReport
<1>4. TypeOK
  BY <1>1, <1>2, <1>3, CampaignAssumption DEF Init, TypeOK, Gens
<1>5. AttemptInv
  BY DEF Init, AttemptInv, NewJob
<1> QED
  BY <1>4, <1>5

(* Every step of the system keeps the types and the attempts. *)
LEMMA NextType ==
    TypeOK /\ AttemptInv /\ RunningInv /\ [Next]_vars => (TypeOK /\ AttemptInv)'
<1> SUFFICES ASSUME TypeOK, AttemptInv, RunningInv, [Next]_vars
             PROVE  TypeOK' /\ AttemptInv'
  OBVIOUS
<1>0. mem \in [Jobs -> Job] /\ disk \in [Jobs -> Job]
  BY DEF TypeOK
<1>1. CASE Spawn
  <2>1. mem' \in [Jobs -> Job] /\ \A j \in Jobs : mem'[j].attempts = mem[j].attempts
    BY <1>0, <1>1 DEF Spawn, Job, Statuses
  <2>2. /\ [job |-> cur, attempt |-> mem[cur].attempts, gen |-> gen,
            steps |-> Last(mem, cur).base] \in Worker
    BY <1>1 DEF Spawn, TypeOK, Worker, Last, Dir
  <2>3. TypeOK'
    BY <1>1, <2>1, <2>2 DEF Spawn, TypeOK
  <2>4. AttemptInv'
    BY <1>0, <1>1, <2>1 DEF Spawn, AttemptInv
  <2> QED
    BY <2>3, <2>4
<1>2. CASE Snapshot
  BY <1>2, CampaignAssumption DEF Snapshot, TypeOK, AttemptInv
<1>3. CASE SendStop
  BY <1>3 DEF SendStop, TypeOK, AttemptInv
<1>4. CASE KillWorkers
  <2>1. exit' \in [Jobs -> {"none", "zero", "nonzero"}]
    BY <1>4 DEF KillWorkers, TypeOK
  <2>2. TypeOK'
    BY <1>4, <2>1 DEF KillWorkers, TypeOK
  <2>3. AttemptInv'
    BY <1>4 DEF KillWorkers, AttemptInv
  <2> QED
    BY <2>2, <2>3
<1>5. CASE Return
  BY <1>5 DEF Return, TypeOK, AttemptInv
<1>6. ASSUME NEW j \in Jobs, Prepare(j) PROVE TypeOK' /\ AttemptInv'
  <2>1. mem[j].attempts + 1 \in Attempts
    BY <1>0, <1>6, CampaignAssumption DEF Prepare, Job, Attempts
  <2>2. /\ mem' \in [Jobs -> Job]
        /\ mem'[j].attempts = mem[j].attempts + 1 /\ mem'[j].status = "pending"
        /\ \A k \in Jobs \ {j} : mem'[k] = mem[k]
    BY <1>0, <1>6, <2>1, CampaignAssumption DEF Prepare, Job, NewJob, Statuses
  <2>3. dir[j][mem[j].attempts + 1] \in Dir
    BY <2>1 DEF TypeOK
  <2> DEFINE found == dir[j][mem[j].attempts + 1]
  <2>4. ResumeOrigin(j) \in 0 .. MaxAttempts /\ ResumeSteps(j) \in 0 .. Budget
    BY ResumeType
  <2>5. [found EXCEPT !.by = found.by \cup {gen}, !.origin = ResumeOrigin(j),
                      !.base = ResumeSteps(j)] \in Dir
    <3>1. gen \in Gens
      BY DEF TypeOK
    <3> HIDE DEF found
    <3> QED
      BY <2>3, <2>4, <3>1 DEF Dir, found
  <2>6. dir' \in [Jobs -> [Attempts -> Dir]]
    BY <1>6, <2>1, <2>5 DEF Prepare, TypeOK
  <2>7. TypeOK'
    BY <1>6, <2>1, <2>2, <2>6 DEF Prepare, TypeOK, Jobs
  <2>8. AttemptInv'
    BY <1>0, <1>6, <2>1, <2>2 DEF Prepare, AttemptInv, Attempts
  <2> QED
    BY <2>7, <2>8
<1>7. ASSUME NEW j \in Jobs, Reap(j) PROVE TypeOK' /\ AttemptInv'
  <2>1. mem[j].attempts \in Attempts
    BY <1>0, <1>7, CampaignAssumption DEF Reap, RunningInv, AttemptInv, Job, Attempts
  <2>2. Last(mem, j).records \in SUBSET Gens
    BY <2>1 DEF TypeOK, Last, Dir
  <2>3. mem' \in [Jobs -> Job] /\ \A k \in Jobs : mem'[k].attempts = mem[k].attempts
    <3>1. PICK st \in Statuses :
            mem' = [mem EXCEPT ![j].status = st, ![j].hashes = Last(mem, j).records]
      BY <1>7, Zenon DEF Reap, Statuses
    <3> QED
      BY <1>0, <2>2, <3>1 DEF Job
  <2>4. marker' \subseteq Jobs
    BY <1>7 DEF Reap, Marked, TypeOK
  <2>5. TypeOK'
    BY <1>7, <2>3, <2>4 DEF Reap, TypeOK
  <2>6. AttemptInv'
    BY <1>0, <1>7, <2>1, <2>3 DEF Reap, AttemptInv, Attempts
  <2> QED
    BY <2>5, <2>6
<1>8. CASE Signal
  BY <1>8 DEF Signal, TypeOK, AttemptInv
<1>9. CASE Crash
  BY <1>9, CampaignAssumption DEF Crash, Gone, TypeOK, AttemptInv
<1>10. CASE AllocationEnds
  <2>1. CASE Alive
    BY <1>10, <2>1, CampaignAssumption DEF AllocationEnds, Gone, TypeOK, AttemptInv
  <2>2. CASE ~Alive
    BY <1>10, <2>2 DEF AllocationEnds, TypeOK, AttemptInv
  <2> QED
    BY <2>1, <2>2
<1>11. CASE Resume
  <2>1. gen' \in Gens
    BY <1>11, CampaignAssumption DEF Resume, TypeOK, Gens
  <2>2. CASE \A j \in Jobs : Intact(j)
    <3>1. mem' \in [Jobs -> Job]
      BY <1>0, <1>11, <2>2, RequeuedType DEF Resume
    <3>2. AttemptInv'
      BY <1>0, <1>11, <2>2, RequeuedType DEF Resume, AttemptInv
    <3> QED
      BY <1>11, <2>1, <2>2, <3>1, <3>2 DEF Resume, TypeOK
  <2>3. CASE ~\A j \in Jobs : Intact(j)
    BY <1>11, <2>1, <2>3 DEF Resume, TypeOK, AttemptInv
  <2> QED
    BY <2>2, <2>3
<1>12. CASE RequeueFailed
  <2>1. \A j \in FailedJobs : /\ disk[j].attempts \in Attempts
                              /\ Last(disk, j).origin \in 0 .. MaxAttempts
    <3> SUFFICES ASSUME NEW j \in FailedJobs
                 PROVE  /\ disk[j].attempts \in Attempts
                        /\ Last(disk, j).origin \in 0 .. MaxAttempts
      OBVIOUS
    <3>1. disk[j].attempts \in Attempts
      BY <1>0, CampaignAssumption DEF FailedJobs, AttemptInv, Job, Attempts
    <3> QED
      BY <3>1 DEF FailedJobs, TypeOK, Last, Dir
  <2>2. /\ disk' \in [Jobs -> Job]
        /\ \A j \in Jobs : disk'[j].attempts = disk[j].attempts
        /\ \A j \in Jobs : disk'[j].status # "pending" => disk[j].status # "pending"
    BY <1>0, <1>12, <2>1 DEF RequeueFailed, FailedJobs, Job, Statuses
  <2> DEFINE failed == [j \in Jobs |-> IF j \in FailedJobs THEN disk[j].attempts ELSE 0]
             from   == [j \in Jobs |-> IF j \in FailedJobs THEN Last(disk, j).origin ELSE 0]
  <2>3. failed \in [Jobs -> 0 .. MaxAttempts] /\ from \in [Jobs -> 0 .. MaxAttempts]
    BY <2>1, CampaignAssumption DEF Attempts
  <2>4. report' = [report EXCEPT !.backup = TRUE, !.failed = failed, !.from = from]
    BY <1>12 DEF RequeueFailed
  <2> HIDE DEF failed, from
  <2>5. report' \in [failed : [Jobs -> 0 .. MaxAttempts],
                     from : [Jobs -> 0 .. MaxAttempts],
                     backup : BOOLEAN, repaired : BOOLEAN]
    BY <2>3, <2>4 DEF TypeOK
  <2>6. TypeOK'
    BY <1>12, <2>2, <2>5 DEF RequeueFailed, TypeOK
  <2>7. AttemptInv'
    BY <1>0, <1>12, <2>2 DEF RequeueFailed, AttemptInv
  <2> QED
    BY <2>6, <2>7
<1>13. CASE RepairPointers
  <2>1. \A j \in Jobs : report.from[j] \in 0 .. MaxAttempts
    BY DEF TypeOK
  <2>2. /\ disk' \in [Jobs -> Job]
        /\ \A j \in Jobs : /\ disk'[j].attempts = disk[j].attempts
                           /\ disk'[j].status = disk[j].status
    BY <1>0, <1>13, <2>1 DEF RepairPointers, Job
  <2>3. report' \in [failed : [Jobs -> 0 .. MaxAttempts],
                     from : [Jobs -> 0 .. MaxAttempts],
                     backup : BOOLEAN, repaired : BOOLEAN]
    BY <1>13 DEF RepairPointers, TypeOK
  <2>4. TypeOK'
    BY <1>13, <2>2, <2>3 DEF RepairPointers, TypeOK
  <2>5. AttemptInv'
    BY <1>0, <1>13, <2>2 DEF RepairPointers, AttemptInv
  <2> QED
    BY <2>4, <2>5
<1>14. ASSUME NEW w \in workers, WorkerTrains(w) PROVE TypeOK' /\ AttemptInv'
  <2>1. w \in Worker
    BY DEF TypeOK
  <2>2. w.steps + 1 \in 0 .. Budget
    BY <1>14, <2>1, CampaignAssumption DEF WorkerTrains, Worker
  <2>3. workers' \subseteq Worker
    BY <1>14, <2>1, <2>2 DEF WorkerTrains, TypeOK, Worker
  <2>4. dir[w.job][w.attempt] \in Dir
    BY <2>1 DEF TypeOK, Worker
  <2>5. dir' \in [Jobs -> [Attempts -> Dir]]
    BY <1>14, <2>1, <2>2, <2>4 DEF WorkerTrains, TypeOK, Worker, Dir
  <2> QED
    BY <1>14, <2>3, <2>5 DEF WorkerTrains, TypeOK, AttemptInv
<1>15. ASSUME NEW w \in workers, WorkerCompletes(w) PROVE TypeOK' /\ AttemptInv'
  <2>1. w \in Worker
    BY DEF TypeOK
  <2>2. dir[w.job][w.attempt] \in Dir
    BY <2>1 DEF TypeOK, Worker
  <2>3. dir' \in [Jobs -> [Attempts -> Dir]]
    <3>1. PICK ending \in {"complete", "gate"} :
            dir' = [dir EXCEPT
                      ![w.job][w.attempt].records = @ \cup {w.gen},
                      ![w.job][w.attempt].outcome = IF @ = "complete" THEN @ ELSE ending]
      BY <1>15 DEF WorkerCompletes
    <3> DEFINE old == dir[w.job][w.attempt]
               new == [old EXCEPT !.records = @ \cup {w.gen},
                                  !.outcome = IF @ = "complete" THEN @ ELSE ending]
    <3>2. w.gen \in Gens /\ w.job \in Jobs /\ w.attempt \in Attempts
      BY <2>1 DEF Worker
    <3>3. new \in Dir
      BY <2>2, <3>2 DEF Dir, Outcomes
    <3>4. dir' = [dir EXCEPT ![w.job][w.attempt] = new]
      BY <2>2, <3>1, <3>2 DEF TypeOK, Dir
    <3> HIDE DEF new
    <3> QED
      BY <3>2, <3>3, <3>4 DEF TypeOK
  <2>4. workers' \subseteq Worker /\ exit' \in [Jobs -> {"none", "zero", "nonzero"}]
    BY <1>15, <2>1 DEF WorkerCompletes, Exits, TypeOK, Worker
  <2> QED
    BY <1>15, <2>3, <2>4 DEF WorkerCompletes, TypeOK, AttemptInv
<1>16. ASSUME NEW w \in workers, WorkerFails(w) PROVE TypeOK' /\ AttemptInv'
  <2>1. w \in Worker
    BY DEF TypeOK
  <2>2. dir[w.job][w.attempt] \in Dir
    BY <2>1 DEF TypeOK, Worker
  <2>3. PICK ending \in {"cache", "error"} :
          dir' = [dir EXCEPT ![w.job][w.attempt].outcome =
                    IF @ = "complete" THEN @ ELSE ending]
    BY <1>16 DEF WorkerFails
  <2>4. dir' \in [Jobs -> [Attempts -> Dir]]
    BY <2>1, <2>2, <2>3 DEF TypeOK, Worker, Dir, Outcomes
  <2>5. workers' \subseteq Worker /\ exit' \in [Jobs -> {"none", "zero", "nonzero"}]
    BY <1>16, <2>1 DEF WorkerFails, Exits, TypeOK, Worker
  <2> QED
    BY <1>16, <2>4, <2>5 DEF WorkerFails, TypeOK, AttemptInv
<1>17. CASE UNCHANGED vars
  BY <1>17 DEF vars, TypeOK, AttemptInv
<1> QED
  BY <1>1, <1>2, <1>3, <1>4, <1>5, <1>6, <1>7, <1>8, <1>9, <1>10, <1>11,
     <1>12, <1>13, <1>14, <1>15, <1>16, <1>17 DEF Next, Controller

-----------------------------------------------------------------------------
(* The controller's books: what it calls running, what it has recorded.    *)

(* The books are in order at the start. *)
LEMMA BooksInit == Init => RunningInv /\ DurableInv
BY DEF Init, RunningInv, DurableInv, Alive, NewJob

(* Every step keeps the books. *)
LEMMA BooksNext ==
    TypeOK /\ AttemptInv /\ RunningInv /\ DurableInv /\ [Next]_vars
        => (RunningInv /\ DurableInv)'
<1> SUFFICES ASSUME TypeOK, AttemptInv, RunningInv, DurableInv, [Next]_vars
             PROVE  RunningInv' /\ DurableInv'
  OBVIOUS
<1>0. mem \in [Jobs -> Job] /\ disk \in [Jobs -> Job]
  BY DEF TypeOK
<1>1. CASE Spawn
  BY <1>0, <1>1 DEF Spawn, AttemptInv, RunningInv, DurableInv, Alive, Job
<1>2. CASE Snapshot
  BY <1>2 DEF Snapshot, RunningInv, DurableInv, Alive
<1>3. CASE SendStop
  BY <1>3 DEF SendStop, RunningInv, DurableInv, Alive
<1>4. CASE KillWorkers
  BY <1>4 DEF KillWorkers, RunningInv, DurableInv, Alive
<1>5. CASE Return
  BY <1>5 DEF Return, Drained, RunningInv, DurableInv, Alive
<1>6. ASSUME NEW j \in Jobs, Prepare(j) PROVE RunningInv' /\ DurableInv'
  <2>1. /\ mem[j].status = "pending" /\ mem'[j].status = "pending"
        /\ \A k \in Jobs \ {j} : mem'[k] = mem[k]
    BY <1>0, <1>6 DEF Prepare, NextPending, NewJob
  <2>2. j \notin running /\ disk[j].status # "succeeded"
    BY <2>1 DEF RunningInv, DurableInv
  <2> QED
    BY <1>6, <2>1, <2>2 DEF Prepare, RunningInv, DurableInv, Alive, TypeOK
<1>7. ASSUME NEW j \in Jobs, Reap(j) PROVE RunningInv' /\ DurableInv'
  <2>1. mem[j].status = "running" /\ disk[j].status # "succeeded"
    BY <1>7 DEF Reap, RunningInv, DurableInv
  <2>2. PICK st \in {"succeeded", "interrupted", "failed"} :
          mem' = [mem EXCEPT ![j].status = st, ![j].hashes = Last(mem, j).records]
    BY <1>7, Zenon DEF Reap
  <2>3. mem'[j].status # "running" /\ \A k \in Jobs \ {j} : mem'[k] = mem[k]
    BY <1>0, <2>2 DEF Job
  <2> QED
    BY <1>7, <2>1, <2>3 DEF Reap, RunningInv, DurableInv, Alive, TypeOK
<1>8. CASE Signal
  BY <1>8 DEF Signal, RunningInv, DurableInv, Alive
<1>9. CASE Crash
  BY <1>9 DEF Crash, Gone, RunningInv, DurableInv, Alive
<1>10. CASE AllocationEnds
  BY <1>10 DEF AllocationEnds, Gone, RunningInv, DurableInv, Alive
<1>11. CASE Resume
  <2>1. running = {} /\ running' = {} /\ disk' = disk
    BY <1>11 DEF Resume, RunningInv, Alive
  <2>2. CASE \A j \in Jobs : Intact(j)
    <3>1. \A j \in Jobs : mem'[j] = Requeued(disk[j])
      BY <1>11, <2>2 DEF Resume
    <3> QED
      BY <1>0, <2>1, <3>1, RequeuedType DEF RunningInv, DurableInv
  <2>3. CASE ~\A j \in Jobs : Intact(j)
    BY <1>11, <2>1, <2>3 DEF Resume, RunningInv, DurableInv, Alive
  <2> QED
    BY <2>2, <2>3
<1>12. CASE RequeueFailed
  BY <1>12 DEF RequeueFailed, RunningInv, DurableInv, Alive
<1>13. CASE RepairPointers
  BY <1>13 DEF RepairPointers, RunningInv, DurableInv, Alive
<1>14. ASSUME NEW w \in workers, WorkerTrains(w) PROVE RunningInv' /\ DurableInv'
  BY <1>14 DEF WorkerTrains, RunningInv, DurableInv, Alive
<1>15. ASSUME NEW w \in workers, WorkerCompletes(w) PROVE RunningInv' /\ DurableInv'
  BY <1>15 DEF WorkerCompletes, RunningInv, DurableInv, Alive
<1>16. ASSUME NEW w \in workers, WorkerFails(w) PROVE RunningInv' /\ DurableInv'
  BY <1>16 DEF WorkerFails, RunningInv, DurableInv, Alive
<1>17. CASE UNCHANGED vars
  BY <1>17 DEF vars, RunningInv, DurableInv, Alive
<1> QED
  BY <1>1, <1>2, <1>3, <1>4, <1>5, <1>6, <1>7, <1>8, <1>9, <1>10, <1>11,
     <1>12, <1>13, <1>14, <1>15, <1>16, <1>17 DEF Next, Controller

(* A step leaves alone what campaign.json says of a completed job. *)
LEMMA SuccessKept ==
    ASSUME TypeOK, DurableInv, [Next]_vars,
           NEW j \in Jobs, disk[j].status = "succeeded"
    PROVE  disk'[j] = disk[j]
<1>1. disk' = disk \/ disk' = mem \/ RequeueFailed \/ RepairPointers
  BY DEF Next, vars, Controller, Spawn, Snapshot, SendStop, KillWorkers, Return,
         Prepare, Reap, Signal, Crash, AllocationEnds, Resume,
         WorkerTrains, WorkerCompletes, WorkerFails
<1>2. CASE RequeueFailed
  BY <1>2 DEF RequeueFailed, FailedJobs
<1>3. CASE RepairPointers
  BY <1>3 DEF RepairPointers, Misdirected
<1> QED
  BY <1>1, <1>2, <1>3 DEF DurableInv

-----------------------------------------------------------------------------
(* The workers of the present controller.                                  *)

(* At the start there is none. *)
LEMMA WorkersInit == Init => WorkerInv /\ ReturnsClean
BY DEF Init, WorkerInv, ReturnsClean

(* A worker that ends leaves the others as they were. *)
LEMMA ExitKeepsWorkers ==
    ASSUME TypeOK, WorkerInv, NEW w \in workers, NEW code, Exits(w, code),
           ctl' = ctl, gen' = gen, running' = running
    PROVE  WorkerInv'
<1>1. workers' = workers \ {w}
  BY DEF Exits
<1>2. ASSUME Alive, NEW v \in workers', v.gen = gen
      PROVE  exit'[v.job] = "none"
  <2>1. v \in workers /\ v # w
    BY <1>1, <1>2
  <2>2. exit[v.job] = "none" /\ (w.gen = gen => w.job # v.job)
    BY <1>2, <2>1 DEF WorkerInv
  <2> QED
    BY <2>2 DEF Exits, TypeOK
<1> QED
  BY <1>1, <1>2 DEF WorkerInv, Alive

(* Every step keeps the present workers known and single. *)
LEMMA WorkersNext ==
    TypeOK /\ AttemptInv /\ RunningInv /\ WorkerInv /\ ReturnsClean /\ [Next]_vars
        => (WorkerInv /\ ReturnsClean)'
<1> SUFFICES ASSUME TypeOK, AttemptInv, RunningInv, WorkerInv, ReturnsClean,
                    [Next]_vars
             PROVE  WorkerInv' /\ ReturnsClean'
  OBVIOUS
<1>0. /\ gen \in Nat
      /\ exit \in [Jobs -> {"none", "zero", "nonzero"}]
      /\ workers \subseteq Worker
  BY CampaignAssumption DEF TypeOK, Gens
<1>1. CASE Spawn
  <2> DEFINE new == [job |-> cur, attempt |-> mem[cur].attempts, gen |-> gen,
                     steps |-> Last(mem, cur).base]
  <2>1. workers' = workers \cup {new} /\ new.job = cur /\ new.gen = gen
    BY <1>1 DEF Spawn
  <2>2. cur \in Jobs /\ cur \notin running
    BY <1>1 DEF Spawn, AttemptInv, RunningInv
  <2>3. \A w \in workers : w.gen = gen => w.job # cur
    BY <1>1, <2>2 DEF Spawn, WorkerInv, Alive
  <2> HIDE DEF new
  <2>4. \A w \in workers' : w.gen = gen => w.job \in running' /\ exit'[w.job] = "none"
    BY <1>0, <1>1, <2>1, <2>2 DEF Spawn, WorkerInv, Alive, Worker
  <2> QED
    BY <1>0, <1>1, <2>1, <2>3, <2>4 DEF Spawn, WorkerInv, ReturnsClean
<1>2. CASE Snapshot
  BY <1>2 DEF Snapshot, WorkerInv, ReturnsClean, Alive
<1>3. CASE SendStop
  BY <1>3 DEF SendStop, WorkerInv, ReturnsClean, Alive
<1>4. CASE KillWorkers
  BY <1>0, <1>4 DEF KillWorkers, WorkerInv, ReturnsClean, Alive
<1>5. CASE Return
  <2>1. running = {} /\ Alive
    BY <1>5 DEF Return, Drained, Alive
  <2>2. ReturnsClean'
    BY <1>5, <2>1 DEF Return, ReturnsClean, WorkerInv, RunningInv
  <2> QED
    BY <1>5, <2>2 DEF Return, WorkerInv, Alive
<1>6. ASSUME NEW j \in Jobs, Prepare(j) PROVE WorkerInv' /\ ReturnsClean'
  BY <1>6 DEF Prepare, WorkerInv, ReturnsClean, Alive
<1>7. ASSUME NEW j \in Jobs, Reap(j) PROVE WorkerInv' /\ ReturnsClean'
  BY <1>7 DEF Reap, WorkerInv, ReturnsClean, Alive
<1>8. CASE Signal
  BY <1>8 DEF Signal, WorkerInv, ReturnsClean, Alive
<1>9. CASE Crash
  BY <1>9 DEF Crash, Gone, WorkerInv, ReturnsClean, Alive
<1>10. CASE AllocationEnds
  BY <1>10 DEF AllocationEnds, Gone, WorkerInv, ReturnsClean, Alive
<1>11. CASE Resume
  <2>1. \A w \in workers : w.gen \in Nat /\ w.gen # gen'
    BY <1>0, <1>11, CampaignAssumption DEF Resume, WorkerInv, Worker, Gens
  <2> QED
    BY <1>0, <1>11, <2>1 DEF Resume, WorkerInv, ReturnsClean
<1>12. CASE RequeueFailed
  <2>1. \A j \in Jobs : disk'[j].status = "running" => disk[j].status = "running"
    BY <1>12 DEF RequeueFailed, FailedJobs, TypeOK, Job
  <2> QED
    BY <1>12, <2>1 DEF RequeueFailed, WorkerInv, ReturnsClean, Alive
<1>13. CASE RepairPointers
  <2>1. \A j \in Jobs : disk'[j].status = "running" => disk[j].status = "running"
    BY <1>13 DEF RepairPointers, TypeOK, Job
  <2> QED
    BY <1>13, <2>1 DEF RepairPointers, WorkerInv, ReturnsClean, Alive
<1>14. ASSUME NEW w \in workers, WorkerTrains(w) PROVE WorkerInv' /\ ReturnsClean'
  <2> DEFINE new == [w EXCEPT !.steps = w.steps + 1]
  <2>1. workers' = (workers \ {w}) \cup {new} /\ new.job = w.job /\ new.gen = w.gen
    BY <1>0, <1>14 DEF WorkerTrains, Worker
  <2> HIDE DEF new
  <2> QED
    BY <1>14, <2>1 DEF WorkerTrains, WorkerInv, ReturnsClean, Alive
<1>15. ASSUME NEW w \in workers, WorkerCompletes(w) PROVE WorkerInv' /\ ReturnsClean'
  <2>1. WorkerInv'
    BY <1>15, ExitKeepsWorkers DEF WorkerCompletes
  <2> QED
    BY <1>15, <2>1 DEF WorkerCompletes, Exits, ReturnsClean
<1>16. ASSUME NEW w \in workers, WorkerFails(w) PROVE WorkerInv' /\ ReturnsClean'
  <2>1. WorkerInv'
    BY <1>16, ExitKeepsWorkers DEF WorkerFails
  <2> QED
    BY <1>16, <2>1 DEF WorkerFails, Exits, ReturnsClean
<1>17. CASE UNCHANGED vars
  BY <1>17 DEF vars, WorkerInv, ReturnsClean, Alive
<1> QED
  BY <1>1, <1>2, <1>3, <1>4, <1>5, <1>6, <1>7, <1>8, <1>9, <1>10, <1>11,
     <1>12, <1>13, <1>14, <1>15, <1>16, <1>17 DEF Next, Controller

-----------------------------------------------------------------------------
(* The evidence of a success.                                              *)

(* Two controllers have used the directory of the attempt. *)
Shared(j, a) == \E g, h \in dir[j][a].by : g # h

(* What --resume verifies of a success is there and nobody is left who     *)
(* could write to it, or the directory was shared.                         *)
Evident(jobs, j) ==
    \/ Shared(j, jobs[j].attempts)
    \/ /\ Last(jobs, j).outcome = "complete"
       /\ Last(jobs, j).records = jobs[j].hashes
       /\ \A w \in workers : w.job = j => w.attempt # jobs[j].attempts

(* The directory of an attempt names the controllers that used it, those   *)
(* of its workers, of its records and of what is waited for among them.    *)
UserInv ==
    /\ \A w \in workers : w.gen \in dir[w.job][w.attempt].by
    /\ \A j \in Jobs, a \in Attempts : dir[j][a].records \subseteq dir[j][a].by
    /\ ctl = "spawn" => gen \in Last(mem, cur).by
    /\ \A j \in running : gen \in Last(mem, j).by

EvidenceInv ==
    /\ \A j \in Jobs : mem[j].status = "succeeded" => j \in marker /\ Evident(mem, j)
    /\ \A j \in Jobs : disk[j].status = "succeeded" => j \in marker /\ Evident(disk, j)
    /\ ctl = "refused" => \E j \in Jobs, a \in Attempts : Shared(j, a)

(* The attempts of the jobs whose directories matter. *)
LEMMA AttemptsUsed ==
    ASSUME TypeOK, AttemptInv, RunningInv
    PROVE  /\ \A j \in Jobs : mem[j].status # "pending" => mem[j].attempts \in Attempts
           /\ \A j \in Jobs : disk[j].status # "pending" => disk[j].attempts \in Attempts
           /\ \A j \in running : j \in Jobs /\ mem[j].attempts \in Attempts
           /\ ctl = "spawn" => cur \in Jobs /\ mem[cur].attempts \in Attempts
           /\ \A w \in workers : w.job \in Jobs /\ w.attempt \in Attempts
<1>1. ASSUME NEW job \in Job, job.attempts >= 1 PROVE job.attempts \in Attempts
  BY <1>1, CampaignAssumption DEF Job, Attempts
<1>2. \A j \in Jobs : mem[j] \in Job /\ disk[j] \in Job
  BY DEF TypeOK
<1>3. \A j \in Jobs : mem[j].status # "pending" => mem[j].attempts \in Attempts
  BY <1>1, <1>2 DEF AttemptInv
<1>4. \A j \in Jobs : disk[j].status # "pending" => disk[j].attempts \in Attempts
  BY <1>1, <1>2 DEF AttemptInv
<1>5. \A j \in running : j \in Jobs /\ mem[j].attempts \in Attempts
  BY <1>3 DEF RunningInv, TypeOK
<1>6. ctl = "spawn" => cur \in Jobs /\ mem[cur].attempts \in Attempts
  BY <1>1, <1>2 DEF AttemptInv
<1>7. \A w \in workers : w.job \in Jobs /\ w.attempt \in Attempts
  BY DEF TypeOK, Worker
<1> QED
  BY <1>3, <1>4, <1>5, <1>6, <1>7

(* A worker that completes adds its record to its directory. *)
LEMMA CompletesRecord ==
    ASSUME TypeOK, NEW w \in workers, WorkerCompletes(w)
    PROVE  \A j \in Jobs, a \in Attempts :
              IF j = w.job /\ a = w.attempt
              THEN /\ dir'[j][a].by = dir[j][a].by
                   /\ dir'[j][a].records = dir[j][a].records \cup {w.gen}
              ELSE dir'[j][a] = dir[j][a]
<1>1. w.job \in Jobs /\ w.attempt \in Attempts
  BY DEF TypeOK, Worker
<1>2. PICK ending \in {"complete", "gate"} :
        dir' = [dir EXCEPT
                  ![w.job][w.attempt].records = @ \cup {w.gen},
                  ![w.job][w.attempt].outcome = IF @ = "complete" THEN @ ELSE ending]
  BY DEF WorkerCompletes
<1> DEFINE old == dir[w.job][w.attempt]
           new == [old EXCEPT !.records = @ \cup {w.gen},
                              !.outcome = IF @ = "complete" THEN @ ELSE ending]
<1>3. old \in Dir /\ dir \in [Jobs -> [Attempts -> Dir]]
  BY <1>1 DEF TypeOK
<1>4. new.by = old.by /\ new.records = old.records \cup {w.gen}
  BY <1>3 DEF Dir
<1>5. dir' = [dir EXCEPT ![w.job][w.attempt] = new]
  BY <1>1, <1>2, <1>3 DEF Dir
<1> HIDE DEF new
<1> QED
  BY <1>1, <1>3, <1>4, <1>5

(* At the start there is no success. *)
LEMMA EvidenceInit == Init => UserInv /\ EvidenceInv
BY DEF Init, UserInv, EvidenceInv, NewJob, NoDir, Jobs, Attempts

(* A step that leaves the directories alone and starts no worker leaves    *)
(* the evidence alone.                                                     *)
LEMMA EvidenceStays ==
    ASSUME EvidenceInv, dir' = dir, workers' \subseteq workers, marker \subseteq marker',
           \A j \in Jobs : mem'[j].status = "succeeded" =>
               mem'[j] \in {mem[j], disk[j]},
           \A j \in Jobs : disk'[j].status = "succeeded" =>
               disk'[j] \in {mem[j], disk[j]},
           ctl' = "refused" => ctl = "refused"
    PROVE  EvidenceInv'
BY DEF EvidenceInv, Evident, Shared, Last

(* A step that changes a directory only adds users to it, and only to one  *)
(* of a job that has no success, or changes what a worker of it may.       *)
LEMMA EvidenceGrows ==
    ASSUME EvidenceInv, marker' = marker, mem' = mem, disk' = disk, ctl' = ctl,
           TypeOK, AttemptInv, RunningInv,
           NEW w \in workers,
           \A j \in Jobs, a \in Attempts :
               /\ dir'[j][a].by = dir[j][a].by
               /\ ~(j = w.job /\ a = w.attempt) => dir'[j][a] = dir[j][a],
           \A v \in workers' : \E u \in workers : u.job = v.job /\ u.attempt = v.attempt
    PROVE  EvidenceInv'
<1>1. \A j \in Jobs, a \in Attempts : Shared(j, a) => Shared(j, a)'
  BY DEF Shared
<1>2. ASSUME NEW j \in Jobs, NEW job \in {mem[j], disk[j]}, job.status = "succeeded"
      PROVE  \/ Shared(j, job.attempts)
             \/ dir'[j][job.attempts] = dir[j][job.attempts]
  <2>1. job.attempts \in Attempts
    BY <1>2, AttemptsUsed
  <2>2. j = w.job /\ job.attempts = w.attempt => Shared(j, job.attempts)
    BY <1>2 DEF EvidenceInv, Evident
  <2> QED
    BY <2>1, <2>2
<1>3. ASSUME NEW j \in Jobs, mem[j].status = "succeeded" PROVE Evident(mem, j)'
  <2>1. mem[j].attempts \in Attempts
    BY <1>3, AttemptsUsed
  <2> QED
    BY <1>1, <1>2, <1>3, <2>1 DEF EvidenceInv, Evident, Last
<1>4. ASSUME NEW j \in Jobs, disk[j].status = "succeeded" PROVE Evident(disk, j)'
  <2>1. disk[j].attempts \in Attempts
    BY <1>4, AttemptsUsed
  <2> QED
    BY <1>1, <1>2, <1>4, <2>1 DEF EvidenceInv, Evident, Last
<1> QED
  BY <1>1, <1>3, <1>4 DEF EvidenceInv

(* Every step keeps the users of the directories known. *)
LEMMA UsersNext ==
    TypeOK /\ AttemptInv /\ RunningInv /\ UserInv /\ [Next]_vars => UserInv'
<1> SUFFICES ASSUME TypeOK, AttemptInv, RunningInv, UserInv, [Next]_vars
             PROVE  UserInv'
  OBVIOUS
<1>0. mem \in [Jobs -> Job] /\ dir \in [Jobs -> [Attempts -> Dir]] /\ workers \subseteq Worker
  BY DEF TypeOK
<1>1. CASE Spawn
  <2> DEFINE new == [job |-> cur, attempt |-> mem[cur].attempts, gen |-> gen,
                     steps |-> Last(mem, cur).base]
  <2>1. workers' = workers \cup {new} /\ dir' = dir /\ gen' = gen
    BY <1>1 DEF Spawn
  <2>2. new.job = cur /\ new.attempt = mem[cur].attempts /\ new.gen = gen
    OBVIOUS
  <2> HIDE DEF new
  <2>3. gen \in dir[cur][mem[cur].attempts].by
    BY <1>1 DEF Spawn, UserInv, Last
  <2>4. \A j \in Jobs : mem'[j].attempts = mem[j].attempts
    BY <1>0, <1>1 DEF Spawn, Job
  <2>5. cur \in Jobs /\ running \subseteq Jobs /\ running' = running \cup {cur}
    BY <1>1, AttemptsUsed DEF Spawn, TypeOK
  <2>6. ctl' # "spawn"
    BY <1>1 DEF Spawn
  <2> QED
    BY <2>1, <2>2, <2>3, <2>4, <2>5, <2>6 DEF UserInv, Last
<1>2. CASE Snapshot \/ SendStop \/ Signal
  BY <1>2 DEF Snapshot, SendStop, Signal, UserInv, Last
<1>3. CASE KillWorkers \/ Return
  BY <1>3 DEF KillWorkers, Return, UserInv, Last
<1>4. ASSUME NEW j \in Jobs, Prepare(j) PROVE UserInv'
  <2> DEFINE a == mem[j].attempts + 1
  <2>1. a \in Attempts /\ mem'[j].attempts = a
        /\ \A k \in Jobs \ {j} : mem'[k] = mem[k]
    BY <1>0, <1>4, CampaignAssumption DEF Prepare, Job, Attempts, NewJob
  <2>2. /\ cur' = j /\ gen' = gen /\ workers' = workers /\ running' = running
        /\ dir' = [dir EXCEPT ![j][a] =
                     [dir[j][a] EXCEPT !.by = dir[j][a].by \cup {gen},
                                       !.origin = ResumeOrigin(j),
                                       !.base = ResumeSteps(j)]]
    BY <1>4 DEF Prepare
  <2>3. j \notin running /\ running \subseteq Jobs
    BY <1>4 DEF Prepare, NextPending, RunningInv, TypeOK
  <2>4. dir[j][a] \in Dir
    BY <1>0, <2>1
  <2> HIDE DEF a
  <2>5. /\ dir'[j][a].by = dir[j][a].by \cup {gen}
        /\ dir'[j][a].records = dir[j][a].records
        /\ \A k \in Jobs, b \in Attempts :
              ~(k = j /\ b = a) => dir'[k][b] = dir[k][b]
    BY <1>0, <2>1, <2>2, <2>4 DEF Dir
  <2>6. \A k \in Jobs, b \in Attempts : dir[k][b].by \subseteq dir'[k][b].by
    BY <2>5
  <2>7. \A w \in workers' : w.gen \in dir'[w.job][w.attempt].by
    BY <2>2, <2>6, AttemptsUsed DEF UserInv
  <2>8. \A k \in running' : gen' \in dir'[k][mem'[k].attempts].by
    BY <2>1, <2>2, <2>3, <2>6, AttemptsUsed DEF UserInv, Last
  <2>9. \A k \in Jobs, b \in Attempts : dir'[k][b].records \subseteq dir'[k][b].by
    BY <2>5 DEF UserInv
  <2> QED
    BY <2>1, <2>2, <2>5, <2>7, <2>8, <2>9 DEF UserInv, Last
<1>5. ASSUME NEW j \in Jobs, Reap(j) PROVE UserInv'
  <2>1. \A k \in Jobs : mem'[k].attempts = mem[k].attempts
    <3>1. PICK st \in Statuses :
            mem' = [mem EXCEPT ![j].status = st, ![j].hashes = Last(mem, j).records]
      BY <1>5, Zenon DEF Reap, Statuses
    <3> QED
      BY <1>0, <3>1 DEF Job
  <2>2. /\ dir' = dir /\ workers' = workers /\ gen' = gen /\ ctl' # "spawn"
        /\ running' \subseteq running /\ running \subseteq Jobs
    BY <1>5 DEF Reap, TypeOK
  <2> QED
    BY <2>1, <2>2 DEF UserInv, Last
<1>6. CASE Crash \/ AllocationEnds
  BY <1>6 DEF Crash, AllocationEnds, Gone, UserInv, Last
<1>7. CASE Resume
  BY <1>7 DEF Resume, UserInv, RunningInv, Alive
<1>8. CASE RequeueFailed \/ RepairPointers
  BY <1>8 DEF RequeueFailed, RepairPointers, UserInv, RunningInv, Alive
<1>9. ASSUME NEW w \in workers, WorkerTrains(w) PROVE UserInv'
  <2> DEFINE new == [w EXCEPT !.steps = w.steps + 1]
  <2>1. workers' = (workers \ {w}) \cup {new}
        /\ new.job = w.job /\ new.attempt = w.attempt /\ new.gen = w.gen
    BY <1>0, <1>9 DEF WorkerTrains, Worker
  <2> HIDE DEF new
  <2>2. w.job \in Jobs /\ w.attempt \in Attempts /\ dir[w.job][w.attempt] \in Dir
    BY <1>0, AttemptsUsed
  <2>3. \A j \in Jobs, a \in Attempts :
            dir'[j][a].by = dir[j][a].by /\ dir'[j][a].records = dir[j][a].records
    BY <1>0, <1>9, <2>2 DEF WorkerTrains, Dir
  <2>4. mem' = mem /\ ctl' = ctl /\ cur' = cur /\ running' = running /\ gen' = gen
    BY <1>9 DEF WorkerTrains
  <2> QED
    BY <2>1, <2>3, <2>4, AttemptsUsed DEF UserInv, Last
<1>10. ASSUME NEW w \in workers, WorkerCompletes(w) PROVE UserInv'
  <2>1. workers' = workers \ {w} /\ mem' = mem /\ ctl' = ctl /\ cur' = cur
        /\ running' = running /\ gen' = gen
    BY <1>10 DEF WorkerCompletes, Exits
  <2>2. w.job \in Jobs /\ w.attempt \in Attempts /\ dir[w.job][w.attempt] \in Dir
    BY <1>0, AttemptsUsed
  <2>3. \A j \in Jobs, a \in Attempts :
            /\ dir'[j][a].by = dir[j][a].by
            /\ \/ dir'[j][a].records = dir[j][a].records
               \/ /\ dir'[j][a].records = dir[j][a].records \cup {w.gen}
                  /\ j = w.job /\ a = w.attempt
    BY <1>10, CompletesRecord
  <2> QED
    BY <2>1, <2>3, AttemptsUsed DEF UserInv, Last
<1>11. ASSUME NEW w \in workers, WorkerFails(w) PROVE UserInv'
  <2>1. workers' = workers \ {w} /\ mem' = mem /\ ctl' = ctl /\ cur' = cur
        /\ running' = running /\ gen' = gen
    BY <1>11 DEF WorkerFails, Exits
  <2>2. w.job \in Jobs /\ w.attempt \in Attempts /\ dir[w.job][w.attempt] \in Dir
    BY <1>0, AttemptsUsed
  <2>3. \A j \in Jobs, a \in Attempts :
            dir'[j][a].by = dir[j][a].by /\ dir'[j][a].records = dir[j][a].records
    BY <1>0, <1>11, <2>2 DEF WorkerFails, Dir
  <2> QED
    BY <2>1, <2>3, AttemptsUsed DEF UserInv, Last
<1>12. CASE UNCHANGED vars
  BY <1>12 DEF vars, UserInv, Last
<1> QED
  BY <1>1, <1>2, <1>3, <1>4, <1>5, <1>6, <1>7, <1>8, <1>9, <1>10, <1>11, <1>12
     DEF Next, Controller

(* Every step keeps the evidence of the successes. *)
LEMMA EvidenceNext ==
    TypeOK /\ AttemptInv /\ RunningInv /\ DurableInv /\ WorkerInv /\ UserInv
        /\ EvidenceInv /\ [Next]_vars => EvidenceInv'
<1> SUFFICES ASSUME TypeOK, AttemptInv, RunningInv, DurableInv, WorkerInv, UserInv,
                    EvidenceInv, [Next]_vars
             PROVE  EvidenceInv'
  OBVIOUS
<1>0. /\ mem \in [Jobs -> Job] /\ disk \in [Jobs -> Job]
      /\ dir \in [Jobs -> [Attempts -> Dir]] /\ workers \subseteq Worker
  BY DEF TypeOK
<1>1. CASE Spawn
  <2> DEFINE new == [job |-> cur, attempt |-> mem[cur].attempts, gen |-> gen,
                     steps |-> Last(mem, cur).base]
  <2>1. /\ workers' = workers \cup {new} /\ new.job = cur
        /\ dir' = dir /\ disk' = disk /\ marker' = marker /\ ctl' # "refused"
    BY <1>1 DEF Spawn
  <2> HIDE DEF new
  <2>2. /\ cur \in Jobs /\ disk[cur].status # "succeeded"
        /\ mem'[cur].status = "running" /\ \A j \in Jobs \ {cur} : mem'[j] = mem[j]
    BY <1>0, <1>1 DEF Spawn, AttemptInv, DurableInv, Job
  <2> QED
    BY <2>1, <2>2 DEF EvidenceInv, Evident, Shared, Last
<1>2. CASE Snapshot \/ SendStop \/ Signal \/ KillWorkers \/ Return
  BY <1>2, EvidenceStays DEF Snapshot, SendStop, Signal, KillWorkers, Return
<1>3. CASE Crash \/ AllocationEnds
  BY <1>3, EvidenceStays DEF Crash, AllocationEnds, Gone
<1>4. ASSUME NEW j \in Jobs, Prepare(j) PROVE EvidenceInv'
  <2> DEFINE a == mem[j].attempts + 1
  <2>1. /\ mem'[j].status = "pending" /\ disk[j].status # "succeeded"
        /\ \A k \in Jobs \ {j} : mem'[k] = mem[k]
    BY <1>0, <1>4 DEF Prepare, NextPending, NewJob, DurableInv
  <2>2. /\ \A k \in Jobs \ {j} : dir'[k] = dir[k]
        /\ disk' = disk /\ marker' = marker /\ workers' = workers /\ ctl' # "refused"
    BY <1>0, <1>4 DEF Prepare
  <2> QED
    BY <2>1, <2>2 DEF EvidenceInv, Evident, Shared, Last
<1>5. ASSUME NEW j \in Jobs, Reap(j) PROVE EvidenceInv'
  <2> DEFINE a == mem[j].attempts
  <2>1. PICK st \in Statuses :
          /\ mem' = [mem EXCEPT ![j].status = st, ![j].hashes = Last(mem, j).records]
          /\ st = "succeeded" => Last(mem, j).outcome = "complete" /\ j \in marker'
    BY <1>5, Zenon DEF Reap, Statuses, Marked
  <2>2. /\ mem'[j].status = st /\ mem'[j].attempts = a
        /\ mem'[j].hashes = dir[j][a].records
        /\ \A k \in Jobs \ {j} : mem'[k] = mem[k]
    BY <1>0, <2>1 DEF Job, Last
  <2>3. /\ dir' = dir /\ workers' = workers /\ disk' = disk /\ ctl' # "refused"
        /\ marker \subseteq marker'
    BY <1>5 DEF Reap, Marked
  <2>4. ASSUME ~Shared(j, a), NEW w \in workers, w.job = j, w.attempt = a
        PROVE  FALSE
    <3>1. gen \in dir[j][a].by /\ w.gen \in dir[j][a].by
      BY <1>5, <2>4 DEF Reap, UserInv, Last
    <3>2. w.gen = gen
      BY <2>4, <3>1 DEF Shared
    <3> QED
      BY <1>5, <2>4, <3>2 DEF Reap, WorkerInv, Alive
  <2>5. st = "succeeded" => Evident(mem, j)'
    BY <2>1, <2>2, <2>3, <2>4 DEF Evident, Shared, Last
  <2>6. \A k \in Jobs \ {j} : mem'[k].status = "succeeded" =>
            k \in marker' /\ Evident(mem, k)'
    BY <2>2, <2>3 DEF EvidenceInv, Evident, Shared, Last
  <2>7. \A k \in Jobs : disk'[k].status = "succeeded" =>
            k \in marker' /\ Evident(disk, k)'
    BY <2>3 DEF EvidenceInv, Evident, Shared, Last
  <2> QED
    BY <2>1, <2>2, <2>3, <2>5, <2>6, <2>7 DEF EvidenceInv
<1>6. CASE Resume
  <2>1. /\ dir' = dir /\ workers' = workers /\ disk' = disk /\ marker' = marker
    BY <1>6 DEF Resume
  <2>2. CASE \A j \in Jobs : Intact(j)
    <3>1. \A j \in Jobs : mem'[j] = Requeued(disk[j])
      BY <1>6, <2>2 DEF Resume
    <3>2. \A j \in Jobs : mem'[j].status = "succeeded" => mem'[j] = disk[j]
      BY <1>0, <3>1 DEF Requeued, Job
    <3>3. ctl' # "refused"
      BY <1>6, <2>2 DEF Resume
    <3> QED
      BY <2>1, <3>2, <3>3, EvidenceStays
  <2>3. CASE \E j \in Jobs : ~Intact(j)
    <3>1. PICK j \in Jobs : ~Intact(j)
      BY <2>3
    <3>2. disk[j].status = "succeeded" /\ Shared(j, disk[j].attempts)
      BY <3>1 DEF Intact, EvidenceInv, Evident
    <3>3. disk[j].attempts \in Attempts
      BY <3>2, AttemptsUsed
    <3>4. mem' = mem
      BY <1>6, <2>3 DEF Resume
    <3> QED
      BY <2>1, <3>2, <3>3, <3>4 DEF EvidenceInv, Evident, Shared, Last
  <2> QED
    BY <2>2, <2>3
<1>7. CASE RequeueFailed
  <2>1. \A j \in Jobs : disk'[j].status = "succeeded" => disk'[j] = disk[j]
    BY <1>0, <1>7 DEF RequeueFailed, Job
  <2> QED
    BY <1>7, <2>1, EvidenceStays DEF RequeueFailed
<1>8. CASE RepairPointers
  <2>1. \A j \in Jobs : disk'[j].status = "succeeded" => disk'[j] = disk[j]
    BY <1>0, <1>8 DEF RepairPointers, Misdirected, Job
  <2> QED
    BY <1>8, <2>1, EvidenceStays DEF RepairPointers
<1>9. ASSUME NEW w \in workers, WorkerTrains(w) \/ WorkerCompletes(w) \/ WorkerFails(w)
      PROVE  EvidenceInv'
  <2>1. w.job \in Jobs /\ w.attempt \in Attempts /\ dir[w.job][w.attempt] \in Dir
    BY <1>0, AttemptsUsed
  <2>2. mem' = mem /\ disk' = disk /\ ctl' = ctl /\ marker' = marker
    BY <1>9 DEF WorkerTrains, WorkerCompletes, WorkerFails
  <2>3. \A j \in Jobs, a \in Attempts :
            /\ dir'[j][a].by = dir[j][a].by
            /\ ~(j = w.job /\ a = w.attempt) => dir'[j][a] = dir[j][a]
    <3>1. CASE WorkerTrains(w)
      BY <1>0, <2>1, <3>1 DEF WorkerTrains, Dir
    <3>2. CASE WorkerCompletes(w)
      BY <3>2, CompletesRecord
    <3>3. CASE WorkerFails(w)
      BY <1>0, <2>1, <3>3 DEF WorkerFails, Dir
    <3> QED
      BY <1>9, <3>1, <3>2, <3>3
  <2>4. \A v \in workers' : \E u \in workers : u.job = v.job /\ u.attempt = v.attempt
    <3>1. CASE WorkerTrains(w)
      BY <1>0, <3>1 DEF WorkerTrains, Worker
    <3>2. CASE WorkerCompletes(w) \/ WorkerFails(w)
      BY <3>2 DEF WorkerCompletes, WorkerFails, Exits
    <3> QED
      BY <1>9, <3>1, <3>2
  <2> QED
    BY <2>2, <2>3, <2>4, EvidenceGrows
<1>10. CASE UNCHANGED vars
  BY <1>10, EvidenceStays DEF vars
<1> QED
  BY <1>1, <1>2, <1>3, <1>4, <1>5, <1>6, <1>7, <1>8, <1>9, <1>10 DEF Next, Controller

(* A shared directory has more than one user. *)
LEMMA SharedHasTwo ==
    ASSUME TypeOK, NEW j \in Jobs, NEW a \in Attempts, Shared(j, a)
    PROVE  Cardinality(dir[j][a].by) > 1
<1>1. dir[j][a].by \in SUBSET (1 .. MaxStarts)
  BY DEF TypeOK, Dir, Gens
<1>2. IsFiniteSet(dir[j][a].by)
  <2>1. IsFiniteSet(1 .. MaxStarts)
    BY FS_Interval, CampaignAssumption
  <2> QED
    BY <1>1, <2>1, FS_Subset
<1>3. PICK g, h \in dir[j][a].by : g # h
  BY DEF Shared
<1>4. Cardinality({g, h}) = 2
  <2>1. IsFiniteSet({g}) /\ Cardinality({g}) = 1
    BY FS_Singleton
  <2>2. {g, h} = {g} \cup {h} /\ h \notin {g}
    BY <1>3
  <2> QED
    BY <2>1, <2>2, FS_AddElement
<1>5. {g, h} \in SUBSET dir[j][a].by
  BY <1>3
<1>6. Cardinality({g, h}) <= Cardinality(dir[j][a].by)
  BY <1>2, <1>5, FS_Subset
<1>7. Cardinality(dir[j][a].by) \in Nat
  BY <1>2, FS_CardinalityType
<1> QED
  BY <1>4, <1>6, <1>7

-----------------------------------------------------------------------------
CampaignInv ==
    /\ TypeOK /\ AttemptInv /\ RunningInv /\ DurableInv /\ WorkerInv /\ ReturnsClean
    /\ UserInv /\ EvidenceInv

(* The parts of the inductive invariant hold together. *)
LEMMA Inductive == Init /\ [][Next]_vars => []CampaignInv
<1>1. Init => CampaignInv
  BY InitType, BooksInit, WorkersInit, EvidenceInit DEF CampaignInv
<1>2. CampaignInv /\ [Next]_vars => CampaignInv'
  BY NextType, BooksNext, WorkersNext, UsersNext, EvidenceNext DEF CampaignInv
<1> QED
  BY <1>1, <1>2, PTL

(* Every variable of the campaign has its type in every reachable state. *)
THEOREM CampaignTypes == Spec => []TypeOK
<1>1. CampaignInv => TypeOK
  BY DEF CampaignInv
<1> QED
  BY <1>1, Inductive, PTL DEF Spec

(* When the controller returns nothing it has started is alive and         *)
(* campaign.json calls no job running.                                     *)
THEOREM ControllerReturnsClean == Spec => []ReturnsClean
<1>1. CampaignInv => ReturnsClean
  BY DEF CampaignInv
<1> QED
  BY <1>1, Inductive, PTL DEF Spec

(* No crash, restart, stop or recovery touches a success that              *)
(* campaign.json records.                                                  *)
THEOREM SuccessDurable == Spec => SuccessIsDurable
<1>1. CampaignInv /\ [Next]_vars =>
        [\A j \in Jobs : disk[j].status = "succeeded" => disk'[j] = disk[j]]_vars
  BY SuccessKept DEF CampaignInv
<1> QED
  BY <1>1, Inductive, PTL DEF Spec, SuccessIsDurable

(* A campaign with a completed job is resumed, unless two controllers have *)
(* used the directory of an attempt: whatever crash comes between the      *)
(* marker, the artifacts and campaign.json.                                *)
THEOREM ResumesAccepted == Spec => []ResumeAccepted
<1>1. CampaignInv => ResumeAccepted
  BY SharedHasTwo DEF CampaignInv, EvidenceInv, ResumeAccepted
<1> QED
  BY <1>1, Inductive, PTL DEF Spec

-----------------------------------------------------------------------------
(* The dispatch of the workers: its inductive invariant.                   *)

(* A request that is not published has no file, hence no process.          *)
ClientInv == \A c \in Clients :
    /\ client[c] \in {"idle", "starting", "armed"} => file[c] = "none"
    /\ client[c] # "returned" => got[c] = None
    /\ client[c] = "asked" => got[c] = None

(* The file of a request says how far it has come; an answer is what the   *)
(* process returned.                                                       *)
FileInv == \A c \in Clients :
    /\ file[c] \in {"none", "pending"} => proc[c] = "none" /\ result[c] = None
    /\ file[c] = "completed" => result[c] # None
    /\ result[c] # None => proc[c] \in {"none", result[c]}

(* While the manager works, a claimed request is the one it is launching or *)
(* refusing, or its process is in `running`.                               *)
ManagerInv == Working =>
    /\ mgr \in {"launch", "file-refused", "poll", "file-exited"} =>
         at \in Clients /\ file[at] = "claimed"
    /\ mgr \in {"launch", "file-refused"} => at \notin launched /\ proc[at] = "none"
    /\ mgr = "launch" => result[at] = None
    /\ mgr = "file-refused" => result[at] # None
    /\ mgr \in {"poll", "file-exited"} => at \in launched /\ at \notin todo
    /\ mgr = "file-exited" => result[at] # None
    /\ mgr \in {"batch", "launch", "file-refused"} => todo \subseteq Pending
    /\ mgr \in {"reap", "poll", "file-exited"} => todo \subseteq launched
    /\ \A c \in launched :
         /\ file[c] = "claimed" /\ proc[c] # "none"
         /\ result[c] # None => mgr = "file-exited" /\ at = c
    /\ \A c \in Clients : file[c] = "claimed" =>
         c \in launched \/ (mgr \in {"launch", "file-refused"} /\ at = c)

(* What a manager that has left, and a controller that has returned, left. *)
LeftInv ==
    /\ mgr = "off" => campaign = "off" /\ launched = {}
    /\ campaign = "off" => ~done /\ \A c \in Clients : client[c] = "idle"
    /\ mgr = "exited" => done /\ \A c \in Clients : file[c] # "claimed"
    /\ campaign = "over" => \A c \in Clients : Over(c)
    /\ campaign = "over" /\ mgr = "exited" => \A c \in Clients : file[c] # "pending"
    /\ done => campaign \in {"over", "crashed"}

DispatchInv == DispatchTypeOK /\ ClientInv /\ FileInv /\ ManagerInv /\ LeftInv

(* Every step keeps the types. *)
LEMMA TypesKept == DispatchInv /\ [DispatchNext]_dispatchVars => DispatchTypeOK'
<1> SUFFICES ASSUME DispatchInv, [DispatchNext]_dispatchVars PROVE DispatchTypeOK'
  OBVIOUS
<1> USE DEF DispatchInv, DispatchTypeOK, ManagerInv, Working, Codes, Live, Pending, controller, clients, manager
<1>1. CASE OpenController
  BY <1>1 DEF OpenController
<1>2. CASE ControllerReturns
  BY <1>2 DEF ControllerReturns
<1>3. CASE ControllerDies
  BY <1>3 DEF ControllerDies
<1>4. CASE MarkDone
  BY <1>4 DEF MarkDone
<1>5. ASSUME NEW c \in Clients, SpawnClient(c) PROVE DispatchTypeOK'
  BY <1>5 DEF SpawnClient, Move
<1>6. ASSUME NEW c \in Clients, Arm(c) PROVE DispatchTypeOK'
  BY <1>6 DEF Arm, Move
<1>7. ASSUME NEW c \in Clients, Publish(c) PROVE DispatchTypeOK'
  BY <1>7 DEF Publish, Move
<1>8. ASSUME NEW c \in Clients, Receive(c) PROVE DispatchTypeOK'
  BY <1>8 DEF Receive, Move
<1>9. ASSUME NEW c \in Clients, Cancel(c) PROVE DispatchTypeOK'
  BY <1>9 DEF Cancel, Move
<1>10. ASSUME NEW c \in Clients, ClientKilled(c) PROVE DispatchTypeOK'
  BY <1>10 DEF ClientKilled
<1>11. ASSUME NEW c \in Clients, Exit(c) PROVE DispatchTypeOK'
  BY <1>11 DEF Exit
<1>12. ASSUME NEW c \in Clients, GraceOver(c) PROVE DispatchTypeOK'
  BY <1>12 DEF GraceOver
<1>13. CASE StartManager
  BY <1>13 DEF StartManager
<1>14. CASE ListPending
  BY <1>14 DEF ListPending
<1>15. ASSUME NEW c \in Clients, Claim(c) PROVE DispatchTypeOK'
  BY <1>15 DEF Claim, Claimed
<1>16. CASE LaunchSucceeds
  BY <1>16 DEF LaunchSucceeds
<1>17. CASE LaunchFails
  BY <1>17 DEF LaunchFails, WriteResult
<1>18. CASE File
  BY <1>18 DEF File
<1>19. CASE ListRunning
  BY <1>19 DEF ListRunning
<1>20. ASSUME NEW c \in Clients, SignalWorker(c) PROVE DispatchTypeOK'
  BY <1>20 DEF SignalWorker, Terminate
<1>21. CASE Poll
  BY <1>21 DEF Poll, WriteResult
<1>22. CASE EndRound
  BY <1>22 DEF EndRound, MayLeave
<1>23. CASE ManagerDies
  BY <1>23 DEF ManagerDies
<1>24. CASE UNCHANGED dispatchVars
  BY <1>24 DEF dispatchVars
<1> QED
  BY <1>1, <1>2, <1>3, <1>4, <1>5, <1>6, <1>7, <1>8, <1>9, <1>10, <1>11, <1>12,
     <1>13, <1>14, <1>15, <1>16, <1>17, <1>18, <1>19, <1>20, <1>21, <1>22, <1>23, <1>24
  DEF DispatchNext, ScriptStep, ClientStep, ManagerStep, Finished

(* Every step keeps what is known of the clients. *)
LEMMA ClientKept == DispatchInv /\ [DispatchNext]_dispatchVars => ClientInv'
<1> SUFFICES ASSUME DispatchInv, [DispatchNext]_dispatchVars PROVE ClientInv'
  OBVIOUS
<1> USE DEF DispatchInv, DispatchTypeOK, ClientInv, FileInv, ManagerInv, Over, Live, Working, Pending, Codes, Refused, None, controller, clients, manager
<1>1. CASE OpenController
  BY <1>1 DEF OpenController
<1>2. CASE ControllerReturns
  BY <1>2 DEF ControllerReturns
<1>3. CASE ControllerDies
  BY <1>3 DEF ControllerDies
<1>4. CASE MarkDone
  BY <1>4 DEF MarkDone
<1>5. ASSUME NEW c \in Clients, SpawnClient(c) PROVE ClientInv'
  BY <1>5 DEF SpawnClient, Move
<1>6. ASSUME NEW c \in Clients, Arm(c) PROVE ClientInv'
  BY <1>6 DEF Arm, Move
<1>7. ASSUME NEW c \in Clients, Publish(c) PROVE ClientInv'
  BY <1>7 DEF Publish, Move
<1>8. ASSUME NEW c \in Clients, Receive(c) PROVE ClientInv'
  BY <1>8 DEF Receive, Move
<1>9. ASSUME NEW c \in Clients, Cancel(c) PROVE ClientInv'
  BY <1>9 DEF Cancel, Move
<1>10. ASSUME NEW c \in Clients, ClientKilled(c) PROVE ClientInv'
  BY <1>10 DEF ClientKilled
<1>11. ASSUME NEW c \in Clients, Exit(c) PROVE ClientInv'
  BY <1>11 DEF Exit
<1>12. ASSUME NEW c \in Clients, GraceOver(c) PROVE ClientInv'
  BY <1>12 DEF GraceOver
<1>13. CASE StartManager
  BY <1>13 DEF StartManager
<1>14. CASE ListPending
  BY <1>14 DEF ListPending
<1>15. ASSUME NEW c \in Clients, Claim(c) PROVE ClientInv'
  BY <1>15 DEF Claim, Claimed
<1>16. CASE LaunchSucceeds
  BY <1>16 DEF LaunchSucceeds
<1>17. CASE LaunchFails
  BY <1>17 DEF LaunchFails, WriteResult
<1>18. CASE File
  BY <1>18 DEF File
<1>19. CASE ListRunning
  BY <1>19 DEF ListRunning
<1>20. ASSUME NEW c \in Clients, SignalWorker(c) PROVE ClientInv'
  BY <1>20 DEF SignalWorker, Terminate
<1>21. CASE Poll
  BY <1>21 DEF Poll, WriteResult
<1>22. CASE EndRound
  BY <1>22 DEF EndRound, MayLeave
<1>23. CASE ManagerDies
  BY <1>23 DEF ManagerDies
<1>24. CASE UNCHANGED dispatchVars
  BY <1>24 DEF dispatchVars
<1> QED
  BY <1>1, <1>2, <1>3, <1>4, <1>5, <1>6, <1>7, <1>8, <1>9, <1>10, <1>11, <1>12,
     <1>13, <1>14, <1>15, <1>16, <1>17, <1>18, <1>19, <1>20, <1>21, <1>22, <1>23, <1>24
  DEF DispatchNext, ScriptStep, ClientStep, ManagerStep, Finished

(* Every step keeps files, processes and results consistent. *)
LEMMA FileKept == DispatchInv /\ [DispatchNext]_dispatchVars => FileInv'
<1> SUFFICES ASSUME DispatchInv, [DispatchNext]_dispatchVars PROVE FileInv'
  OBVIOUS
<1> USE DEF DispatchInv, DispatchTypeOK, ClientInv, FileInv, ManagerInv, Live, Working, Pending, Codes, Refused, None, controller, clients, manager
<1>1. CASE OpenController
  BY <1>1 DEF OpenController
<1>2. CASE ControllerReturns
  BY <1>2 DEF ControllerReturns
<1>3. CASE ControllerDies
  BY <1>3 DEF ControllerDies
<1>4. CASE MarkDone
  BY <1>4 DEF MarkDone
<1>5. ASSUME NEW c \in Clients, SpawnClient(c) PROVE FileInv'
  BY <1>5 DEF SpawnClient, Move
<1>6. ASSUME NEW c \in Clients, Arm(c) PROVE FileInv'
  BY <1>6 DEF Arm, Move
<1>7. ASSUME NEW c \in Clients, Publish(c) PROVE FileInv'
  BY <1>7 DEF Publish, Move
<1>8. ASSUME NEW c \in Clients, Receive(c) PROVE FileInv'
  BY <1>8 DEF Receive, Move
<1>9. ASSUME NEW c \in Clients, Cancel(c) PROVE FileInv'
  BY <1>9 DEF Cancel, Move
<1>10. ASSUME NEW c \in Clients, ClientKilled(c) PROVE FileInv'
  BY <1>10 DEF ClientKilled
<1>11. ASSUME NEW c \in Clients, Exit(c) PROVE FileInv'
  BY <1>11 DEF Exit
<1>12. ASSUME NEW c \in Clients, GraceOver(c) PROVE FileInv'
  BY <1>12 DEF GraceOver
<1>13. CASE StartManager
  BY <1>13 DEF StartManager
<1>14. CASE ListPending
  BY <1>14 DEF ListPending
<1>15. ASSUME NEW c \in Clients, Claim(c) PROVE FileInv'
  BY <1>15 DEF Claim, Claimed
<1>16. CASE LaunchSucceeds
  BY <1>16 DEF LaunchSucceeds
<1>17. CASE LaunchFails
  BY <1>17 DEF LaunchFails, WriteResult
<1>18. CASE File
  BY <1>18 DEF File
<1>19. CASE ListRunning
  BY <1>19 DEF ListRunning
<1>20. ASSUME NEW c \in Clients, SignalWorker(c) PROVE FileInv'
  BY <1>20 DEF SignalWorker, Terminate
<1>21. CASE Poll
  BY <1>21 DEF Poll, WriteResult
<1>22. CASE EndRound
  BY <1>22 DEF EndRound, MayLeave
<1>23. CASE ManagerDies
  BY <1>23 DEF ManagerDies
<1>24. CASE UNCHANGED dispatchVars
  BY <1>24 DEF dispatchVars
<1> QED
  BY <1>1, <1>2, <1>3, <1>4, <1>5, <1>6, <1>7, <1>8, <1>9, <1>10, <1>11, <1>12,
     <1>13, <1>14, <1>15, <1>16, <1>17, <1>18, <1>19, <1>20, <1>21, <1>22, <1>23, <1>24
  DEF DispatchNext, ScriptStep, ClientStep, ManagerStep, Finished

(* Every step keeps a claimed request with the working manager. *)
LEMMA ManagerKept == DispatchInv /\ [DispatchNext]_dispatchVars => ManagerInv'
<1> SUFFICES ASSUME DispatchInv, [DispatchNext]_dispatchVars PROVE ManagerInv'
  OBVIOUS
<1> USE DEF DispatchInv, DispatchTypeOK, ClientInv, FileInv, ManagerInv, LeftInv, Live, Working, Pending, Codes, Refused, None, controller, clients, manager
<1>1. CASE OpenController
  BY <1>1 DEF OpenController
<1>2. CASE ControllerReturns
  BY <1>2 DEF ControllerReturns
<1>3. CASE ControllerDies
  BY <1>3 DEF ControllerDies
<1>4. CASE MarkDone
  BY <1>4 DEF MarkDone
<1>5. ASSUME NEW c \in Clients, SpawnClient(c) PROVE ManagerInv'
  BY <1>5 DEF SpawnClient, Move
<1>6. ASSUME NEW c \in Clients, Arm(c) PROVE ManagerInv'
  BY <1>6 DEF Arm, Move
<1>7. ASSUME NEW c \in Clients, Publish(c) PROVE ManagerInv'
  BY <1>7 DEF Publish, Move
<1>8. ASSUME NEW c \in Clients, Receive(c) PROVE ManagerInv'
  BY <1>8 DEF Receive, Move
<1>9. ASSUME NEW c \in Clients, Cancel(c) PROVE ManagerInv'
  BY <1>9 DEF Cancel, Move
<1>10. ASSUME NEW c \in Clients, ClientKilled(c) PROVE ManagerInv'
  BY <1>10 DEF ClientKilled
<1>11. ASSUME NEW c \in Clients, Exit(c) PROVE ManagerInv'
  BY <1>11 DEF Exit
<1>12. ASSUME NEW c \in Clients, GraceOver(c) PROVE ManagerInv'
  BY <1>12 DEF GraceOver
<1>13. CASE StartManager
  BY <1>13 DEF StartManager
<1>14. CASE ListPending
  BY <1>14 DEF ListPending
<1>15. ASSUME NEW c \in Clients, Claim(c) PROVE ManagerInv'
  BY <1>15 DEF Claim, Claimed
<1>16. CASE LaunchSucceeds
  BY <1>16 DEF LaunchSucceeds
<1>17. CASE LaunchFails
  BY <1>17 DEF LaunchFails, WriteResult
<1>18. CASE File
  BY <1>18 DEF File
<1>19. CASE ListRunning
  BY <1>19 DEF ListRunning
<1>20. ASSUME NEW c \in Clients, SignalWorker(c) PROVE ManagerInv'
  BY <1>20 DEF SignalWorker, Terminate
<1>21. CASE Poll
  BY <1>21 DEF Poll, WriteResult
<1>22. CASE EndRound
  BY <1>22 DEF EndRound, MayLeave
<1>23. CASE ManagerDies
  BY <1>23 DEF ManagerDies
<1>24. CASE UNCHANGED dispatchVars
  BY <1>24 DEF dispatchVars
<1> QED
  BY <1>1, <1>2, <1>3, <1>4, <1>5, <1>6, <1>7, <1>8, <1>9, <1>10, <1>11, <1>12,
     <1>13, <1>14, <1>15, <1>16, <1>17, <1>18, <1>19, <1>20, <1>21, <1>22, <1>23, <1>24
  DEF DispatchNext, ScriptStep, ClientStep, ManagerStep, Finished

(* Every step keeps what those that left have left behind. *)
LEMMA LeftKept == DispatchInv /\ [DispatchNext]_dispatchVars => LeftInv'
<1> SUFFICES ASSUME DispatchInv, [DispatchNext]_dispatchVars PROVE LeftInv'
  OBVIOUS
<1> USE DEF DispatchInv, DispatchTypeOK, ClientInv, LeftInv, ManagerInv, Over, Live, Working, Pending, Codes, Refused, None, controller, clients, manager
<1>1. CASE OpenController
  BY <1>1 DEF OpenController
<1>2. CASE ControllerReturns
  BY <1>2 DEF ControllerReturns
<1>3. CASE ControllerDies
  BY <1>3 DEF ControllerDies
<1>4. CASE MarkDone
  BY <1>4 DEF MarkDone
<1>5. ASSUME NEW c \in Clients, SpawnClient(c) PROVE LeftInv'
  BY <1>5 DEF SpawnClient, Move
<1>6. ASSUME NEW c \in Clients, Arm(c) PROVE LeftInv'
  BY <1>6 DEF Arm, Move
<1>7. ASSUME NEW c \in Clients, Publish(c) PROVE LeftInv'
  BY <1>7 DEF Publish, Move
<1>8. ASSUME NEW c \in Clients, Receive(c) PROVE LeftInv'
  BY <1>8 DEF Receive, Move
<1>9. ASSUME NEW c \in Clients, Cancel(c) PROVE LeftInv'
  BY <1>9 DEF Cancel, Move
<1>10. ASSUME NEW c \in Clients, ClientKilled(c) PROVE LeftInv'
  BY <1>10 DEF ClientKilled
<1>11. ASSUME NEW c \in Clients, Exit(c) PROVE LeftInv'
  BY <1>11 DEF Exit
<1>12. ASSUME NEW c \in Clients, GraceOver(c) PROVE LeftInv'
  BY <1>12 DEF GraceOver
<1>13. CASE StartManager
  BY <1>13 DEF StartManager
<1>14. CASE ListPending
  BY <1>14 DEF ListPending
<1>15. ASSUME NEW c \in Clients, Claim(c) PROVE LeftInv'
  BY <1>15 DEF Claim, Claimed
<1>16. CASE LaunchSucceeds
  BY <1>16 DEF LaunchSucceeds
<1>17. CASE LaunchFails
  BY <1>17 DEF LaunchFails, WriteResult
<1>18. CASE File
  BY <1>18 DEF File
<1>19. CASE ListRunning
  BY <1>19 DEF ListRunning
<1>20. ASSUME NEW c \in Clients, SignalWorker(c) PROVE LeftInv'
  BY <1>20 DEF SignalWorker, Terminate
<1>21. CASE Poll
  BY <1>21 DEF Poll, WriteResult
<1>22. CASE EndRound
  BY <1>22 DEF EndRound, MayLeave
<1>23. CASE ManagerDies
  BY <1>23 DEF ManagerDies
<1>24. CASE UNCHANGED dispatchVars
  BY <1>24 DEF dispatchVars
<1> QED
  BY <1>1, <1>2, <1>3, <1>4, <1>5, <1>6, <1>7, <1>8, <1>9, <1>10, <1>11, <1>12,
     <1>13, <1>14, <1>15, <1>16, <1>17, <1>18, <1>19, <1>20, <1>21, <1>22, <1>23, <1>24
  DEF DispatchNext, ScriptStep, ClientStep, ManagerStep, Finished

(* The five parts together are inductive. *)
LEMMA DispatchInvariant == DispatchSpec => []DispatchInv
<1>1. DispatchInit => DispatchInv
  <2> SUFFICES ASSUME DispatchInit PROVE DispatchInv
    OBVIOUS
  <2> USE DEF DispatchInit
  <2>1. DispatchTypeOK
    BY DEF DispatchTypeOK, Codes, None
  <2>2. ClientInv /\ FileInv
    BY DEF ClientInv, FileInv
  <2>3. ManagerInv /\ LeftInv
    BY DEF ManagerInv, LeftInv, Working
  <2> QED
    BY <2>1, <2>2, <2>3 DEF DispatchInv
<1>2. DispatchInv /\ [DispatchNext]_dispatchVars => DispatchInv'
  BY TypesKept, ClientKept, FileKept, ManagerKept, LeftKept DEF DispatchInv
<1> QED
  BY <1>1, <1>2, PTL DEF DispatchSpec

(* Every variable of client, file queue and manager keeps its type. *)
THEOREM DispatchTypes == DispatchSpec => []DispatchTypeOK
<1>1. DispatchInv => DispatchTypeOK
  BY DEF DispatchInv
<1> QED
  BY <1>1, DispatchInvariant, PTL

(* Whatever dies or is cancelled, a manager that leaves its loop has        *)
(* answered and filed what it claimed and leaves no process.                *)
THEOREM ManagerLeavesNothing == DispatchSpec => []LeavesNothing
<1>1. DispatchInv => LeavesNothing
  BY DEF DispatchInv, DispatchTypeOK, FileInv, LeftInv, LeavesNothing, Live, Codes,
         Refused, None
<1> QED
  BY <1>1, DispatchInvariant, PTL

(* After a controller that returned, the manager's exit strands no client. *)
THEOREM NoClientStranded == DispatchSpec => []NobodyStranded
<1>1. DispatchInv => NobodyStranded
  BY DEF DispatchInv, LeftInv, NobodyStranded
<1> QED
  BY <1>1, DispatchInvariant, PTL

(* A step that leaves requests, processes, results and clients' answers    *)
(* alone is a stutter of the board.                                        *)
LEMMA Stutter == UNCHANGED <<file, proc, result, got>> => UNCHANGED Board!vars
  BY DEF Board!vars, BoardStatus, Live

(* A change of one status is a move on the board. *)
LEMMA MoveOnBoard ==
    ASSUME NEW c \in Clients, NEW from, NEW to,
           BoardStatus(c) = from, BoardStatus(c)' = to,
           \A d \in Clients \ {c} : BoardStatus(d)' = BoardStatus(d)
    PROVE  Board!Move(c, from, to)
  BY DEF Board!Move

(* A process that ends, whoever caused it. *)
LEMMA EndSimulated ==
    ASSUME DispatchTypeOK, FileInv, NEW c \in Clients, Live(c), NEW code \in Codes,
           proc' = [proc EXCEPT ![c] = code], UNCHANGED <<file, result, got>>
    PROVE  Board!End(c)
<1> USE DEF DispatchTypeOK
<1>1. result[c] = None
  BY DEF FileInv, Live, Codes, None, Refused
<1>2. BoardStatus(c) = "started" /\ BoardStatus(c)' = "ended"
  BY <1>1 DEF BoardStatus, Live, Codes
<1>3. \A d \in Clients \ {c} : BoardStatus(d)' = BoardStatus(d)
  BY DEF BoardStatus, Live
<1>4. Board!Move(c, "started", "ended")
  BY <1>2, <1>3, MoveOnBoard
<1> QED
  BY <1>4 DEF Board!End

(* Every step of the protocol is a step of the board, or a stutter. *)
LEMMA StepSimulated ==
    DispatchInv /\ [DispatchNext]_dispatchVars => [Board!Next]_(Board!vars)
<1> SUFFICES ASSUME DispatchInv, [DispatchNext]_dispatchVars PROVE [Board!Next]_(Board!vars)
  OBVIOUS
<1> USE DEF DispatchInv, DispatchTypeOK, controller, clients, manager
<1>1. CASE OpenController
  BY <1>1, Stutter DEF OpenController
<1>2. CASE ControllerReturns
  BY <1>2, Stutter DEF ControllerReturns
<1>3. CASE ControllerDies
  BY <1>3, Stutter DEF ControllerDies
<1>4. CASE MarkDone
  BY <1>4, Stutter DEF MarkDone
<1>5. CASE StartManager
  BY <1>5, Stutter DEF StartManager
<1>6. CASE ListPending
  BY <1>6, Stutter DEF ListPending
<1>7. CASE ListRunning
  BY <1>7, Stutter DEF ListRunning
<1>8. CASE EndRound
  BY <1>8, Stutter DEF EndRound
<1>9. CASE ManagerDies
  BY <1>9, Stutter DEF ManagerDies
<1>10. ASSUME NEW c \in Clients, SpawnClient(c) PROVE UNCHANGED Board!vars
  BY <1>10, Stutter DEF SpawnClient, Move
<1>11. ASSUME NEW c \in Clients, Arm(c) PROVE UNCHANGED Board!vars
  BY <1>11, Stutter DEF Arm, Move
<1>12. ASSUME NEW c \in Clients, Cancel(c) PROVE UNCHANGED Board!vars
  BY <1>12, Stutter DEF Cancel, Move
<1>13. ASSUME NEW c \in Clients, ClientKilled(c) PROVE UNCHANGED Board!vars
  BY <1>13, Stutter DEF ClientKilled, Move
<1>14. ASSUME NEW c \in Clients, GraceOver(c) PROVE UNCHANGED Board!vars
  BY <1>14, Stutter DEF GraceOver, Move
<1>15. ASSUME NEW c \in Clients, Publish(c) PROVE [Board!Next]_(Board!vars)
  <2>1. Board!Ask(c)
    BY <1>15 DEF Publish, Move, ClientInv, FileInv, BoardStatus, Live, Codes,
           Refused, None, Board!Ask, Board!Move
  <2> QED
    BY <2>1 DEF Board!Next
<1>16. ASSUME NEW c \in Clients, Receive(c) PROVE [Board!Next]_(Board!vars)
  <2>1. Board!Receive(c)
    BY <1>16 DEF Receive, Move, ClientInv, FileInv, BoardStatus, Live, Codes,
           Refused, None, Board!Receive
  <2> QED
    BY <2>1 DEF Board!Next
<1>17. ASSUME NEW c \in Clients, Exit(c) PROVE [Board!Next]_(Board!vars)
  <2>1. Live(c) /\ UNCHANGED <<file, result, got>>
    BY <1>17 DEF Exit
  <2>2. PICK code \in Codes : proc' = [proc EXCEPT ![c] = code]
    BY <1>17 DEF Exit
  <2>3. Board!End(c)
    BY <2>1, <2>2, EndSimulated
  <2> QED
    BY <2>3 DEF Board!Next
<1>18. ASSUME NEW c \in Clients, Claim(c) PROVE UNCHANGED Board!vars
  BY <1>18 DEF Claim, Claimed, ManagerInv, Working, Pending, FileInv,
           Board!vars, BoardStatus, Live, Codes,
           Refused, None
<1>19. CASE LaunchSucceeds
  <2>1. PICK c \in Clients : c = at
    BY <1>19 DEF LaunchSucceeds, ManagerInv, Working
  <2>2. file[c] = "claimed" /\ proc[c] = "none" /\ result[c] = None
    BY <1>19, <2>1 DEF LaunchSucceeds, ManagerInv, Working
  <2>3. proc' = [proc EXCEPT ![c] = "live"] /\ UNCHANGED <<file, result, got>>
    BY <1>19, <2>1 DEF LaunchSucceeds
  <2>4. Board!Move(c, "asked", "started")
    <3>1. BoardStatus(c) = "asked" /\ BoardStatus(c)' = "started"
      BY <2>2, <2>3 DEF BoardStatus, Live, Codes
    <3>2. \A d \in Clients \ {c} : BoardStatus(d)' = BoardStatus(d)
      BY <2>3 DEF BoardStatus, Live
    <3> QED
      BY <3>1, <3>2, MoveOnBoard
  <2>5. Board!Start(c)
    BY <2>2, <2>3, <2>4 DEF Board!Start, Codes
  <2> QED
    BY <2>5 DEF Board!Next
<1>20. CASE LaunchFails
  <2>1. PICK c \in Clients : c = at
    BY <1>20 DEF LaunchFails, ManagerInv, Working
  <2>2. file[c] = "claimed" /\ proc[c] = "none" /\ result[c] = None
    BY <1>20, <2>1 DEF LaunchFails, ManagerInv, Working
  <2>3. result' = [result EXCEPT ![c] = Refused] /\ UNCHANGED <<file, proc, got>>
    BY <1>20, <2>1 DEF LaunchFails, WriteResult
  <2>4. Board!Move(c, "asked", "answered")
    <3>1. BoardStatus(c) = "asked" /\ BoardStatus(c)' = "answered"
      BY <2>2, <2>3 DEF BoardStatus, Live, Codes, Refused, None
    <3>2. \A d \in Clients \ {c} : BoardStatus(d)' = BoardStatus(d)
      BY <2>3 DEF BoardStatus, Live
    <3> QED
      BY <3>1, <3>2, MoveOnBoard
  <2>5. Board!Refuse(c)
    BY <2>2, <2>3, <2>4 DEF Board!Refuse, Codes
  <2> QED
    BY <2>5 DEF Board!Next
<1>21. CASE File
  BY <1>21 DEF File, ManagerInv, Working, FileInv, Board!vars, BoardStatus, Live, Codes,
           Refused, None
<1>22. ASSUME NEW c \in Clients, SignalWorker(c) PROVE [Board!Next]_(Board!vars)
  <2>1. CASE UNCHANGED proc
    BY <1>22, <2>1, Stutter DEF SignalWorker
  <2>2. CASE ~UNCHANGED proc
    <3>1. PICK code \in Codes : Live(c) /\ proc' = [proc EXCEPT ![c] = code]
      BY <1>22, <2>2 DEF SignalWorker
    <3>2. UNCHANGED <<file, result, got>>
      BY <1>22 DEF SignalWorker
    <3>3. Board!End(c)
      BY <3>1, <3>2, EndSimulated
    <3> QED
      BY <3>3 DEF Board!Next
  <2> QED
    BY <2>1, <2>2
<1>23. CASE Poll
  <2>1. CASE Live(at)
    BY <1>23, <2>1, Stutter DEF Poll
  <2>2. CASE ~Live(at)
    <3>1. PICK c \in Clients : c = at
      BY <1>23 DEF Poll, ManagerInv, Working
    <3>2. proc[c] \in Codes /\ result[c] = None
      BY <1>23, <2>2, <3>1 DEF Poll, ManagerInv, Working, Live
    <3>3. result' = [result EXCEPT ![c] = proc[c]] /\ UNCHANGED <<file, proc, got>>
      BY <1>23, <2>2, <3>1 DEF Poll, WriteResult
    <3>4. Board!Move(c, "ended", "answered")
      <4>1. BoardStatus(c) = "ended" /\ BoardStatus(c)' = "answered"
        BY <3>2, <3>3 DEF BoardStatus, Codes, None
      <4>2. \A d \in Clients \ {c} : BoardStatus(d)' = BoardStatus(d)
        BY <3>3 DEF BoardStatus, Live
      <4> QED
        BY <4>1, <4>2, MoveOnBoard
    <3>5. Board!Answer(c)
      BY <3>2, <3>3, <3>4 DEF Board!Answer
    <3> QED
      BY <3>5 DEF Board!Next
  <2> QED
    BY <2>1, <2>2
<1>24. CASE UNCHANGED dispatchVars
  BY <1>24, Stutter DEF dispatchVars
<1> QED
  BY <1>1, <1>2, <1>3, <1>4, <1>5, <1>6, <1>7, <1>8, <1>9, <1>10, <1>11,
     <1>12, <1>13, <1>14, <1>15, <1>16, <1>17, <1>18, <1>19, <1>20, <1>21, <1>22, <1>23, <1>24
  DEF DispatchNext, ScriptStep, ClientStep, ManagerStep, Finished

(* The refinement: files and processes launch a request once and answer it *)
(* once, with what the process returned.                                   *)
THEOREM DispatchImplementsBoard == DispatchSpec => ImplementsBoard
<1>1. DispatchInit => Board!Init
  BY DEF DispatchInit, Board!Init, BoardStatus, Live, Codes, None
<1>2. DispatchInv /\ [DispatchNext]_dispatchVars => [Board!Next]_(Board!vars)
  BY StepSimulated
<1> QED
  BY <1>1, <1>2, DispatchInvariant, PTL DEF DispatchSpec, ImplementsBoard
=============================================================================
