# Formal models of the trading research code

TLA+ models of the parts of this repository whose correctness depends on the
order of things: the environment in which agents are trained and evaluated, the
life of a position inside it, the backtest engine, the training process, the
controller that runs training campaigns on a cluster and the dispatch of its
workers, the coding orchestra, the live robots, and the causal machines that
turn bars into setups. TLC checks the models on small instances; TLAPS proves
the theorems for every value of the constants. `PROJECT.json` maps every
definition to the lines it models and lists runs, mutants, findings, hazards
and theorems.

To repeat a check: `tlc -config <run>.cfg <module>.tla` with the modules of the
table of runs below, and `tlapm <module>.tla` for the eight `...Proofs` and
`...Safety` modules.

## Inventory

| Component | State it keeps | Operations | What is hard | What makes it correct |
|---|---|---|---|---|
| Account and broker (`trading/account`, `trading/execution/broker.py`) | balance, equity, peak, daily anchor, open profit; one position | mark, open, partial close, close, daily reset, payout reset | balance and equity are moved at different times; partial closes | a flat account has no unrealised part; payouts make no money |
| Guardrails, payout policy, risk budget (`trading/risk`, `trading/policy`) | none | limit checks, payout decision, approved risk | limits read amounts that other stages move | breaches are recorded before the anchor moves; no entry beyond a limit |
| Entry state machine (`simulation/environment/entry_state.py`) | FLAT, CANDIDATE, ARMED, IN_POSITION with direction and age | observe, invalidate, mark_entered, mark_closed | mark_entered raises outside ARMED; the broker's position changes elsewhere | machine and position never drift apart |
| Environment step (`simulation/environment/*_runtime.py`, `env.py`) | bar, account, position, pending order, latches, cooldown, session counts, payout cycle, histories | reset, step (a dozen stages), overnight replay | every stage reads what earlier ones left; orders outlive the step that submits them | latches, caps, cooldown and overnight rule hold for entries that were decided earlier |
| Protective levels of a position (`protective_level_runtime.py`, `position_runtime.py`, `trading/orders/selection.py`) | stop, targets, filled slots, remaining size, modes, best price | select targets and shares, fill by ticks or by the candle, break even, trail, pull and push targets | shares are found by counting slots; targets move past each other; rounding | every slot closes its own share once; the stop only tightens |
| Actions, observations, rewards, diagnostics | none that transitions read | decoding, encoding | numeric | - |
| Backtest engine (`simulation/backtest`) | account, position, planned event, trade log, day and latch | the body of its bar loop | an exit and the next entry on one bar, the end of a day after its guardrails, liquidation | the log explains the balance; no breach is wiped by a new day |
| Training process (`training/runner`, `learning/rl/callbacks.py`) | step counters, marks of callbacks, checkpoints, ranking, failure, results of the seeds, status, exit code | collect, callbacks, update, rank, replay, judge, save, resume | marks are stepped over; several callbacks may stop a run; a run may die anywhere | little is lost; exit code zero means what it says |
| Campaign controller (`experiments/campaigns/execution.py`, `checkpoint_lineage.py`, `state_store.py`) | manifest in memory and on disk, running processes, attempt directories, markers | start, reap, snapshot, stop, `--resume` | crashes between writes, orphaned workers, signals, late exits | a success survives; a stopped controller ends and leaves nothing running |
| Slurm resume (`compute/slurm/resume.py`) | manifest, recovery report, immutable backups | requeue cache failures, repair pointers | runs between controllers | the next attempt starts from the verified checkpoint |
| Worker dispatch (`compute/slurm/worker_dispatch.py`) | request, claim, result, cancel and ready files; child processes | request, claim, launch, cancel, signal, report, leave | two processes and a file queue; either may die at any write | one launch and one answer per request; nobody waits for ever; nothing is left behind |
| Orchestra (`orchestra`) | task file: phase, visits, fix cycles, results, where it was parked | run a phase, route, park, fail, resume, fix | agents choose the route; a crash between two saves | uncapped visits are paid for; a report is earned; a restart redoes the phase |
| Live robots (`integrations/mt5`) | positions at the terminal; nothing of its own survives a cycle | signal, look, size, check, send, close the opposite | every call may fail; an order without an answer may be filled; others trade the account | risk stays capped; one direction at a time |
| Setups from bars (`features/po3`, `features/technical`, `features/context/liquidity.py`) | swings, references, open gaps, zones, phase | one row per bar | several events on one bar; what a row may know | phases, zones and sweeps are what the whole history says |
| Shell wrappers, capacity, continuation | none | preparation, arithmetic, validation | - | - |
| Artifact storage, registry, promotion (`artifacts`) | content-addressed files, registry | put, get, register, promote | each write is a temporary file and a rename | readers see whole artifacts |
| Other features, market data, decisioning, networks and optimisation, evaluation, configuration | frames, models, caches | pure functions, I/O, numerical optimisation | numeric or external | - |

The environment calls account, broker, guardrails and entry machine directly
and in one thread; what makes it hard is that one step is a sequence of stages
with early returns, each of which reads flags set by earlier stages and objects
(an intent, a scheduled order, an armed opportunity, a latch) set by earlier
steps. The backtest uses the same account, broker and guardrails in another
loop. A training process runs the environment inside its rollouts; the models
share no variable, because a policy that learns may do anything the environment
admits. The campaign controller interacts with its workers (training processes)
through exit codes and files, and with its successors through `campaign.json`,
markers and the attempt directories; `resume.py` edits `campaign.json` between
two controllers; on a cluster the controller reaches its workers through the
worker dispatch. The live robots run a trained model against an external
terminal. The rows of the setups are what strategies and gates read.

The hazards, each at its line and with the properties that cover it, are in
`PROJECT.json`.

## Modules

| Module | Models | Role |
|---|---|---|
| `Account` | `AccountState`, `accounting.py` | operators on account records |
| `Broker` | `Position`, `Broker` | fills, margin, entry and exit of a position, on `Account` |
| `Guardrails` | `Guardrails`, `RepeatedPayoutPolicy`, `approve_dynamic_risk` | limits, soft limits, payout decision, on `Account` |
| `EntryRules` | `EntryStateMachine` | its transitions as operators |
| `TradingEnv` | `_step_untraced` and everything it calls | the state machine that composes the four |
| `TradeLifecycle` | (abstract) | what the environment promises about one trade |
| `ManagedPosition` | levels of one open position, from entry to close | state machine |
| `Backtest` | `run_backtest` | state machine on `Broker` and `Guardrails` |
| `Campaign` | controller, its `--resume`, `resume.py`, the workers it sees | state machine |
| `WorkerDispatch` | clients, file queue and manager of one node, the allocation script | state machine |
| `RequestBoard` | (abstract) | what the dispatch promises about a request |
| `TrainingRun` | one training process, its death and resumption | state machine |
| `OrchestraPipeline` | one task of the orchestra | state machine |
| `LiveRobot` | `RLRobot`, `MultiSymbolRobot`, `CrossOverRobot` on one account | state machine |
| `Po3` | sweeps, gaps, zones and phases, one row per bar | state machine, with definitions over the whole history |
| `MCTradingEnv`, `MCManagedPosition`, `MCBacktest`, `MCPo3` | - | calendars, menus, days and bars for TLC |
| `TradingEnvProofs`, `ManagedPositionProofs`, `BacktestProofs`, `CampaignProofs`, `TrainingRunProofs`, `OrchestraPipelineProofs`, `LiveRobotProofs`, `Po3Proofs` | - | theorems about the module of that name; `CampaignProofs` also those about `WorkerDispatch` |

### TradingEnv

`stage` is the program counter of a step. The actions, in the order of
`_step_untraced`:

| Action | Code |
|---|---|
| `Progress` | `_progress_market`: session change, `reset_daily`, mark, close at the end of a session |
| `PrepareIntent` | `_prepare_action_intent`: direction from action and entry machine, and all conditions on it |
| `NoBreach`, `Breach` | `_check_guardrails`: latch, failure of the payout cycle, forced close |
| `ProtectiveExit`, `EndExits` | stops, targets, guards; then `_apply_peak_trailing_dd` |
| `FillOrder`, `CancelOrder` | `_enforce_step_constraints`: a scheduled order that is due |
| `ManualExit`, `Hold`, `SubmitOrder`, `EnterNow` | `_execute_step_action` |
| `RecordAccounting` | payout, equity curve, profit history |
| `UpdateFunnel` | `_update_entry_funnel`: evidence, or the end of an opportunity |
| `ReplayExit`, `ReplayMark`, `ReplayDone` | `_advance_ny_step`: the skipped bars of a night |
| `Finish`, `Reset` | `_resolve_step_end`, `reset` |

Money and prices are integers. Quotes, evidence, which stop or target is hit,
how large an entry the sizing code allows (0 stands for each of its refusals)
and what the policy asks for are chosen nondeterministically. `crashed` is the
state after `mark_entered` has raised: the position is open, the step is over.

`TradeLifecycle` is the abstract specification: an opportunity is detected,
armed, entered and cleared, in that order, and a position never changes its
direction. `ImplementsLifecycle` is the refinement, by a mapping that reads the
phase off the position first and the entry machine second: between a close and
the call of `mark_closed` the machine still says IN_POSITION although the
opportunity is over.

### ManagedPosition

What `TradingEnv` leaves to chance: which level of a position is reached and how
the levels move. Prices are whole points from the entry price, sizes hundredths
of a lot. `EnterStructural` and `EnterEma` decode the action into targets
(`decode_tp_selections`, with promotion of a skipped slot) and shares
(`decode_tp_fractions`). Each bar (`NextBar`) is then walked by its ticks
(`Tick`, `TicksFilled`, `StrictTicks`), or, when they filled nothing or there are
none (`NoTickFill`), by its range (`StopOnCandle` first, `TargetsOnCandle` else).
`EmaExit` is `_maybe_ema_exit`, `Guards` is `_apply_position_guards` with its
four steps in their order (break even, trailing stop, pulling and trailing of
targets, reordering), `GuardClose` and `StepClose` are the closes from outside.

The swings, the mode in which the default modes leave the stop and whether a
target lies beyond a swing are free; an EMA is only above or below. The
configuration with a single target is the case in which only slot 3 is selected;
a configuration that does not let the agent choose modes is one with explicit
fixed modes. Shares that lie exactly between two hundredths are excluded by an
assumption (`NoTies`), because the code's `round` decides them on binary
fractions. Fill prices and latency do not influence the levels and are left out.

### Backtest

`stage` is the place in the loop body: `Begin` (a new day anchors the account, an
event of the previous bar is filled), `Exits` (tick, bar, money and cap exits),
`Guard`, `CloseOfDay`, `EndBar`, `Policy` and, after the last bar, `Liquidate`.
`event` is what was planned on one bar for the next. The three modes of execution
(bars, ticks with a fall back, strict ticks) are settings chosen at the start.
The policy may return any plan; which of its levels is reached on a bar is free,
under the conditions the code puts on time and order.

### Campaign

`mem` is the manifest in the memory of the controller, `disk` the one in
`campaign.json`; the difference between the two is what a crash loses. `start()`
is three actions, because a crash can fall between them: `Prepare` (attempt
number, checkpoint, provenance), `Spawn` (`Popen`) and `Snapshot`. `Reap` is the
handling of an exit up to its snapshot, with the marker written first. Signals
arrive at any time (`Signal`); the loop then sends SIGTERM after a snapshot
(`SendStop`) and SIGKILL after the deadline (`KillWorkers`). `Crash` ends the
controller alone - its workers have sessions of their own and go on - and
`AllocationEnds` ends everything. `Resume` is the `--resume` branch,
`RequeueFailed` and `RepairPointers` are the two branches of
`prepare_campaign_resume`. A worker, as the controller sees it, writes
checkpoints (`WorkerTrains`), completes with a final record that passes or fails
the risk gate (`WorkerCompletes`), or fails, on the cache before training or
otherwise (`WorkerFails`); it may fail, or ignore SIGTERM, at will. An attempt
directory is abstracted to what the code reads from it: who started it, the
checkpoint it started from, its newest checkpoint, the final records whose
hashes are compared, and what its log shows.

### WorkerDispatch

Three processes. The allocation script starts the controller and writes the exit
marker when it is gone (`OpenController`, `ControllerReturns`, `ControllerDies`,
`MarkDone`). A client (the `srun` a controller spawns) installs its handlers,
publishes its request file and waits for a result file (`SpawnClient`, `Arm`,
`Publish`, `Receive`); it may be cancelled, which it does by a cancel file, or be
killed. The manager runs rounds: `ListPending`, `Claim` (a rename),
`LaunchSucceeds` or `LaunchFails` (with the answer 127), `File` (the claimed file
to the completed ones), `ListRunning`, `SignalWorker` (SIGTERM once to what has a
cancel file, SIGKILL after `GraceOver`), `Poll` (the answer of what has ended)
and `EndRound`, which leaves when the exit marker was there before the listing
and nothing is pending or running. `ManagerDies` may come between any two. A
process that is told to end may ignore it.

`RequestBoard` is the abstract specification: a request is started at most once,
answered once with what its process returned or with the refusal, and the client
receives nothing else. `ImplementsBoard` is the refinement; a request counts as
started from the launch, as ended from the exit of the process and as answered
from the result file.

### TrainingRun

One process: `Prepare` builds or loads a model, `VecStep` moves all environments
one step, `Callbacks` runs the list of callbacks in its order (early abort,
checkpoint, ranking, viability), `Update` is the update of PPO with its metrics,
`RankLoaded` the ranking of a checkpoint that was already complete, `Fit` the
saving of the final model, `Evaluate` both replays and the judgement of a seed,
`Finalize` status and exit code. `Crash` ends the process anywhere, `Restart`
resumes from its newest checkpoint as the campaign does. Marks (`nextSave`,
`nextEval`, `nextVia`) are counters that a vector of environments steps over;
`checks` is a history variable, read by no action.

### OrchestraPipeline

`pc` tells whether a run is idle, in a phase, routing or entering the next phase;
each corresponds to a save of the state file, and `Crash` may come between any
two. `Run` is the loop of `_execute_phase` and `_route`: each phase has an action
for every answer of its agents, including a routing directive through the
allowlist, the auto-skips, the soft guard and the cap on revisits. `Resume`,
`RestartFrom` (`--from`) and `FixTask` (`orchestra fix`) start a task again.

### LiveRobot

A cycle of one of three robots: `Signal`, `Look` (positions), `Admit` or `Refuse`
(size and risk check), `Fill`, `Reject` or `NoAnswer` (the order), `LookOpposite`,
`Close`. Every call has a version that fails (`...Blind`, `CloseFails`); after a
failed query the code goes on with what it takes for the answer. `StopHit` and
`Manual` are the market and a person on the same account, between any two calls.
The terminal is external: it is modelled as the code uses it.

### Po3

One action per combination of modes that the configurations ship: `LegacyBar`
(sweeps of the bars' own swings, phases of `build_po3_state`, readiness of
`build_distribution_after_ifvg`) and `RevisedBar` (sweeps of confirmed references
of higher timeframes, phases of `build_po3_ifvg_state`). Both detect gaps, invert
them and carry zones. The machines of the code run one after the other over all
bars; each reads only rows up to its own, so one action computes a row of all of
them. `log` holds the rows. The properties do not restate the machines: they say
of the whole log what the phase, the zone and the references of its last row
should be. Left out are the sessions (every bar has its Asian levels), ages and
distances, and how the higher timeframes are resampled and aligned: which
references they confirm and which gaps they invert comes freely, bounded by
`MaxNews`.

## Runs

| Run | Module | Question | States, time on two cores |
|---|---|---|---|
| `fsm_eval` | `MCTradingEnv` | entry machine on, immediate fills, cooldown | 839 000, 32 s |
| `legacy_eval` | `MCTradingEnv` | no machine, fills one bar late, session cap, peak ceiling, overnight blocking | 399 000, 9 s |
| `payout_eval` | `MCTradingEnv` | repeated payouts, overnight holding, manual exits | 855 000, 22 s |
| `managed` | `MCManagedPosition` | levels and slots of one position | 1 850 000, 76 s |
| `backtest` | `MCBacktest` | two days in three modes of execution | 2 670 000, 93 s |
| `campaign` | `Campaign` | crash, stop, resume, recovery | 602 000, 45 s |
| `dispatch` | `WorkerDispatch` | clients, file queue, manager, and all their deaths | 70 000, 25 s |
| `training` | `TrainingRun` | stepped-over marks, failures, death and resumption | 1 250 000, 35 s |
| `pipeline` | `OrchestraPipeline` | routes, crash, restart | 3 900 000, 51 s |
| `live` | `LiveRobot` | three robots, failing calls, others on the account | 378 000, 8 s |
| `po3` | `MCPo3` | rows of all the machines that read bars | 528 000, 67 s |
| `early_collapse` | `TrainingRun` | a failure text of `callbacks.py` | violated |

*What they show.*

- `fsm_eval`: the machine and the position agree at every stage, no entry falls
  within the cooldown or beyond a hard limit, and the refinement.
- `legacy_eval`: a latched session or year stays flat whatever was pending;
  nothing is carried over a gap; no loss escapes between the last check of a
  session and the new daily anchor; the cap counts late fills; no entry at the
  peak ceiling.
- `payout_eval`: a breach ends the rollout; a payout conserves money and leaves
  an account beyond no limit.
- `managed`: no handler loses a slot, leaves a position without a target to close
  it or gets its targets out of order; a filled slot closes its own share and the
  last one what is left; after the first target the stop protects the entry; it
  never widens.
- `backtest`: the trade log adds up to the balance, no exit precedes its fill, no
  loss beyond a limit is wiped by a new day.
- `campaign`: a recorded success is never changed; `--resume` refuses only when
  two controllers used one attempt directory; a controller that returns leaves
  nothing running; a controller that is told to stop returns.
- `dispatch`: the refinement of the request board; a manager that leaves has
  answered what it claimed and left no process; after a controller that returned
  no client waits for ever; a cancelled process ends even when it ignores
  SIGTERM; while the manager lives, a published request is answered.
- `training`: a death while collecting loses less than one interval of
  checkpoints and one step of the vector; exit code zero means that every seed was
  trained to the end; a seed that was trained to the end has been ranked; every
  run ends.
- `pipeline`: visits to the uncapped triage phase are paid for by visits to
  capped phases; a report without a completed implementation or after a failed
  gate needs an exhausted cap; a parked or interrupted task starts its phase again.
- `live`: the risk of a robot's own positions stays below its caps although
  queries fail and an order without answer may have been filled; a robot never
  adds to a position in the same direction; after a trade that nothing disturbed
  no position points the other way.
- `po3`: the phase of the last row, the zones carried and the references kept are
  what a reading of the whole log says they should be.

*Bounds.* The calendars of `MCTradingEnv` have two sessions with a night of one
bar between them and one bar behind the last: enough for every kind of boundary
(a session change, a gap, the last NY bar, the last bar of the data), for an
order that is scheduled across a boundary and for a cooldown that reaches over
one. Two or three quotes, spread 0 or 1 and lots of 1 or 2 let a trade win, lose,
reach each limit exactly and pass it, and let a close be partial.

`managed` opens a long and a short position in mirrored markets from a menu of
three targets, in sizes 2 and 9 with the split 6:2:1: with 2 a rounded share can
be nothing, with 9 all three slots get one. Three bars with up to two ticks let a
position fill a target, move its levels and be stopped at the moved stop.
`backtest` has two days with bars before and after their sessions, prices 10 and
12 and a daily limit of 4 below a total limit of 6, so that one lost trade
can reach the daily limit and two the other.

In `campaign` two jobs, three attempts and three controllers (`MaxAttempts`,
`MaxStarts`) are the fewest with which a job can be interrupted with a
checkpoint, fail on the cache, be requeued and be interrupted again, so that both
recoveries happen, next to a job that has succeeded. `MaxCrashes` admits the
death of the controller alone for the first controller only (the end of the
allocation is always possible): its orphans then meet two successors.
`Workers = 1` serialises the present controller's jobs; orphans still run beside
them. The same properties were also checked with two workers, two checkpoint
intervals and a parent checkpoint on two attempts and two controllers (622 000
states). `dispatch` needs two clients for one that is claimed while the other is
listed, cancelled or lost; clients share nothing but the manager's rounds.

In `training` two environments step over marks at every fifth step, rollouts of
three vector steps end between the marks, and 20 steps in all admit two replays
before the end and two after a resumption; one or two seeds, one death. In
`pipeline` the shipped cap of two revisits is kept; one routing directive, one
resumption and one cycle of fixes, ten phases and a restart at the reporting phase
are enough to pass each cap. `live` has two symbols whose risk limit (1) the total
(2) allows twice, four positions, three failing calls and one trade of a person. `po3`
runs seven bars in the historical mode, where levels are swings of the bars
themselves and need bars to form, and five in the revised one; windows of three
bars let gaps, zones and set-ups expire; one reference per direction and
timeframe makes a second one evict the first. Both sides swept on one bar in the
historical mode need more bars than that.

*Deadlock* is checked in the environment, which resets after every episode, and
in `dispatch`, whose finished states stutter by an action of their own. It is not
in `campaign` (a finished campaign, or one that `--resume` refuses, stops),
`training` and `early_collapse` (the run is over), `pipeline` (the resumptions
are bounded), `live` (`MaxOpen`, `MaxFaults`), `backtest` (the frame ends),
`managed` (the position is closed) and `po3` (the number of bars).

*Fairness.* `Campaign` assumes weak fairness of the controller as a whole, which
polls every second and is one sequential loop; nothing of the workers, of crashes
or of restarts. `StopDrains` therefore holds against workers that ignore SIGTERM,
because SIGKILL is an action of the controller. `WorkerDispatch` assumes it of the
manager's loop, of the script, of the steps a client takes by itself, of the
grace period, which is a clock, and of the exit of a process nobody cancelled;
nothing of cancelled processes, which may ignore SIGTERM. `OrchestraPipeline` and
`TrainingRun` assume that a process that may go on goes on. The other modules
assume none: a step of the environment, of the backtest or of a bar is a function
call, and a robot promises nothing that must happen.

## Theorems

For every value of the constants under the named ASSUMEs of the modules, which
say what the code's types and validation say. Each rests on an inductive
invariant, found with TLC first.

`TradingEnv` (`TradingEnvProofs`, which begins with what the operations of the
account and the broker return; `BacktestProofs` repeats what it needs of that):

- `TypeCorrect`. The invariant is `TypeOK` with `DueOrderPending` (while an order
  is being treated as due it exists), without which its fill would not be typed.
- `SessionsCapped`, `LatchHolds`, `NothingOverGap`, `BreachesSeen`. `CapInv`,
  `LatchInv`, `GapInv` and `SeenInv` carry each property through the stages of a
  step: what the early returns leave true until the entry. They assume that the
  sessions of a calendar are dates, one after the other.
- `FsmTracksPosition`, `NoIllegalCall`. `FsmMatchesPosition` is not inductive: an
  entry may only be executed because the intent of this step is the armed
  direction and nothing between decision and execution touches the machine.
  `FsmInv` says so. Both assume immediate fills whenever the machine is on; with a
  fill latency they are false (an armed opportunity may be dropped before the
  fill), and the repository has no configuration that combines them. The same
  assumption is behind `CooldownKept` (`CooldownInv`), `EntriesWithinLimits`
  (`LimitInv`) and `ImplementsLife`.
- `ImplementsLife`: the refinement of `TradeLifecycle`, initial states and every
  action.
- `FlatAccount` (`FlatEquityIsBalance` is inductive with the types),
  `TerminalBreach` (`TerminalInv` carries `done` from the guard to the end of the
  step), `CeilingHonoured` (`CeilingInv`), `PayoutsSound` (for positive limits).

`ManagedPosition`: `SlotsKept`, `RunnersProtected`, `StopsTighten`, from `Inv`: a
position has targets in order, one per slot that is not filled, and a stop that
agrees with what was filled; one lemma per handler. `SharesKept` adds `LegsInv`:
every filled slot lies before every slot that works, what was closed and what is
left add up to the size at entry, and each exit had the share of its slot. It is
not inductive over a bar as a whole but over its slots: `LookedAt` says that no
earlier slot was reached at the same price when the next one is tried, and the
order of the targets does the rest. The exits are added up by a fold of the
library; see below.

`Backtest`: `BacktestTypes`, `LogExplains`, `TradesInOrder`, from `IInv`, which
adds to the types that the balance is what the log and the part of the open
position already closed say, and that a planned or open trade is not of the future.
`BreachesRecorded` is about the frame too. It assumes `DatesOutlastSessions`: after
the last bar of a session comes one of the same date, on which the guards see the
loss of the last close while the session is still the current one. The frames the
code is given have whole days, with minutes between the end of the session and
midnight; a frame cut to the session alone would lose a breach of a last close.
`SeenInv` says that overnight the account is flat and what it lost is on record.

`Campaign`: `CampaignTypes`, `ControllerReturnsClean`, `SuccessDurable`,
`ResumesAccepted`, for every
number of jobs, workers, attempts, controllers and crashes (`CampaignInv`, with the
conjuncts `AttemptInv`: a job that has left the queue has an attempt; `RunningInv`:
what the controller waits for is what it calls running, and a controller that is
gone waits for nothing; `DurableInv`: memory agrees with the disk on every recorded
success; `WorkerInv`: a live worker of the present controller is the only one of
its job and is waited for; `UserInv`: an attempt's directory names every controller
whose worker runs in it, wrote in it or is waited for; `EvidenceInv`: a success, in
memory or on disk, has its marker and the records that its hashes name, and no worker
that could still change them, unless two controllers have used the directory).
`ResumesAccepted` rests on the last two.

`WorkerDispatch` (in `CampaignProofs`, which extends both modules, so their names
differ: `launched` is the manager's `running`, `campaign` the state of the
controller): `DispatchTypes`, `ManagerLeavesNothing`, `NoClientStranded`,
`DispatchImplementsBoard`, from `DispatchInv`: `ClientInv` (which files a client
in each state has), `FileInv` (a request is in one place), `ManagerInv` (what the
manager holds between two steps of a round) and `LeftInv` (what it knew when it
left).

`OrchestraPipeline`: `TriageIsPaid`, `ReportEarned`, `RestartsThere`, for every cap
on visits, fix cycles, directives and resumptions. `TriagePaid` is not inductive: a
capped phase that runs or is about to has been counted and may still lead back to
triage, so `PaidInv` keeps one visit in hand for it. `EarnInv` carries what earns
the report from the routing through the entry to its end, and `StopInv` says that
what a stopped run leaves behind tells where it stopped.

`LiveRobot`: `RiskIsCapped`, `OnePerSide`, `NothingOpposite`, for every set of
symbols, limit on risk and number of positions and failed calls. `CapInv` carries
the sum of the risks from the check of the risk manager over the call to the
terminal: an order that was admitted still fits when it is sent, because only stops
and positions of the person come between. `AlikeInv` does the same for the side: a
robot that is about to open one has none.

*Sums.* `OwnRiskCapped` and `SharesAsAllocated` add up a set with the fold of the
community modules. `LiveRobotProofs` and `ManagedPositionProofs` prove its
equations: the recursive function under the fold exists and is unique on the
subsets of a finite set, and any element can be taken out of the sum first. The
induction is made without an operator parameter, by a smallest counterexample
among the subsets (`Smallest`, from the well-foundedness of the strict subset
ordering).

`TrainingRun`: `TrainingTypes`, `LittleIsLost`, `ExitZero`, `EarnedResults`, from
`TypeInv` (with `Sound`: the relation of counters, marks and the newest checkpoint)
and `EarnInv`. `LittleIsLost` is for any number of environments, so for any number
of marks that one vector step passes.

`Po3`: `Types`, `References_Fresh`, `Zones_Defined`, `Phases_Defined`, for every set
of bars, references and higher gaps, both modes and every bound, on histories of any
length. None of the three properties is inductive: they compare the last row with
the whole log, and the machines remember less than the log and more than the row.
`IInv` therefore says of each variable what it remembers of the history: `GapsInv`
(exactly the gaps that are young and were not closed through), `ZoneInv` and
`ZoneSince` (the zone of the last inversion, dead if some bar since has filled it
and left if some bar since has left it; nothing once it is too old, when the machine
no longer looks), `RefsInv`, `RevisedInv` with `RevisedAs` (the last unambiguous
sweep, the first close back through its level, the extremes of the leg between them
and the first bar after it with a gap of the setup), `LegacyInv` with `LegacyAs` and
`ArmSays` (the last sweep, the first close beyond its leg, and whether the side was
confirmed, and then not, since it turned), and `RowInv` and `RowsInv`, which tie the
last row to the setup and the zone. A step is proved per machine: what `First`,
`Last`, `Highest` and `Lowest` of a history become when one more bar comes, then
each transition.

*Only model-checked*: every liveness property (`StopDrains`, `CancelledStops`,
`Answered`, `RunEnds`), which is out of the prover's reach as ENABLED is. Every
invariant and action property of the passing runs has a theorem. *Only proved*: the type invariants and `FlatEquityIsBalance`, which
no run repeats.

## Findings

`early_collapse`: a run that died between two replays of its early-abort check is
resumed with thresholds that start again from the first interval, so the first replay
follows at once, and two idle replays closer than the interval end the run as a
collapsed policy. The lines and the quote are in `PROJECT.json`.

Other disagreements between the code and its documents or its own words, met
while modelling and visible in the definitions, without a run of their own:

- `episode_runtime.py:320` sets `_payout_withdrawn_this_step`, and nothing clears
  it before the next reset (`env.py:350`); `step_accounting_runtime.py:43` adds it
  to the profit of every later step. The plan of
  `docs/training/repeated_payout_policy_implementation_plan.md:339` clears it.
- Without the entry machine an intent accepted before the exits of a step ignores
  the cooldown that one of them starts (`action_intent_runtime.py:88`,
  `trade_accounting_runtime.py:18`).
- An order scheduled over a gap is never due, blocks later entries and ends with a
  reason that is not true.
- One payout cycle can be recorded as failed and as successful
  (`risk_runtime.py:117`, `episode_runtime.py:293`).
- `--resume` overwrites the checkpoint pointer that `resume.py:232` verified and
  wrote (`execution.py:620`); after two interruptions, the second before its first
  checkpoint, the next attempt does not find the checkpoint of the first
  (`checkpoint_lineage.py:317`); a restart starts a job whose worker still runs
  (`execution.py:613`, `:855`).
- A backtest records the daily loss of one day a second time, for the next: after
  midnight the bars before the session have its date and still the old anchor, and
  the session is blocked before it begins. `.agents/domain_maps/backtest.md:64` and
  `baseline/A3_trading_env_audit.md:43` say that a breach blocks the rest of its own
  session and is recorded once.
- `docs/distributional_methodology.md:28` pulls a target back in the mode
  `breakeven` and lets `trailing` only extend it; `_apply_position_guards`
  (`position_runtime.py:344`) pulls it back in both.
- `cross_over_robot.py:91` closes the other side than the one it logs.
- `orchestra fix` reports success when its gate is red (`cli.py:298`,
  `routing.py:372`).
- `build_po3_state` says that the short side mirrors the long one; when one bar
  sweeps both sides the long side wins. `build_distribution_after_ifvg` says that
  a confirmation of an earlier leg does not carry over; a second sweep of the same
  side keeps it. `build_ifvg_zone_features` says that a bar closes back on the
  trade side of the near edge, and a comment in its body that no close is needed
  (`state.py:359`); the code asks for none. `structure_levels` says that a multiple
  of zero accepts every confirmed fractal; `detect_swings` drops a pivot on the
  side of the last one it accepted. A confirmation on a higher timeframe is masked
  by one on M1 that is not eligible (`align_ifvg_zone_timeframes`).

## Not modelled

In the environment: percentage limits, swap and slippage (part of the integer
costs), the formula that sizes an entry and the menus of structural stops and
targets, the strategy's own entry gates (any of them may refuse), observations and
rewards (no transition reads them). In `ManagedPosition`: fill prices. In the
campaign: fingerprint overrides, GPU slots and resource samplers; the two writes of
a recovery as separate steps. In the orchestra: the choice of models, health probes
and retries inside one call of an agent. In `Po3`: sessions, ages and distances, and
the resampling and alignment of higher timeframes. The artifact store was read: each
of its writes goes to a temporary file and is renamed, and there is no protocol
beyond that.

Neural networks and optimisation, data frames, the external terminal and the shell
are out of reach or keep no protocol state. `PROJECT.json` maps about a tenth of
the lines of the implementation. The rest is mostly reporting, tables and figures
of evaluation, tools on the code itself, experiments that compare strategies, and
numerical code: pure functions of large inputs, for which a state machine would
only repeat the program.

## Plan

Done: the environment with account, broker, guardrails and entry machine; the levels
of a position; the backtest; the training process; the campaign and its worker
dispatch; the orchestra; the live robots; the setups; their theorems.

Next, in this order:

1. `DispatchedCampaign`, the campaign whose workers are dispatched: the exit code a
   controller sees is the client's and may precede the end of the process.
2. The alignment of higher timeframes in `Po3`.
