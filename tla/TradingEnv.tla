----------------------------- MODULE TradingEnv -----------------------------
(***************************************************************************)
(* simulation/environment: one step of the trading environment             *)
(* (_step_untraced) is a fixed sequence of stages, each of which reads     *)
(* what the earlier ones left behind.  Every stage is an action; `stage`   *)
(* is the program counter of the step, `loc` its local variables.  The     *)
(* market (quotes, evidence, stop and target hits) and the policy's        *)
(* actions are chosen by \E.                                               *)
(***************************************************************************)
EXTENDS Broker, Guardrails, EntryRules, Sequences, FiniteSets

CONSTANTS
    Prices,          \* the quotes (bids) a bar can have
    LotSizes,        \* what position sizing can return besides 0
    StopDistances,   \* distances of a stop from its entry
    NBars,           \* bars of the frame, 0 .. NBars - 1
    NyIndices,       \* _ny_indices: the bars the agent steps
    SessionOf,       \* session id of every bar, from 1
    MaxSteps,        \* max_episode_steps, 0 = None
    Episodic,        \* training (TRUE) or chronological evaluation (FALSE)
    BlockOvernight, StrategyActions, UseFsm,
    Latency,         \* fill_latency_bars
    EntryCooldown,   \* entry_cooldown_bars
    MaxEntries,      \* max_entries_per_session, 0 = no cap
    PeakDdPct        \* peak_trailing_dd_limit in percent, 0 = off

ASSUME EnvAssumption ==
    /\ Prices \subseteq Int /\ Prices # {}
    /\ LotSizes \subseteq Nat \ {0}
    /\ StopDistances \subseteq Nat \ {0}
    /\ NBars \in Nat \ {0}
    /\ NyIndices \in Seq(0 .. NBars - 1) /\ Len(NyIndices) > 0
    /\ \A i, j \in 1 .. Len(NyIndices) : i < j => NyIndices[i] < NyIndices[j]
    /\ SessionOf \in [0 .. NBars - 1 -> Nat \ {0}]
    /\ {MaxSteps, Latency, EntryCooldown, MaxEntries, PeakDdPct} \subseteq Nat
    /\ {Episodic, BlockOvernight, StrategyActions, UseFsm} \subseteq BOOLEAN

VARIABLES
    stage,          \* where the current step is
    nyPos,          \* _ny_pos; also episode_step_count
    price,          \* close (bid) of the current bar
    acct, pos,      \* account, position
    fsm,            \* entry_state_machine
    order,          \* _pending_entry_order
    prevSession,    \* prev_session, 0 = None
    cooldownUntil,  \* _cooldown_until_bar
    entries,        \* _session_entry_counts
    latch,          \* breached_sessions, _year_failed, breach_log # []
    ledger,         \* payout cycles: cycle_count, cycle_events,
                    \* cumulative_payouts, _payout_withdrawn_this_step
    history,        \* last point of equity_curve, sum of pnl_history
    loc             \* locals of the step

vars == <<stage, nyPos, price, acct, pos, fsm, order, prevSession,
          cooldownUntil, entries, latch, ledger, history, loc>>

Sessions == {SessionOf[i] : i \in 0 .. NBars - 1}

NoOrder  == [dir |-> 0, fillIdx |-> 0]
NoCancel == [reason |-> "none", fillIdx |-> 0]

IdleLoc ==
    [next |-> 0, intent |-> 0, due |-> FALSE, breach |-> FALSE,
     blocked |-> FALSE, peakBlock |-> FALSE, done |-> FALSE,
     cancel |-> NoCancel]

-----------------------------------------------------------------------------
(* The calendar *)

StepIdx == IF nyPos < Len(NyIndices) THEN NyIndices[nyPos + 1]
           ELSE NyIndices[Len(NyIndices)] + 1

Session == SessionOf[StepIdx]

LastNyBar == nyPos + 1 >= Len(NyIndices)

(* Mutations: a gap of one bar is no gap; only the end of the data is one. *)
IsBoundaryOffByOne  == LastNyBar \/ NyIndices[nyPos + 2] > StepIdx + 2
IsBoundaryAtDataEnd == LastNyBar

(* _is_ny_session_boundary: the next NY bar is not the next bar. *)
IsBoundary == LastNyBar \/ NyIndices[nyPos + 2] > StepIdx + 1

(* A session id is the number of the bar's date, and New York bars without *)
(* a gap between them lie within one date.                                 *)
SessionsAreDates ==
    /\ \A i, j \in 0 .. NBars - 1 : i <= j => SessionOf[i] <= SessionOf[j]
    /\ \A k \in 1 .. Len(NyIndices) - 1 :
          NyIndices[k + 1] = NyIndices[k] + 1
          => SessionOf[NyIndices[k]] = SessionOf[NyIndices[k + 1]]

(* The bar whose quotes this step trades on, and the bar an order decided  *)
(* now is scheduled for.                                                   *)
MarketFillIdx == Lower(StepIdx + 1, NBars - 1)

FillIdx ==
    IF Latency = 0 THEN StepIdx + 1
    ELSE IF nyPos + 1 + Latency < Len(NyIndices)
         THEN NyIndices[nyPos + 2 + Latency]
         ELSE NBars

(* The fill bar is a NY bar and the next NY bar is of the same session. *)
HasFollowUp(idx) ==
    \E k \in 1 .. Len(NyIndices) - 1 :
        /\ NyIndices[k] = idx
        /\ SessionOf[NyIndices[k + 1]] = SessionOf[idx]

-----------------------------------------------------------------------------
(* Shared effects *)

(* _note_close: the bar until which the post-close cooldown lasts. *)
CooldownAfterClose ==
    IF StrategyActions /\ EntryCooldown > 0 THEN StepIdx + EntryCooldown
    ELSE cooldownUntil

(* Close `lots` of the position at a quote; a partial target does not call *)
(* _note_close.                                                            *)
ClosePart(lots, quote) ==
    /\ acct' = ClosePosition(acct, pos, lots, quote)
    /\ pos' = Remainder(pos, lots)
    /\ cooldownUntil' =
         IF lots = pos.size THEN CooldownAfterClose ELSE cooldownUntil

CloseAll(quote) == ClosePart(pos.size, quote)

KeepBook == UNCHANGED <<acct, pos, cooldownUntil>>

(* _entry_risk_capacity_allows: some stop leaves the whole modelled loss   *)
(* (stop plus both commissions) inside the approved risk.                  *)
CapacityAllows(a, lots) ==
    RepeatedPayout =>
        \E d \in StopDistances :
            lots * d + 2 * CostPerLot * lots <= ApprovedRisk(a)

(* _try_enter_position at a quote: an opposing position is closed first, a *)
(* position of the same side stays as it is, and the entry itself may be   *)
(* refused after the flip closed (lots = 0 stands for every refusal of the *)
(* level and sizing code).  mark_entered raises outside ARMED: the step    *)
(* dies with the position already open.                                    *)
TryEnter(dir, lots, quote) ==
    LET flips == pos # NoPosition /\ pos.dir # dir
        after == IF flips THEN ClosePosition(acct, pos, pos.size, quote) ELSE acct
        opens == /\ pos = NoPosition \/ flips
                 /\ CanOpen(after, lots)
                 /\ CapacityAllows(after, lots)
    IN  /\ acct' = IF opens THEN DebitEntry(after, lots) ELSE after
        /\ pos' = IF opens THEN Opened(dir, lots, quote)
                  ELSE IF flips THEN NoPosition ELSE pos
        /\ cooldownUntil' = IF flips THEN CooldownAfterClose ELSE cooldownUntil
        /\ entries' = IF opens /\ StrategyActions
                      THEN [entries EXCEPT ![Session] = @ + 1] ELSE entries
        /\ fsm' = IF opens /\ UseFsm /\ CanMarkEntered(fsm)
                  THEN MarkEntered(fsm) ELSE fsm
        /\ stage' = IF opens /\ UseFsm /\ ~CanMarkEntered(fsm)
                    THEN "crashed" ELSE "account"

-----------------------------------------------------------------------------
(* reset *)

InitialLedger == [count |-> 1, events |-> {}, paid |-> 0, withdrawn |-> 0]
InitialLatch == [sessions |-> {}, yearFailed |-> FALSE, breached |-> FALSE]

Init ==
    /\ stage = "market" /\ nyPos = 0 /\ price \in Prices
    /\ acct = NewAccount /\ pos = NoPosition /\ fsm = Cleared
    /\ order = NoOrder /\ prevSession = 0 /\ cooldownUntil = -1
    /\ entries = [s \in Sessions |-> 0]
    /\ latch = InitialLatch /\ ledger = InitialLedger
    /\ history = [equity |-> InitialBalance, sum |-> 0]
    /\ loc = IdleLoc

Reset ==
    /\ stage \in {"over", "crashed"}
    /\ stage' = "market" /\ nyPos' = 0 /\ price' \in Prices
    /\ acct' = NewAccount /\ pos' = NoPosition /\ fsm' = Cleared
    /\ order' = NoOrder /\ prevSession' = 0 /\ cooldownUntil' = -1
    /\ entries' = [s \in Sessions |-> 0]
    /\ latch' = InitialLatch /\ ledger' = InitialLedger
    /\ history' = [equity |-> InitialBalance, sum |-> 0]
    /\ loc' = IdleLoc

(* _progress_market: a new session anchors the daily loss before the       *)
(* position is marked; on the last NY bar of a session an open position is *)
(* closed at this bar's quote.  The next bar's close is fixed here because *)
(* the later stages of the step already trade on it.                       *)
Progress ==
    /\ stage = "market" /\ stage' = "intent"
    /\ prevSession' = Session
    /\ \E next \in IF MarketFillIdx = StepIdx THEN {price} ELSE Prices :
           loc' = [IdleLoc EXCEPT
                     !.next = next,
                     !.due = order # NoOrder /\ order.fillIdx = MarketFillIdx]
    /\ LET anchored == IF prevSession \notin {0, Session}
                       THEN ResetDaily(acct) ELSE acct
           marked == IF pos = NoPosition THEN anchored
                     ELSE MarkToMarket(anchored, pos, price)
           sessionEnd == BlockOvernight /\ pos # NoPosition /\ IsBoundary
       IN  IF sessionEnd
           THEN /\ acct' = ClosePosition(marked, pos, pos.size, price)
                /\ pos' = NoPosition
                /\ cooldownUntil' = CooldownAfterClose
           ELSE /\ acct' = marked
                /\ UNCHANGED <<pos, cooldownUntil>>
    /\ UNCHANGED <<nyPos, price, fsm, order, entries, latch, ledger, history>>

(* Mutation: the policy chooses the side. *)
RequestedByPolicy(action) ==
    IF UseFsm /\ fsm.state # "ARMED" THEN 0 ELSE action

(* _prepare_action_intent: the direction the policy asks for, after the    *)
(* entry machine, and the conditions under which it survives.  The         *)
(* strategy's own gates may refuse any direction.                          *)
Requested(action) ==
    IF ~UseFsm THEN action
    ELSE IF fsm.state = "ARMED" /\ action # 0 THEN fsm.dir ELSE 0

(* Mutations: the session cap admits one entry more; no cooldown. *)
EntryAllowedCapOffByOne ==
    /\ order = NoOrder
    /\ ~(BlockOvernight /\ IsBoundary)
    /\ StrategyActions /\ MaxEntries > 0 => entries[Session] <= MaxEntries
EntryAllowedAtOnce ==
    /\ order = NoOrder
    /\ ~(BlockOvernight /\ IsBoundary)

EntryAllowed ==
    /\ order = NoOrder
    /\ ~(BlockOvernight /\ IsBoundary)
    /\ StrategyActions =>
         /\ MaxEntries = 0 \/ entries[Session] < MaxEntries
         /\ EntryCooldown = 0 \/ StepIdx >= cooldownUntil
    /\ BlockOvernight /\ FillIdx < NBars => HasFollowUp(FillIdx)

PrepareIntent ==
    /\ stage = "intent" /\ stage' = "guard"
    /\ \E action \in {-1, 0, 1}, gate \in BOOLEAN :
           loc' = [loc EXCEPT
                     !.intent = IF EntryAllowed /\ gate THEN Requested(action) ELSE 0]
    /\ UNCHANGED <<nyPos, price, acct, pos, fsm, order, prevSession,
                   cooldownUntil, entries, latch, ledger, history>>

(* Mutation: a repeated-payout evaluation latches like a legacy one. *)
LatchingInEvaluation == ~Episodic

(* _check_guardrails.  The session/year latch exists in legacy evaluation  *)
(* only; a latched session is not checked again.                           *)
Latching == ~RepeatedPayout /\ ~Episodic
Latched  == Latching /\ (latch.yearFailed \/ Session \in latch.sessions)

NoBreach ==
    /\ stage = "guard" /\ stage' = "exits"
    /\ Latched \/ BreachReason(acct) = "none"
    /\ loc' = [loc EXCEPT !.blocked = Latched]
    /\ KeepBook /\ UNCHANGED <<latch, ledger>>
    /\ UNCHANGED <<nyPos, price, fsm, order, prevSession, entries, history>>

Breach ==
    /\ stage = "guard" /\ stage' = "exits"
    /\ ~Latched /\ BreachReason(acct) # "none"
    /\ latch' = [breached   |-> TRUE,
                 sessions   |-> IF Latching THEN latch.sessions \cup {Session}
                                ELSE latch.sessions,
                 yearFailed |-> \/ latch.yearFailed
                                \/ Latching /\ BreachReason(acct) # "daily_loss"]
    /\ IF pos = NoPosition THEN KeepBook ELSE CloseAll(loc.next)
    /\ ledger' = IF RepeatedPayout
                 THEN [ledger EXCEPT !.events = @ \cup {<<ledger.count, "failure">>}]
                 ELSE ledger
    /\ loc' = [loc EXCEPT !.breach = TRUE, !.blocked = Latching, !.done = ~Latching]
    /\ UNCHANGED <<nyPos, price, fsm, order, prevSession, entries, history>>

(* _check_sl_tp and _apply_position_guards: stop, targets (each closing a  *)
(* part), EMA exit and guards close the position wherever the bar allows.  *)
ProtectiveExit ==
    /\ stage = "exits" /\ ~loc.breach /\ ~loc.blocked
    /\ pos # NoPosition
    /\ \E lots \in 1 .. pos.size, quote \in Prices : ClosePart(lots, quote)
    /\ UNCHANGED <<stage, nyPos, price, fsm, order, prevSession, entries,
                   latch, ledger, history, loc>>

(* _apply_peak_trailing_dd, after the exits. *)
PeakDdReached == PeakDdPct > 0 /\ TrailingDrawdownAtLeast(acct, PeakDdPct)

EndExits ==
    /\ stage = "exits"
    /\ IF PeakDdReached /\ pos # NoPosition THEN CloseAll(loc.next) ELSE KeepBook
    /\ loc' = [loc EXCEPT !.peakBlock = PeakDdReached]
    /\ stage' = IF loc.due THEN "due" ELSE IF loc.done THEN "account" ELSE "act"
    /\ UNCHANGED <<nyPos, price, fsm, order, prevSession, entries, latch,
                   ledger, history>>

(* Mutations: the fill checks the ceiling only, or the latch only. *)
OrderExecutableWhenLatched == ~loc.done /\ ~loc.peakBlock /\ ~SoftBlocked(acct)
OrderExecutableAtCeiling   == ~loc.done /\ ~loc.blocked /\ ~SoftBlocked(acct)

(* The scheduled order, filled at the next bar's open. *)
OrderExecutable ==
    ~loc.done /\ ~loc.blocked /\ ~loc.peakBlock /\ ~SoftBlocked(acct)

FillOrder ==
    /\ stage = "due" /\ OrderExecutable
    /\ order' = NoOrder
    /\ \E lots \in LotSizes \cup {0}, quote \in Prices :
           TryEnter(order.dir, lots, quote)
    /\ UNCHANGED <<nyPos, price, prevSession, latch, ledger, history, loc>>

CancelOrder ==
    /\ stage = "due" /\ ~OrderExecutable /\ stage' = "account"
    /\ order' = NoOrder
    /\ loc' = [loc EXCEPT !.cancel =
                 [reason |-> "execution_blocked_before_scheduled_fill",
                  fillIdx |-> order.fillIdx]]
    /\ KeepBook
    /\ UNCHANGED <<nyPos, price, fsm, prevSession, entries, latch, ledger, history>>

(* _execute_step_action: the exit action, a refused intent, an order for a *)
(* later bar, or an entry at the next bar's open.                          *)
ManualExit ==
    /\ stage = "act" /\ stage' = "account"
    /\ ~StrategyActions /\ loc.intent = 0 /\ pos # NoPosition
    /\ CloseAll(loc.next)
    /\ UNCHANGED <<nyPos, price, fsm, order, prevSession, entries, latch,
                   ledger, history, loc>>

(* Mutation: an intent of a latched session is executed. *)
IntentExecutableWhenLatched ==
    loc.intent # 0 /\ FillIdx < NBars /\ ~loc.peakBlock /\ ~SoftBlocked(acct)

IntentExecutable ==
    /\ loc.intent # 0 /\ FillIdx < NBars
    /\ ~loc.blocked /\ ~loc.peakBlock /\ ~SoftBlocked(acct)

Hold ==
    /\ stage = "act" /\ stage' = "account"
    /\ ~IntentExecutable
    /\ KeepBook
    /\ UNCHANGED <<nyPos, price, fsm, order, prevSession, entries, latch,
                   ledger, history, loc>>

SubmitOrder ==
    /\ stage = "act" /\ stage' = "account"
    /\ IntentExecutable /\ Latency > 0
    /\ order' = [dir |-> loc.intent, fillIdx |-> FillIdx]
    /\ KeepBook
    /\ UNCHANGED <<nyPos, price, fsm, prevSession, entries, latch, ledger,
                   history, loc>>

EnterNow ==
    /\ stage = "act"
    /\ IntentExecutable /\ Latency = 0
    /\ \E lots \in LotSizes \cup {0}, quote \in Prices :
           TryEnter(loc.intent, lots, quote)
    /\ UNCHANGED <<nyPos, price, order, prevSession, latch, ledger, history, loc>>

(* _record_step_accounting: a payout is taken from a flat account, then    *)
(* the equity point and the step's profit are recorded.                    *)
PayoutTaken == RepeatedPayout /\ pos = NoPosition /\ PayoutDue(acct)

AfterPayout(l) ==
    [events    |-> l.events \cup {<<l.count, "success">>},
     paid      |-> l.paid + PayoutAmount(acct),
     count     |-> IF Episodic THEN l.count ELSE l.count + 1,
     withdrawn |-> IF Episodic THEN l.withdrawn ELSE PayoutAmount(acct)]

RecordAccounting ==
    /\ stage = "account" /\ stage' = "funnel"
    /\ ledger' = IF PayoutTaken THEN AfterPayout(ledger) ELSE ledger
    /\ acct' = IF PayoutTaken /\ ~Episodic
               THEN ResetOperatingBalance(acct, OperatingBalance) ELSE acct
    /\ loc' = [loc EXCEPT !.done = @ \/ (PayoutTaken /\ Episodic)]
    /\ history' = [equity |-> acct'.equity,
                   sum |-> history.sum + acct'.equity + ledger'.withdrawn
                             - history.equity]
    /\ UNCHANGED <<nyPos, price, pos, fsm, order, prevSession, cooldownUntil,
                   entries, latch>>

(* _update_entry_funnel: evidence of the bar, or the end of an executed    *)
(* opportunity.  An overnight hold is replayed before the step ends.       *)
HeldOverGap ==
    /\ ~LastNyBar /\ NyIndices[nyPos + 2] > StepIdx + 1
    /\ pos # NoPosition /\ ~BlockOvernight

UpdateFunnel ==
    /\ stage = "funnel"
    /\ IF ~UseFsm THEN fsm' = fsm
       ELSE IF fsm.state = "IN_POSITION"
            THEN fsm' = IF pos = NoPosition THEN MarkClosed(fsm) ELSE fsm
            ELSE \E ev \in Evidence : fsm' = Observe(fsm, ev, StepIdx)
    /\ stage' = IF HeldOverGap THEN "replay" ELSE "finish"
    /\ UNCHANGED <<nyPos, price, acct, pos, order, prevSession, cooldownUntil,
                   entries, latch, ledger, history, loc>>

(* _advance_ny_step on a gap: guards at this bar's close, then exits and   *)
(* marks on the skipped bars (any number of them).                         *)
ReplayExit ==
    /\ stage = "replay" /\ pos # NoPosition
    /\ \E lots \in 1 .. pos.size, quote \in Prices : ClosePart(lots, quote)
    /\ UNCHANGED <<stage, nyPos, price, fsm, order, prevSession, entries,
                   latch, ledger, history, loc>>

ReplayMark ==
    /\ stage = "replay" /\ pos # NoPosition
    /\ \E quote \in Prices : acct' = MarkToMarket(acct, pos, quote)
    /\ UNCHANGED <<stage, nyPos, price, pos, fsm, order, prevSession,
                   cooldownUntil, entries, latch, ledger, history, loc>>

ReplayDone ==
    /\ stage = "replay" /\ stage' = "finish"
    /\ UNCHANGED <<nyPos, price, acct, pos, fsm, order, prevSession,
                   cooldownUntil, entries, latch, ledger, history, loc>>

(* _resolve_step_end: advance, close the opportunity of a position that is *)
(* gone, and end the episode with its pending order.                       *)
EpisodeOver ==
    \/ loc.done
    \/ nyPos + 1 >= Len(NyIndices)
    \/ MaxSteps > 0 /\ nyPos + 1 >= MaxSteps

Finish ==
    /\ stage = "finish"
    /\ nyPos' = nyPos + 1
    /\ price' \in IF LastNyBar THEN {price}
                  ELSE IF IsBoundary THEN Prices ELSE {loc.next}
    /\ fsm' = IF UseFsm /\ pos = NoPosition THEN MarkClosed(fsm) ELSE fsm
    /\ IF EpisodeOver
       THEN /\ stage' = "over"
            /\ order' = NoOrder
            /\ loc' = IF order = NoOrder THEN loc
                      ELSE [loc EXCEPT !.cancel =
                              [reason |-> "episode_ended_before_scheduled_fill",
                               fillIdx |-> order.fillIdx]]
       ELSE stage' = "market" /\ loc' = IdleLoc /\ UNCHANGED order
    /\ UNCHANGED <<acct, pos, prevSession, cooldownUntil, entries, latch,
                   ledger, history>>

Next ==
    \/ Progress \/ PrepareIntent \/ NoBreach \/ Breach
    \/ ProtectiveExit \/ EndExits \/ FillOrder \/ CancelOrder
    \/ ManualExit \/ Hold \/ SubmitOrder \/ EnterNow
    \/ RecordAccounting \/ UpdateFunnel
    \/ ReplayExit \/ ReplayMark \/ ReplayDone \/ Finish \/ Reset

Spec == Init /\ [][Next]_vars

-----------------------------------------------------------------------------
(***************************************************************************)
(* Properties                                                              *)
(***************************************************************************)
Stages == {"market", "intent", "guard", "exits", "due", "act", "account",
           "funnel", "replay", "finish", "over", "crashed"}

CancelReasons == {"none", "execution_blocked_before_scheduled_fill",
                  "episode_ended_before_scheduled_fill"}

Loc == [next : Int, intent : {-1, 0, 1}, due : BOOLEAN, breach : BOOLEAN,
        blocked : BOOLEAN, peakBlock : BOOLEAN, done : BOOLEAN,
        cancel : [reason : CancelReasons, fillIdx : Nat]]

(* Every variable keeps its type: in particular a position never has a     *)
(* size of zero or less, and an entry machine never a direction but -1, 0  *)
(* or 1.                                                                   *)
TypeOK ==
    /\ stage \in Stages
    /\ nyPos \in 0 .. Len(NyIndices)
    /\ stage \notin {"over", "crashed"} => nyPos < Len(NyIndices)
    /\ price \in Int
    /\ acct \in Account
    /\ pos \in Position \cup {NoPosition}
    /\ fsm \in EntryMachine
    /\ order \in [dir : Sides, fillIdx : Nat] \cup {NoOrder}
    /\ prevSession \in Nat
    /\ cooldownUntil \in Int
    /\ entries \in [Sessions -> Nat]
    /\ latch \in [sessions : SUBSET Sessions, yearFailed : BOOLEAN,
                  breached : BOOLEAN]
    /\ ledger \in [count : Nat, events : SUBSET (Nat \X {"success", "failure"}),
                   paid : Int, withdrawn : Int]
    /\ history \in [equity : Int, sum : Int]
    /\ loc \in Loc

(* An open position belongs to the executed opportunity of the entry       *)
(* machine and has its direction, at every stage of every step; between    *)
(* steps the converse holds too (mark_entered and mark_closed never drift  *)
(* from the broker's position).                                            *)
FsmMatchesPosition ==
    UseFsm /\ Latency = 0 =>
        /\ pos # NoPosition => fsm.state = "IN_POSITION" /\ fsm.dir = pos.dir
        /\ stage = "market" /\ fsm.state = "IN_POSITION" => pos # NoPosition

(* mark_entered is only ever called on an armed machine: its RuntimeError  *)
(* (entry_state.py) never ends a step halfway.                             *)
NoIllegalFsmCall == stage # "crashed"

(* Legacy evaluation: once a session has breached, or the year has failed, *)
(* no position is open at the end of any of its steps, whatever orders     *)
(* were pending when it did (_check_guardrails, session_blocked).          *)
LatchedStaysFlat ==
    stage = "market" /\ Latching
        /\ (latch.yearFailed \/ prevSession \in latch.sessions)
    => pos = NoPosition

SessionChanges == stage = "market" /\ prevSession \notin {0, Session}

(* block_overnight: no position is carried into another session, whichever *)
(* bar it was opened on and however late its fill (_progress_market closes *)
(* at the last NY bar, _prepare_action_intent refuses what could not be    *)
(* closed there).                                                          *)
FlatOverGap == BlockOvernight /\ SessionChanges => pos = NoPosition

(* A session whose account ends beyond a limit has been recorded as a      *)
(* breach before reset_daily clears its daily loss: no loss of a session   *)
(* falls between the last guardrail check and the new anchor.              *)
NoUnseenBreach ==
    BlockOvernight /\ Latching /\ SessionChanges /\ BreachReason(acct) # "none"
    => latch.yearFailed \/ prevSession \in latch.sessions

(* A flat account has no unrealised part: equity is the balance, after any *)
(* sequence of partial closes, flips, refused entries and payouts.         *)
FlatEquityIsBalance ==
    pos = NoPosition => acct.equity = acct.balance /\ acct.openPnl = 0

(* max_entries_per_session counts every entry of a session, including the  *)
(* ones filled later than they were asked for.                             *)
SessionCap ==
    StrategyActions /\ MaxEntries > 0 =>
        \A s \in Sessions : entries[s] <= MaxEntries

Opens == pos = NoPosition /\ pos' # NoPosition

(* No entry from flat happens before the post-close cooldown has passed.   *)
CooldownHonoured == [][Opens /\ StrategyActions => StepIdx >= cooldownUntil]_vars

(* No position is opened, from flat or by a flip, while the account is     *)
(* beyond a hard limit, although the limits are checked earlier in the     *)
(* step than the exits that can reach them.                                *)
NoEntryOnBreachedAccount ==
    [][pos' # NoPosition /\ pos'.dir # pos.dir => BreachReason(acct') = "none"]_vars

(* Training, and every repeated-payout rollout, ends with the step of its  *)
(* first breach.                                                           *)
BreachIsTerminal ==
    stage = "market" /\ (Episodic \/ RepeatedPayout) => ~latch.breached

(* A payout moves money and makes none: what is paid out and what is left  *)
(* add up to the realised balance before it, and the account that goes on  *)
(* is flat and beyond no limit (the daily anchor is moved with it).        *)
PayoutIsSound ==
    [][ledger'.count > ledger.count =>
         /\ ledger'.paid + acct'.balance = ledger.paid + acct.balance
         /\ pos' = NoPosition
         /\ BreachReason(acct') = "none"]_vars

(* No entry from flat happens while the drawdown from the peak is at its   *)
(* ceiling, the exits of the same step included.                           *)
NoEntryAtCeiling == [][Opens => ~PeakDdReached]_vars

(* The position and the machine together implement the life cycle of one   *)
(* opportunity.  Between a close and mark_closed the machine still says    *)
(* IN_POSITION: the opportunity is already over.                           *)
TradePhase == IF pos # NoPosition THEN "IN_POSITION"
              ELSE IF fsm.state = "IN_POSITION" THEN "FLAT" ELSE fsm.state
TradeDir == IF pos # NoPosition THEN pos.dir
            ELSE IF fsm.state = "IN_POSITION" THEN 0 ELSE fsm.dir

Lifecycle == INSTANCE TradeLifecycle WITH phase <- TradePhase, dir <- TradeDir

(* With the entry machine on and no fill latency, every step is a step of  *)
(* that life cycle.                                                        *)
ImplementsLifecycle == Lifecycle!Spec
=============================================================================
