------------------------------ MODULE Backtest ------------------------------
(***************************************************************************)
(* simulation/backtest: run_backtest replays bars for a policy that is a   *)
(* function, on the account, broker and guardrails of the environment.     *)
(* Unlike the environment it also walks the bars outside the New York      *)
(* session.  An order that is decided on one bar is filled on the next:    *)
(* at its opening by a tick, or else at its close; the account knows the   *)
(* fill at once.  `stage` is the place in the body of the loop.            *)
(***************************************************************************)
EXTENDS Broker, Guardrails, Sequences

CONSTANTS
    Bars,           \* what the frame says of each bar: session, ny, and gap:
                    \* the next bar is more than a minute later
    Prices,         \* the closes (bids) a bar can have
    Settings,       \* the BacktestSettings to choose from
    DefaultLots,    \* lots
    LotSizes,       \* what compute_lots may return, 0 included
    MaxTradeLoss,   \* max_loss_per_trade_usd, 0 = None
    TakeProfit,     \* take_profit_per_trade_usd, 0 = None
    RiskPerTrade    \* risk_per_trade_limit

NBars == Len(Bars)

ASSUME BacktestAssumption ==
    /\ Bars \in Seq([session : Nat \ {0}, ny : BOOLEAN, gap : BOOLEAN])
    /\ Bars # <<>> /\ ~RepeatedPayout
    /\ Prices \subseteq Int
    \* mode: no ticks, ticks with the bar to fall back on, ticks alone;
    \* exits: an exit_action, or no hold_on_zero
    /\ Settings \subseteq
         [mode : {"bars", "ticks", "strict"}, use_structure_sl_tp : BOOLEAN,
          exits : BOOLEAN, block_overnight : BOOLEAN]
    /\ DefaultLots \in Nat \ {0} /\ LotSizes \subseteq Nat
    /\ {MaxTradeLoss, TakeProfit, RiskPerTrade} \subseteq Nat

VARIABLES
    settings, stage,
    bar,          \* i
    price, ahead, \* closes of this bar and of the next one
    event,        \* what resolve_bar_execution returns: quote and time
    acct, pos,
    entry,        \* of the position: its time, and whether it has levels
    prevSession,  \* prev_session, 0 = None
    breached,     \* breach_events, a pair of session and reason each
    dealt,        \* sessions_with_trades
    log           \* trade_log: sum of net_pnl, and the times of the last trade

vars == <<settings, stage, bar, price, ahead, event, acct, pos, entry,
          prevSession, breached, dealt, log>>

-----------------------------------------------------------------------------
(* Bars begin at even times and end where the next one begins, or before.  *)
Begins(b) == 2 * b
Ends(b)   == IF Bars[b].gap THEN 2 * b + 1 ELSE 2 * b + 2

Session == Bars[bar].session

LastNyBar(b) ==
    Bars[b].ny /\ (b = NBars \/ ~Bars[b + 1].ny \/ Bars[b].gap)

BreachedSessions == {b[1] : b \in breached}

Missing == [quote |-> 0, time |-> 0]

(* _fill_quote_event into bar b, which closes at c.  Strict execution      *)
(* waits for a tick and may find none.                                     *)
Events(b, c) ==
    CASE settings.mode = "bars"  -> {[quote |-> c, time |-> Ends(b)]}
      [] settings.mode = "ticks" -> [quote : Prices, time : {Begins(b)}]
                               \cup {[quote |-> c, time |-> Ends(b)]}
      [] OTHER -> [quote : Prices, time : {Begins(b), Begins(b) + 1}]
                      \cup {Missing}

Init ==
    /\ settings \in Settings /\ stage = "bar" /\ bar = 1
    /\ price \in Prices /\ ahead = price
    /\ event = Missing
    /\ acct = NewAccount /\ pos = NoPosition
    /\ entry = [time |-> 0, levels |-> FALSE]
    /\ prevSession = 0 /\ breached = {} /\ dealt = {}
    /\ log = [net |-> 0, from |-> 0, to |-> 0]

(* Mutation: the commission of the entry is forgotten. *)
NetPnlOfExit(p, quote) == ClosePnl(p, p.size, quote)

(* stamp_exit: the whole position is closed by one fill. *)
NetPnl(p, quote) == ClosePnl(p, p.size, quote) - CostPerLot * p.size

(* The log after p was closed. *)
Logged(p, quote, time) ==
    [net |-> log.net + NetPnl(p, quote), from |-> entry.time, to |-> time]

(* _record_close *)
RecordClose(quote, time) ==
    /\ acct' = ClosePosition(acct, pos, pos.size, quote)
    /\ pos' = NoPosition
    /\ log' = Logged(pos, quote, time)
    /\ dealt' = dealt \cup {Session}
    /\ UNCHANGED entry

Keep == UNCHANGED <<acct, pos, entry, dealt, log>>

-----------------------------------------------------------------------------
(* The body of the loop *)

SessionBegins == Bars[bar].ny /\ Session # prevSession

(* reset_daily, the mark, and the execution event of this bar. *)
Begin ==
    /\ stage = "bar" /\ bar <= NBars /\ stage' = "exits"
    /\ price' = ahead
    /\ prevSession' = IF SessionBegins \/ prevSession = 0 THEN Session
                      ELSE prevSession
    /\ LET opened == IF SessionBegins THEN ResetDaily(acct) ELSE acct
       IN  acct' = IF pos = NoPosition THEN opened
                   ELSE MarkToMarket(opened, pos, price')
    /\ IF bar < NBars
       THEN ahead' \in Prices /\ event' \in Events(bar + 1, ahead')
       ELSE /\ ahead' = ahead
            /\ IF settings.mode = "strict" \/ bar = 1
               THEN event' \in Events(bar, price')
               ELSE event' = event
    /\ UNCHANGED <<settings, bar, pos, entry, breached, dealt, log>>

(* Mutation: the bar in which the position was filled counts. *)
ActiveFromFill == pos # NoPosition /\ entry.time <= Ends(bar)

(* full_bar_available_after_entry; position_active_in_bar admits the rest. *)
WholeBar == pos # NoPosition /\ entry.time <= Begins(bar)
Active   == pos # NoPosition /\ entry.time < Ends(bar)

Beyond == MaxTradeLoss > 0 /\ acct.openPnl <= -MaxTradeLoss
Enough ==
    /\ ~settings.use_structure_sl_tp
    /\ TakeProfit > 0 /\ acct.openPnl >= TakeProfit

Raise == stage' = "raised" /\ Keep

(* A close at the execution event, which raises when there is none. *)
CloseAtEvent(next) ==
    IF event = Missing THEN Raise
    ELSE RecordClose(event.quote, event.time) /\ stage' = next

(* A tick inside the bar reaches a level. *)
TickExit ==
    /\ Active /\ entry.levels /\ settings.mode # "bars"
    /\ \E q \in Prices, t \in Begins(bar) .. Ends(bar) :
          t >= entry.time /\ RecordClose(q, t)
    /\ stage' = "guard"

(* The bar reaches a level, but no tick does. *)
TickMissing ==
    /\ settings.mode = "strict" /\ pos # NoPosition /\ entry.levels
    /\ Raise

(* The bar reaches the stop, or the target and neither stop nor cap. *)
BarExit ==
    /\ WholeBar /\ entry.levels /\ settings.mode # "strict"
    /\ \E q \in Prices : RecordClose(q, Begins(bar))
    /\ stage' = "guard"

CapExit   == WholeBar /\ Beyond /\ CloseAtEvent("guard")
MoneyExit == pos # NoPosition /\ Enough /\ CloseAtEvent("guard")
NoExit ==
    /\ ~(WholeBar /\ Beyond) /\ (pos # NoPosition => ~Enough)
    /\ stage' = "guard" /\ Keep

(* process_protective_and_account_events, up to the guardrails *)
Exits ==
    /\ stage = "exits"
    /\ \/ TickExit \/ TickMissing \/ BarExit \/ CapExit \/ MoneyExit \/ NoExit
    /\ UNCHANGED <<settings, bar, price, ahead, event, prevSession, breached>>

(* Mutation: only bars of the session are guarded. *)
GuardedInSession ==
    /\ Bars[bar].ny
    /\ BreachReason(acct) # "none" /\ Session \notin BreachedSessions

FreshBreach ==
    BreachReason(acct) # "none" /\ Session \notin BreachedSessions

(* A breach is recorded once per session and closes the position. *)
Guard ==
    /\ stage = "guard"
    /\ IF FreshBreach
       THEN /\ breached' = breached \cup {<<Session, BreachReason(acct)>>}
            /\ IF pos = NoPosition THEN Keep /\ stage' = "close"
               ELSE CloseAtEvent("close")
       ELSE Keep /\ stage' = "close" /\ UNCHANGED breached
    /\ UNCHANGED <<settings, bar, price, ahead, event, prevSession>>

MayTrade ==
    /\ Session \notin BreachedSessions /\ Bars[bar].ny /\ bar < NBars
    /\ ~(settings.block_overnight /\ LastNyBar(bar))

NextBar == stage' = "bar" /\ bar' = bar + 1

EndOfDay == settings.block_overnight /\ LastNyBar(bar) /\ pos # NoPosition

(* The close at the end of a session has an event of its own. *)
CloseOfDay ==
    /\ stage = "close" /\ EndOfDay
    /\ \/ /\ \E q \in IF settings.mode = "strict" THEN Prices ELSE {price} :
                RecordClose(q, Ends(bar))
          /\ NextBar
       \/ settings.mode = "strict" /\ Raise /\ UNCHANGED bar
    /\ UNCHANGED <<settings, price, ahead, event, prevSession, breached>>

(* The bar ends, or the policy is asked. *)
EndBar ==
    /\ stage = "close" /\ ~EndOfDay
    /\ IF MayTrade THEN stage' = "policy" /\ UNCHANGED bar ELSE NextBar
    /\ Keep
    /\ UNCHANGED <<settings, price, ahead, event, prevSession, breached>>

-----------------------------------------------------------------------------
(* apply_policy_action *)

(* exit_action, or 0 without hold_on_zero *)
PolicyExit ==
    /\ settings.exits
    /\ pos # NoPosition /\ CloseAtEvent("bar")

PolicyHolds == stage' = "bar" /\ Keep

(* Swings may give levels and a size; otherwise the size is fixed. *)
Plans ==
    [levels : {FALSE}, lots : {DefaultLots}]
        \cup (IF settings.use_structure_sl_tp
              THEN [levels : {TRUE}, lots : LotSizes] ELSE {})

(* check_trade_risk: the distance of a level may mean any risk. *)
MayRefuse(plan) == plan.levels \/ MaxTradeLoss > RiskPerTrade
MayAccept(plan) == plan.levels \/ MaxTradeLoss <= RiskPerTrade

TooLate == settings.block_overnight /\ LastNyBar(bar + 1)

Openable(a, lots) == CanOpen(a, lots)

Flips == pos # NoPosition

(* The account after the close of what points the other way. *)
Turned ==
    IF Flips THEN ClosePosition(acct, pos, pos.size, event.quote) ELSE acct

NotEntered == acct' = Turned /\ pos' = NoPosition /\ UNCHANGED entry

Entered(dir, plan) ==
    /\ MayAccept(plan) /\ Openable(Turned, plan.lots)
    /\ acct' = DebitEntry(Turned, plan.lots)
    /\ pos' = Opened(dir, plan.lots, event.quote)
    /\ entry' = [time |-> event.time, levels |-> plan.levels]

Refused(plan) ==
    /\ MayRefuse(plan) \/ ~Openable(Turned, plan.lots)
    /\ NotEntered

(* +1 or -1: what points the other way is closed first, whatever becomes   *)
(* of the entry.                                                           *)
PolicyEnters ==
    \E dir \in Sides :
        /\ pos.dir # dir
        /\ IF event = Missing /\ (Flips \/ ~TooLate) THEN Raise
           ELSE /\ \/ TooLate /\ NotEntered
                   \/ /\ ~TooLate
                      /\ \E plan \in Plans :
                            Entered(dir, plan) \/ Refused(plan)
                /\ log' = IF Flips THEN Logged(pos, event.quote, event.time)
                          ELSE log
                /\ dealt' = IF Flips \/ pos' # NoPosition
                            THEN dealt \cup {Session} ELSE dealt
                /\ stage' = "bar"

Policy ==
    /\ stage = "policy"
    /\ PolicyExit \/ PolicyHolds \/ PolicyEnters
    /\ bar' = IF stage' = "bar" THEN bar + 1 ELSE bar
    /\ UNCHANGED <<settings, price, ahead, event, prevSession, breached>>

(* liquidate_terminal_position, which adds no session *)
Liquidate ==
    /\ stage = "bar" /\ bar = NBars + 1
    /\ \/ pos = NoPosition /\ Keep /\ stage' = "done"
       \/ /\ pos # NoPosition
          /\ \E q \in IF settings.mode = "strict" THEN Prices ELSE {price} :
                /\ acct' = ClosePosition(acct, pos, pos.size, q)
                /\ log' = Logged(pos, q, Ends(NBars))
          /\ pos' = NoPosition /\ stage' = "done"
          /\ UNCHANGED <<entry, dealt>>
       \/ pos # NoPosition /\ settings.mode = "strict" /\ Raise
    /\ UNCHANGED <<settings, bar, price, ahead, event, prevSession, breached>>

Next ==
    \/ Begin \/ Exits \/ Guard \/ CloseOfDay \/ EndBar \/ Policy \/ Liquidate

Spec == Init /\ [][Next]_vars

-----------------------------------------------------------------------------
(* Properties *)

(* Types.  A position has a positive size. *)
TypeOK ==
    /\ settings \in Settings
    /\ stage \in {"bar", "exits", "guard", "close", "policy", "done", "raised"}
    /\ bar \in 1 .. NBars + 1
    /\ {price, ahead, log.net} \subseteq Int
    /\ event \in [quote : Int, time : Nat]
    /\ acct \in Account /\ pos \in Position \cup {NoPosition}
    /\ entry \in [time : Nat, levels : BOOLEAN]
    /\ prevSession \in Nat /\ dealt \subseteq Nat
    /\ breached \subseteq Nat \X {"trailing_dd", "max_drawdown", "daily_loss"}

(* The trade log explains the account: when nothing is open, the net       *)
(* profits of the log (each with the commission of its entry) are what the *)
(* balance gained, through flips, forced closes and the liquidation.       *)
LogExplainsBalance ==
    pos = NoPosition => acct.balance = InitialBalance + log.net

(* No position is closed at a time before its fill: the bar in whose close *)
(* it was filled cannot stop it out.  An order of the very last bar goes   *)
(* back to its opening, before a tick that filled an entry there.          *)
ExitAfterEntry ==
    log.from <= log.to
        \/ (settings.mode = "strict" /\ log.from > Begins(NBars))

(* When a session begins with an account beyond a limit, the one before    *)
(* has been recorded: a loss of its last close is still seen, by a bar     *)
(* outside the session.                                                    *)
NoUnseenBreach ==
    /\ settings.block_overnight /\ stage = "bar" /\ bar <= NBars
    /\ prevSession # 0 /\ SessionBegins /\ BreachReason(acct) # "none"
    => prevSession \in BreachedSessions
=============================================================================
