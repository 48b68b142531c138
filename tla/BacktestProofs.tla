---------------------------- MODULE BacktestProofs ----------------------------
(***************************************************************************)
(* Proofs about Backtest for every frame of bars, every settings and every *)
(* policy: types, the book of the trades, the order of their times.        *)
(***************************************************************************)
EXTENDS Backtest, TLAPS

-----------------------------------------------------------------------------
(* What the operations of Account and Broker return, for every account,    *)
(* position and quote.                                                     *)

(* max() of two amounts is an amount. *)
LEMMA HigherType ==
    ASSUME NEW x \in Int, NEW y \in Int
    PROVE  Higher(x, y) \in Int
BY DEF Higher

(* A new account is an account. *)
LEMMA NewAccountType == NewAccount \in Account
BY AccountAssumption DEF NewAccount, Account

(* Anchoring a session changes amounts only. *)
LEMMA ResetDailyType ==
    ASSUME NEW a \in Account
    PROVE  ResetDaily(a) \in Account
BY DEF ResetDaily, Account

(* Marking a position changes amounts only. *)
LEMMA MarkType ==
    ASSUME NEW a \in Account, NEW p \in Position, NEW quote \in Int
    PROVE  MarkToMarket(a, p, quote) \in Account
<1>1. CloseFill(p.dir, quote) - p.entry \in Int
  BY BrokerAssumption DEF CloseFill, Bid, Ask, Position
<1>2. p.dir \in Int /\ p.size \in Int
  BY DEF Position, Sides
<1>3. (CloseFill(p.dir, quote) - p.entry) * p.dir \in Int
  BY <1>1, <1>2
<1> DEFINE open == (CloseFill(p.dir, quote) - p.entry) * p.dir * p.size
<1>4. open \in Int
  BY <1>2, <1>3
<1>5. a.balance + open \in Int
  BY <1>4 DEF Account
<1>6. Higher(a.peak, a.balance + open) \in Int
  BY <1>5, HigherType DEF Account
<1> HIDE DEF open
<1>7. UpdateEquity(a, open) \in Account
  BY <1>4, <1>5, <1>6 DEF UpdateEquity, Account
<1> QED
  BY <1>7 DEF MarkToMarket, open

(* What is left of a position is a position or nothing, and it is nothing  *)
(* exactly when everything was closed.                                     *)
LEMMA RemainderType ==
    ASSUME NEW p \in Position, NEW lots \in 1 .. p.size
    PROVE  /\ lots = p.size  => Remainder(p, lots) = NoPosition
           /\ lots # p.size  => Remainder(p, lots) \in Position
           /\ lots # p.size  => Remainder(p, lots).dir = p.dir
BY DEF Remainder, Position

(* No position is the empty one. *)
LEMMA PositionIsOpen ==
    ASSUME NEW p \in Position
    PROVE  p # NoPosition
BY DEF Position, NoPosition, Sides

(* Realising a profit or loss leaves an account without an unrealised part. *)
LEMMA CloseTradeType ==
    ASSUME NEW a \in Account, NEW pnl \in Int
    PROVE  /\ CloseTrade(a, pnl) \in Account
           /\ CloseTrade(a, pnl).equity = CloseTrade(a, pnl).balance
           /\ CloseTrade(a, pnl).openPnl = 0
<1>1. a.balance + pnl \in Int
  BY DEF Account
<1>2. Higher(a.peak, a.balance + pnl) \in Int
  BY <1>1, HigherType DEF Account
<1>3. (IF pnl < 0 THEN a.daily - pnl ELSE a.daily) \in Int
  BY DEF Account
<1> QED
  BY <1>1, <1>2, <1>3 DEF CloseTrade, Account

(* Closing part of a position returns an account; closing all of it leaves *)
(* equity equal to the balance.                                            *)
LEMMA CloseType ==
    ASSUME NEW a \in Account, NEW p \in Position, NEW quote \in Int,
           NEW lots \in 1 .. p.size
    PROVE  LET c == ClosePosition(a, p, lots, quote) IN
           /\ c \in Account
           /\ lots = p.size => c.equity = c.balance /\ c.openPnl = 0
<1>1. CloseFill(p.dir, quote) - p.entry \in Int
  BY BrokerAssumption DEF CloseFill, Bid, Ask, Position
<1>2. p.dir \in Int /\ lots \in Int
  BY DEF Position, Sides
<1>3. (CloseFill(p.dir, quote) - p.entry) * p.dir \in Int
  BY <1>1, <1>2
<1>4. (CloseFill(p.dir, quote) - p.entry) * p.dir * lots \in Int
  BY <1>2, <1>3
<1>5. CostPerLot * lots \in Int
  BY <1>2, BrokerAssumption
<1>6. ClosePnl(p, lots, quote) \in Int
  BY <1>4, <1>5 DEF ClosePnl
<1> DEFINE closed == CloseTrade(a, ClosePnl(p, lots, quote))
<1>7. /\ closed \in Account
      /\ closed.equity = closed.balance
      /\ closed.openPnl = 0
  BY <1>6, CloseTradeType
<1>8. CASE lots = p.size
  BY <1>7, <1>8 DEF ClosePosition
<1>9. CASE lots # p.size
  <2>1. Remainder(p, lots) \in Position
    BY <1>9, RemainderType
  <2>2. MarkToMarket(closed, Remainder(p, lots), quote) \in Account
    BY <1>7, <2>1, MarkType
  <2> QED
    BY <1>9, <2>2 DEF ClosePosition
<1> QED
  BY <1>8, <1>9

-----------------------------------------------------------------------------
(* Types.  The body of the loop runs on a bar of the frame. *)

InBody == {"exits", "guard", "close", "policy"}

TypeInv == TypeOK /\ (stage \in InBody => bar <= NBars)

(* The frame has bars with sessions. *)
LEMMA Frame ==
    /\ NBars \in Nat \ {0} /\ Prices \subseteq Int
    /\ \A b \in 1 .. NBars : /\ Bars[b].session \in Nat \ {0}
                             /\ Ends(b) \in Nat /\ Begins(b) \in Nat
                             /\ Begins(b) < Ends(b) /\ Ends(b) <= Begins(b + 1)
<1>1. NBars \in Nat \ {0}
  BY BacktestAssumption DEF NBars
<1>2. \A b \in 1 .. NBars :
         Bars[b] \in [session : Nat \ {0}, ny : BOOLEAN, gap : BOOLEAN]
  <2> DEFINE Row == [session : Nat \ {0}, ny : BOOLEAN, gap : BOOLEAN]
  <2>1. Bars \in Seq(Row)
    BY BacktestAssumption
  <2> HIDE DEF Row
  <2>2. \A b \in 1 .. Len(Bars) : Bars[b] \in Row
    BY <2>1
  <2> QED
    BY <2>2 DEF Row, NBars
<1>3. Prices \subseteq Int
  BY BacktestAssumption
<1> QED
  BY <1>1, <1>2, <1>3 DEF Ends, Begins

(* The lots of a plan are a number. *)
LEMMA PlanType ==
    ASSUME NEW plan \in Plans
    PROVE  plan.levels \in BOOLEAN /\ plan.lots \in Nat
<1>1. DefaultLots \in Nat /\ LotSizes \subseteq Nat
  BY BacktestAssumption
<1>2. CASE plan \in [levels : {FALSE}, lots : {DefaultLots}]
  BY <1>1, <1>2
<1>3. CASE plan \in [levels : {TRUE}, lots : LotSizes]
  BY <1>1, <1>3
<1> QED
  BY <1>2, <1>3 DEF Plans

(* An event is missing, or a quote at a time of the bar it is for. *)
LEMMA EventType ==
    ASSUME settings \in Settings, NEW b \in 1 .. NBars, NEW c \in Int,
           NEW e \in Events(b, c)
    PROVE  /\ e \in [quote : Int, time : Nat]
           /\ e # Missing \/ settings.mode # "strict"
              => e.time >= Begins(b) /\ e.time <= Ends(b)
           /\ settings.mode # "strict" => e # Missing
<1>1. /\ Begins(b) \in Nat /\ Ends(b) \in Nat /\ Begins(b) < Ends(b)
      /\ Begins(b) > 0
  BY Frame DEF Begins
<1>2. Prices \subseteq Int
  BY Frame
<1>3. CASE settings.mode = "bars"
  <2>1. e = [quote |-> c, time |-> Ends(b)]
    BY <1>3 DEF Events
  <2> QED
    BY <1>1, <2>1 DEF Missing
<1>4. CASE settings.mode = "ticks"
  <2>1. \/ e \in [quote : Prices, time : {Begins(b)}]
        \/ e = [quote |-> c, time |-> Ends(b)]
    BY <1>4 DEF Events
  <2>2. \E q \in Int, t \in {Begins(b), Ends(b)} :
             e = [quote |-> q, time |-> t]
    <3>1. CASE e \in [quote : Prices, time : {Begins(b)}]
      <4>1. e = [quote |-> e.quote, time |-> e.time] /\ e.quote \in Prices
            /\ e.time = Begins(b)
        BY <3>1
      <4> QED
        BY <1>2, <4>1
    <3> QED
      BY <2>1, <3>1
  <2>3. e # Missing
    BY <1>1, <2>2 DEF Missing
  <2> QED
    BY <1>1, <2>2, <2>3
<1>5. CASE settings.mode # "bars" /\ settings.mode # "ticks"
  <2>1. settings.mode = "strict"
    BY <1>5, BacktestAssumption
  <2>2. e \in [quote : Prices, time : {Begins(b), Begins(b) + 1}] \/ e = Missing
    BY <1>5 DEF Events
  <2>3. e \in [quote : Int, time : Nat]
    <3>1. CASE e = Missing
      BY <3>1 DEF Missing
    <3>2. CASE e # Missing
      <4>1. e = [quote |-> e.quote, time |-> e.time] /\ e.quote \in Int
            /\ e.time \in {Begins(b), Begins(b) + 1}
        BY <1>2, <2>2, <3>2
      <4>2. e.time \in Nat
        BY <1>1, <4>1
      <4> QED
        BY <4>1, <4>2
    <3> QED
      BY <3>1, <3>2
  <2>4. e # Missing => e.time = Begins(b) \/ e.time = Begins(b) + 1
    BY <2>2
  <2> QED
    BY <1>1, <2>1, <2>3, <2>4
<1> QED
  BY <1>3, <1>4, <1>5

(* A close writes its profit to the account and to the log alike. *)
LEMMA CloseBooks ==
    ASSUME acct \in Account, log.net \in Int, NEW p \in Position,
           NEW quote \in Int, NEW time
    PROVE  /\ ClosePosition(acct, p, p.size, quote) \in Account
           /\ Logged(p, quote, time).net \in Int
           /\ CostPerLot * p.size \in Int
           /\ ClosePosition(acct, p, p.size, quote).balance - acct.balance
                = Logged(p, quote, time).net - log.net + CostPerLot * p.size
           /\ Logged(p, quote, time).from = entry.time
           /\ Logged(p, quote, time).to = time
<1>1. p.size \in 1 .. p.size /\ p.size \in Nat
  BY DEF Position
<1>2. ClosePosition(acct, p, p.size, quote) \in Account
  BY <1>1, CloseType
<1>3. CloseFill(p.dir, quote) - p.entry \in Int
  BY BrokerAssumption DEF CloseFill, Bid, Ask, Position
<1>4. (CloseFill(p.dir, quote) - p.entry) * p.dir \in Int
  BY <1>3 DEF Position, Sides
<1>5. (CloseFill(p.dir, quote) - p.entry) * p.dir * p.size \in Int
  BY <1>1, <1>4
<1>6. CostPerLot * p.size \in Int
  BY <1>1, BrokerAssumption
<1>7. ClosePnl(p, p.size, quote) \in Int
  BY <1>5, <1>6 DEF ClosePnl
<1>8. ClosePosition(acct, p, p.size, quote).balance
        = acct.balance + ClosePnl(p, p.size, quote)
  BY DEF ClosePosition, CloseTrade
<1>9. Logged(p, quote, time).net
        = log.net + (ClosePnl(p, p.size, quote) - CostPerLot * p.size)
  BY DEF Logged, NetPnl
<1>10. acct.balance \in Int
  BY DEF Account
<1> QED
  BY <1>2, <1>6, <1>7, <1>8, <1>9, <1>10 DEF Logged

-----------------------------------------------------------------------------
(* The effects of an action on the book.  Every action keeps it, closes    *)
(* the position, or, from flat or after a close, opens one.                *)

Books == /\ acct \in Account /\ pos \in Position \cup {NoPosition}
         /\ entry \in [time : Nat, levels : BOOLEAN]
         /\ log.net \in Int /\ dealt \subseteq Nat

(* The commission of an open position is the only one not in the log. *)
Balanced ==
    acct.balance = InitialBalance + log.net
                     - (IF pos = NoPosition THEN 0 ELSE CostPerLot * pos.size)

(* A whole close of the position. *)
LEMMA RecordCloseBooks ==
    ASSUME TypeOK, bar <= NBars, Balanced, pos # NoPosition, NEW quote \in Int,
           NEW time \in Nat, RecordClose(quote, time)
    PROVE  /\ Books' /\ Balanced' /\ pos' = NoPosition /\ entry' = entry
           /\ log'.from = entry.time /\ log'.to = time
<1>1. pos \in Position /\ acct \in Account /\ log.net \in Int
  BY DEF TypeOK
<1>2. /\ acct' = ClosePosition(acct, pos, pos.size, quote) /\ pos' = NoPosition
      /\ log' = Logged(pos, quote, time) /\ dealt' = dealt \cup {Session}
      /\ entry' = entry
  BY DEF RecordClose
<1>3. /\ acct' \in Account /\ log'.net \in Int /\ CostPerLot * pos.size \in Int
      /\ acct'.balance - acct.balance = log'.net - log.net + CostPerLot * pos.size
      /\ log'.from = entry.time /\ log'.to = time
  BY <1>1, <1>2, CloseBooks
<1>4. Session \in Nat
  BY Frame DEF TypeOK, Session
<1>5. acct.balance \in Int /\ acct'.balance \in Int /\ InitialBalance \in Int
  BY <1>1, <1>3, AccountAssumption DEF Account
<1>6. acct'.balance = InitialBalance + log'.net
  BY <1>1, <1>3, <1>5 DEF Balanced
<1>7. Balanced'
  BY <1>2, <1>3, <1>5, <1>6 DEF Balanced
<1>8. Books'
  BY <1>2, <1>3, <1>4 DEF Books, TypeOK
<1> QED
  BY <1>2, <1>3, <1>7, <1>8

(* A step that keeps the book. *)
LEMMA KeepBooks ==
    ASSUME TypeOK, Balanced, Keep
    PROVE  Books' /\ Balanced' /\ UNCHANGED <<pos, entry, log>>
BY DEF Keep, Books, Balanced, TypeOK

(* A close at an event, or a failure that keeps the book. *)
LEMMA AtEventBooks ==
    ASSUME TypeOK, bar <= NBars, Balanced, pos # NoPosition, NEW next,
           CloseAtEvent(next)
    PROVE  /\ Books' /\ Balanced' /\ entry' = entry
           /\ \/ stage' = "raised" /\ UNCHANGED <<pos, log>>
              \/ /\ stage' = next /\ event # Missing /\ pos' = NoPosition
                 /\ log'.from = entry.time /\ log'.to = event.time
<1>1. event.quote \in Int /\ event.time \in Nat
  BY DEF TypeOK
<1>2. CASE event = Missing
  BY <1>2, KeepBooks DEF CloseAtEvent, Raise, Keep
<1>3. CASE event # Missing
  BY <1>1, <1>3, RecordCloseBooks DEF CloseAtEvent
<1> QED
  BY <1>2, <1>3

-----------------------------------------------------------------------------
(* The inductive invariant.                                                *)

(* The bar to whose end the trades are known. *)
Known == IF bar <= NBars THEN bar ELSE NBars

(* An open position was filled by the end of the bar, and without ticks to *)
(* wait for, not after the event; the event belongs to the next bar, and   *)
(* on the last bar at least not to an earlier one.                         *)
Timed ==
    /\ bar = 1 => pos = NoPosition
    /\ stage = "policy" => bar < NBars
    /\ pos # NoPosition =>
         /\ entry.time <= Ends(Known)
         /\ settings.mode # "strict" => entry.time <= event.time
    /\ stage \in InBody /\ event # Missing =>
         /\ bar < NBars => /\ Begins(bar + 1) <= event.time
                           /\ event.time <= Ends(bar + 1)
         /\ settings.mode = "strict" /\ bar = NBars
              => Begins(NBars) <= event.time

IInv == TypeInv /\ Balanced /\ Timed /\ ExitAfterEntry

(* The times a close may leave in the log. *)
InOrder(from, to) ==
    from <= to \/ (settings.mode = "strict" /\ from > Begins(NBars))

(* A close at the event is in order. *)
LEMMA EventNotBefore ==
    ASSUME IInv, stage \in InBody, pos # NoPosition, event # Missing
    PROVE  InOrder(entry.time, event.time)
<1>1. /\ bar \in 1 .. NBars /\ entry.time \in Nat /\ event.time \in Nat
      /\ NBars \in Nat /\ Known = bar
  BY Frame DEF IInv, TypeInv, TypeOK, Known
<1>2. entry.time <= Ends(bar)
  BY <1>1 DEF IInv, Timed
<1>3. CASE bar < NBars
  <2>1. Ends(bar) \in Nat /\ Begins(bar + 1) \in Nat
        /\ Ends(bar) <= Begins(bar + 1)
    BY <1>1, <1>3, Frame
  <2>2. Begins(bar + 1) <= event.time
    BY <1>3 DEF IInv, Timed
  <2> QED
    BY <1>1, <1>2, <2>1, <2>2 DEF InOrder
<1>4. CASE bar = NBars /\ settings.mode = "strict"
  <2>1. Begins(NBars) <= event.time /\ Begins(NBars) \in Nat
    BY <1>1, <1>4, Frame DEF IInv, Timed
  <2> QED
    BY <1>1, <1>4, <2>1 DEF InOrder
<1>5. CASE settings.mode # "strict"
  BY <1>5 DEF IInv, Timed, InOrder
<1> QED
  BY <1>1, <1>3, <1>4, <1>5

(* What the actions after Begin do to the stage, the position, the log. *)
Moved == \/ bar' = bar /\ stage' \in {"guard", "close", "raised"}
         \/ bar' = bar /\ stage' = "policy" /\ bar < NBars
         \/ bar' = bar + 1 /\ stage' = "bar"

Filled == /\ bar < NBars /\ bar' = bar + 1 /\ stage' = "bar"
          /\ event # Missing /\ entry'.time = event.time

(* Such a step keeps the invariant. *)
LEMMA StepKeeps ==
    ASSUME IInv, stage \in InBody, Books', Balanced', Moved,
           UNCHANGED <<settings, price, ahead, event, prevSession>>,
           breached' \subseteq
             Nat \X {"trailing_dd", "max_drawdown", "daily_loss"},
           UNCHANGED <<pos, entry>> \/ pos' = NoPosition \/ Filled,
           UNCHANGED log \/ InOrder(log'.from, log'.to)
    PROVE  IInv'
<1>1. /\ bar \in 1 .. NBars /\ entry.time \in Nat /\ event.time \in Nat
      /\ NBars \in Nat /\ Known = bar
  BY Frame DEF IInv, TypeInv, TypeOK, Known
<1>2. TypeInv'
  BY <1>1 DEF IInv, TypeInv, TypeOK, Books, Moved, InBody
<1>3. ExitAfterEntry'
  BY DEF IInv, ExitAfterEntry, InOrder
<1>4. Known' = bar \/ (bar < NBars /\ Known' = bar + 1)
  BY <1>1 DEF Known, Moved
<1>5. Ends(bar) \in Nat /\ Ends(Known') \in Nat /\ Ends(bar) <= Ends(Known')
  <2>1. CASE Known' = bar
    BY <1>1, <2>1, Frame
  <2>2. CASE bar < NBars /\ Known' = bar + 1
    <3>1. /\ Ends(bar) \in Nat /\ Ends(bar) <= Begins(bar + 1)
          /\ Begins(bar + 1) \in Nat /\ Ends(bar + 1) \in Nat
          /\ Begins(bar + 1) < Ends(bar + 1)
      BY <1>1, <2>2, Frame
    <3> QED
      BY <2>2, <3>1
  <2> QED
    BY <1>4, <2>1, <2>2
<1>6. pos' # NoPosition =>
         /\ entry'.time <= Ends(Known')
         /\ settings'.mode # "strict" => entry'.time <= event'.time
  <2>1. CASE pos' = pos /\ entry' = entry
    BY <1>1, <1>5, <2>1 DEF IInv, Timed
  <2>2. CASE Filled
    <3>1. event.time <= Ends(bar + 1) /\ Known' = bar + 1
      BY <1>1, <2>2 DEF IInv, Timed, Filled, Known
    <3> QED
      BY <1>1, <2>2, <3>1 DEF Filled
  <2> QED
    BY <2>1, <2>2
<1>7. (bar = 1 => pos = NoPosition)' /\ (stage = "policy" => bar < NBars)'
  BY <1>1 DEF IInv, Timed, Moved, Filled
<1>8. (stage \in InBody /\ event # Missing =>
         /\ bar < NBars => /\ Begins(bar + 1) <= event.time
                           /\ event.time <= Ends(bar + 1)
         /\ settings.mode = "strict" /\ bar = NBars
              => Begins(NBars) <= event.time)'
  BY <1>1 DEF IInv, Timed, Moved, InBody
<1>9. Timed'
  BY <1>6, <1>7, <1>8 DEF Timed
<1> QED
  BY <1>2, <1>3, <1>9 DEF IInv

-----------------------------------------------------------------------------
(* Every action keeps the invariant.                                       *)

(* A close at the event, whatever follows. *)
LEMMA AtEventKeeps ==
    ASSUME IInv, stage \in InBody, pos # NoPosition, NEW next,
           CloseAtEvent(next)
    PROVE  /\ Books' /\ Balanced' /\ stage' \in {"raised", next}
           /\ UNCHANGED <<pos, entry>> \/ pos' = NoPosition
           /\ UNCHANGED log \/ InOrder(log'.from, log'.to)
<1>1. TypeOK /\ bar <= NBars /\ Balanced
  BY DEF IInv, TypeInv
<1>2. event # Missing => InOrder(entry.time, event.time)
  BY EventNotBefore
<1> QED
  BY <1>1, <1>2, AtEventBooks

(* Begin: the events it waits for are those of the next bar. *)
LEMMA BeginKeeps ==
    ASSUME IInv, Begin
    PROVE  IInv'
<1>1. /\ TypeOK /\ bar \in 1 .. NBars /\ stage = "bar" /\ stage' = "exits"
      /\ NBars \in Nat /\ entry.time \in Nat /\ Known = bar
      /\ UNCHANGED <<settings, bar, pos, entry, breached, dealt, log>>
  BY Frame DEF IInv, TypeInv, TypeOK, Begin, Known
<1>2. settings \in Settings
  BY <1>1 DEF TypeOK
<1>3. /\ price' \in Int /\ ahead' \in Int
      /\ bar < NBars => event' \in Events(bar + 1, ahead')
      /\ bar = NBars =>
           \/ event' \in Events(bar, price')
           \/ event' = event /\ settings.mode # "strict" /\ bar # 1
  <2>1. price' = ahead /\ ahead \in Int /\ Prices \subseteq Int
    BY <1>1, Frame DEF Begin, TypeOK
  <2>2. CASE bar < NBars
    <3>1. ahead' \in Prices /\ event' \in Events(bar + 1, ahead')
      BY <2>2 DEF Begin
    <3>2. bar # NBars
      BY <1>1, <2>2
    <3> QED
      BY <2>1, <3>1, <3>2
  <2>3. CASE bar = NBars
    <3>1. ~(bar < NBars)
      BY <1>1, <2>3
    <3>2. /\ ahead' = ahead
          /\ IF settings.mode = "strict" \/ bar = 1
             THEN event' \in Events(bar, price') ELSE event' = event
      BY <3>1 DEF Begin
    <3> QED
      BY <2>1, <3>1, <3>2
  <2> QED
    BY <1>1, <2>2, <2>3
<1>4. bar < NBars =>
         /\ event' \in [quote : Int, time : Nat]
         /\ event' # Missing => /\ Begins(bar + 1) <= event'.time
                                /\ event'.time <= Ends(bar + 1)
         /\ settings.mode # "strict" => event' # Missing
  <2>1. SUFFICES ASSUME bar < NBars
                 PROVE  /\ event' \in [quote : Int, time : Nat]
                        /\ event' # Missing =>
                             /\ Begins(bar + 1) <= event'.time
                             /\ event'.time <= Ends(bar + 1)
                        /\ settings.mode # "strict" => event' # Missing
    OBVIOUS
  <2>2. bar + 1 \in 1 .. NBars /\ event' \in Events(bar + 1, ahead')
    BY <1>1, <1>3, <2>1
  <2> QED
    BY <1>2, <1>3, <2>2, EventType
<1>5. bar = NBars =>
         /\ event' \in [quote : Int, time : Nat]
         /\ settings.mode = "strict" /\ event' # Missing
              => Begins(bar) <= event'.time
  <2>1. CASE event' \in Events(bar, price')
    BY <1>1, <1>2, <1>3, <2>1, EventType
  <2>2. CASE event' = event /\ settings.mode # "strict"
    BY <1>1, <2>2 DEF TypeOK
  <2> QED
    BY <1>3, <2>1, <2>2
<1>6. event' \in [quote : Int, time : Nat]
  BY <1>1, <1>4, <1>5
<1>7. /\ acct' \in Account /\ acct'.balance = acct.balance
  <2>1. acct \in Account /\ pos \in Position \cup {NoPosition}
    BY <1>1 DEF TypeOK
  <2> DEFINE opened == IF SessionBegins THEN ResetDaily(acct) ELSE acct
  <2>2. opened \in Account /\ opened.balance = acct.balance
    BY <2>1, ResetDailyType DEF ResetDaily, Account
  <2>3. acct' = IF pos = NoPosition THEN opened
                ELSE MarkToMarket(opened, pos, price')
    BY DEF Begin
  <2> HIDE DEF opened
  <2>4. CASE pos # NoPosition
    <3>1. acct' \in Account
      BY <1>3, <2>1, <2>2, <2>3, <2>4, MarkType
    <3>2. acct'.balance = opened.balance
      BY <2>2, <2>3, <2>4 DEF MarkToMarket, UpdateEquity, Account
    <3> QED
      BY <2>2, <3>1, <3>2
  <2> QED
    BY <2>2, <2>3, <2>4
<1>8. prevSession' \in Nat
  BY <1>1, Frame DEF Begin, Session, TypeOK
<1>9. TypeInv'
  BY <1>1, <1>3, <1>6, <1>7, <1>8 DEF TypeInv, TypeOK
<1>10. Balanced' /\ ExitAfterEntry'
  BY <1>1, <1>7 DEF IInv, Balanced, ExitAfterEntry
<1>11. pos # NoPosition /\ settings.mode # "strict"
         => entry.time <= event'.time
  <2>1. SUFFICES ASSUME pos # NoPosition, settings.mode # "strict"
                 PROVE  entry.time <= event'.time
    OBVIOUS
  <2>2. bar # 1 /\ entry.time <= Ends(bar) /\ entry.time <= event.time
    BY <1>1, <2>1 DEF IInv, Timed
  <2>3. CASE bar < NBars
    <3>1. /\ Ends(bar) \in Nat /\ Begins(bar + 1) \in Nat
          /\ Ends(bar) <= Begins(bar + 1)
      BY <1>1, <2>3, Frame
    <3>2. Begins(bar + 1) <= event'.time /\ event'.time \in Nat
      BY <1>4, <2>1, <2>3
    <3> QED
      BY <1>1, <2>2, <3>1, <3>2
  <2>4. CASE bar = NBars
    <3>1. event' = event
      BY <1>1, <2>1, <2>2, <2>4 DEF Begin
    <3> QED
      BY <2>2, <3>1
  <2> QED
    BY <1>1, <2>3, <2>4
<1>12. Timed'
  BY <1>1, <1>4, <1>5, <1>11 DEF IInv, Timed, Known
<1> QED
  BY <1>9, <1>10, <1>12 DEF IInv

(* Exits: the levels, the caps, or nothing. *)
LEMMA ExitsKeeps ==
    ASSUME IInv, Exits
    PROVE  IInv'
<1>1. /\ TypeOK /\ Balanced /\ bar \in 1 .. NBars /\ stage \in InBody
      /\ NBars \in Nat /\ entry.time \in Nat /\ Prices \subseteq Int
      /\ Ends(bar) \in Nat /\ Begins(bar) \in Nat
      /\ UNCHANGED <<settings, bar, price, ahead, event, prevSession, breached>>
  BY Frame DEF IInv, TypeInv, TypeOK, Exits, InBody
<1> DEFINE Done == /\ Books' /\ Balanced' /\ stage' \in {"guard", "raised"}
                   /\ UNCHANGED <<pos, entry>> \/ pos' = NoPosition
                   /\ UNCHANGED log \/ InOrder(log'.from, log'.to)
<1>2. ASSUME TickExit PROVE Done
  <2>1. PICK q \in Prices, t \in Begins(bar) .. Ends(bar) :
               t >= entry.time /\ RecordClose(q, t)
    BY <1>2 DEF TickExit
  <2>2. q \in Int /\ t \in Nat /\ pos # NoPosition /\ stage' = "guard"
    BY <1>1, <1>2, <2>1 DEF TickExit, Active
  <2> QED
    BY <1>1, <2>1, <2>2, RecordCloseBooks DEF InOrder
<1>3. ASSUME TickMissing PROVE Done
  BY <1>1, <1>3, KeepBooks DEF TickMissing, Raise
<1>4. ASSUME BarExit PROVE Done
  <2>1. PICK q \in Prices : RecordClose(q, Begins(bar))
    BY <1>4 DEF BarExit
  <2>2. /\ q \in Int /\ pos # NoPosition /\ stage' = "guard"
        /\ entry.time <= Begins(bar)
    BY <1>1, <1>4, <2>1 DEF BarExit, WholeBar
  <2> QED
    BY <1>1, <2>1, <2>2, RecordCloseBooks DEF InOrder
<1>5. ASSUME CapExit PROVE Done
  BY <1>1, <1>5, AtEventKeeps DEF CapExit, WholeBar
<1>6. ASSUME MoneyExit PROVE Done
  BY <1>1, <1>6, AtEventKeeps DEF MoneyExit
<1>7. ASSUME NoExit PROVE Done
  BY <1>1, <1>7, KeepBooks DEF NoExit
<1>8. Done
  BY <1>2, <1>3, <1>4, <1>5, <1>6, <1>7 DEF Exits
<1>9. breached \subseteq Nat \X {"trailing_dd", "max_drawdown", "daily_loss"}
  BY <1>1 DEF TypeOK
<1> QED
  BY <1>1, <1>8, <1>9, StepKeeps DEF Moved

(* Guard *)
LEMMA GuardKeeps ==
    ASSUME IInv, Guard
    PROVE  IInv'
<1>1. /\ TypeOK /\ Balanced /\ bar \in 1 .. NBars /\ stage \in InBody
      /\ UNCHANGED <<settings, bar, price, ahead, event, prevSession>>
  BY Frame DEF IInv, TypeInv, TypeOK, Guard, InBody
<1>2. Session \in Nat
  BY <1>1, Frame DEF Session
<1>3. breached' \subseteq
        Nat \X {"trailing_dd", "max_drawdown", "daily_loss"}
  <2>1. CASE FreshBreach
    <3>1. BreachReason(acct) \in {"trailing_dd", "max_drawdown", "daily_loss"}
      BY <2>1 DEF FreshBreach, BreachReason
    <3> QED
      BY <1>1, <1>2, <2>1, <3>1 DEF Guard, TypeOK
  <2>2. CASE ~FreshBreach
    BY <1>1, <2>2 DEF Guard, TypeOK
  <2> QED
    BY <2>1, <2>2
<1>4. /\ Books' /\ Balanced' /\ stage' \in {"close", "raised"}
      /\ UNCHANGED <<pos, entry>> \/ pos' = NoPosition
      /\ UNCHANGED log \/ InOrder(log'.from, log'.to)
  <2>1. CASE Keep /\ stage' = "close"
    BY <1>1, <2>1, KeepBooks
  <2>2. CASE pos # NoPosition /\ CloseAtEvent("close")
    BY <1>1, <2>2, AtEventKeeps
  <2> QED
    BY <2>1, <2>2 DEF Guard
<1> QED
  BY <1>1, <1>3, <1>4, StepKeeps DEF Moved

(* CloseOfDay *)
LEMMA CloseOfDayKeeps ==
    ASSUME IInv, CloseOfDay
    PROVE  IInv'
<1>1. /\ TypeOK /\ Balanced /\ bar \in 1 .. NBars /\ stage \in InBody
      /\ NBars \in Nat /\ Prices \subseteq Int /\ price \in Int
      /\ pos # NoPosition /\ Ends(bar) \in Nat
      /\ UNCHANGED <<settings, price, ahead, event, prevSession, breached>>
  BY Frame DEF IInv, TypeInv, TypeOK, CloseOfDay, EndOfDay, InBody
<1>2. entry.time <= Ends(bar)
  BY <1>1 DEF IInv, Timed, Known
<1>3. breached \subseteq Nat \X {"trailing_dd", "max_drawdown", "daily_loss"}
  BY <1>1 DEF TypeOK
<1>4. CASE stage' = "raised" /\ Keep /\ UNCHANGED bar
  BY <1>1, <1>3, <1>4, KeepBooks, StepKeeps DEF Moved
<1>5. ASSUME NEW q \in Int, RecordClose(q, Ends(bar)), NextBar
      PROVE  IInv'
  <2>1. /\ Books' /\ Balanced' /\ pos' = NoPosition
        /\ InOrder(log'.from, log'.to)
    BY <1>1, <1>2, <1>5, RecordCloseBooks DEF InOrder
  <2> QED
    BY <1>1, <1>3, <1>5, <2>1, StepKeeps DEF Moved, NextBar
<1> QED
  BY <1>1, <1>4, <1>5 DEF CloseOfDay, Raise

(* EndBar *)
LEMMA EndBarKeeps ==
    ASSUME IInv, EndBar
    PROVE  IInv'
<1>1. /\ TypeOK /\ Balanced /\ stage \in InBody /\ Keep
      /\ UNCHANGED <<settings, price, ahead, event, prevSession, breached>>
  BY DEF IInv, TypeInv, EndBar, InBody
<1>2. Moved
  BY DEF EndBar, MayTrade, NextBar, Moved
<1>3. breached \subseteq Nat \X {"trailing_dd", "max_drawdown", "daily_loss"}
  BY <1>1 DEF TypeOK
<1> QED
  BY <1>1, <1>2, <1>3, KeepBooks, StepKeeps

(* The account after the close of what points the other way. *)
LEMMA TurnedBooks ==
    ASSUME TypeOK, Balanced, pos # NoPosition => event # Missing
    PROVE  LET l == IF Flips THEN Logged(pos, event.quote, event.time) ELSE log
           IN  /\ Turned \in Account /\ l.net \in Int
               /\ Turned.balance = InitialBalance + l.net
               /\ Flips => l.from = entry.time /\ l.to = event.time
<1>1. /\ acct \in Account /\ log.net \in Int /\ event.quote \in Int
      /\ pos \in Position \cup {NoPosition} /\ InitialBalance \in Int
  BY AccountAssumption DEF TypeOK
<1>2. CASE Flips
  <2>1. pos \in Position
    BY <1>1, <1>2 DEF Flips
  <2> DEFINE c == ClosePosition(acct, pos, pos.size, event.quote)
             l == Logged(pos, event.quote, event.time)
  <2>2. /\ c \in Account /\ l.net \in Int /\ CostPerLot * pos.size \in Int
        /\ c.balance - acct.balance = l.net - log.net + CostPerLot * pos.size
        /\ l.from = entry.time /\ l.to = event.time
    BY <1>1, <2>1, CloseBooks
  <2> HIDE DEF c, l
  <2>3. acct.balance = InitialBalance + log.net - CostPerLot * pos.size
    BY <1>2 DEF Balanced, Flips
  <2>4. acct.balance \in Int /\ c.balance \in Int
    BY <1>1, <2>2 DEF Account
  <2>5. c.balance = InitialBalance + l.net
    BY <1>1, <2>2, <2>3, <2>4
  <2> QED
    BY <1>2, <2>2, <2>5 DEF Turned, c, l
<1>3. CASE ~Flips
  BY <1>1, <1>3 DEF Turned, Flips, Balanced
<1> QED
  BY <1>2, <1>3

(* Policy: an exit, an entry after what points the other way, or nothing. *)
LEMMA EntersKeeps ==
    ASSUME IInv, stage = "policy", PolicyEnters
    PROVE  /\ Books' /\ Balanced' /\ stage' \in {"bar", "raised"}
           /\ \/ UNCHANGED <<pos, entry>>
              \/ pos' = NoPosition
              \/ event # Missing /\ stage' = "bar" /\ entry'.time = event.time
           /\ UNCHANGED log \/ InOrder(log'.from, log'.to)
<1>1. /\ TypeOK /\ Balanced /\ bar \in 1 .. NBars /\ stage \in InBody
      /\ event.quote \in Int /\ event.time \in Nat
      /\ entry \in [time : Nat, levels : BOOLEAN] /\ dealt \subseteq Nat
      /\ acct \in Account /\ log.net \in Int
  BY Frame DEF IInv, TypeInv, TypeOK, InBody
<1>2. PICK dir \in Sides :
        /\ pos.dir # dir
        /\ IF event = Missing /\ (Flips \/ ~TooLate) THEN Raise
           ELSE /\ \/ TooLate /\ NotEntered
                   \/ /\ ~TooLate
                      /\ \E plan \in Plans :
                            Entered(dir, plan) \/ Refused(plan)
                /\ log' = IF Flips THEN Logged(pos, event.quote, event.time)
                          ELSE log
                /\ dealt' = IF Flips \/ pos' # NoPosition
                            THEN dealt \cup {Session} ELSE dealt
                /\ stage' = "bar"
  BY DEF PolicyEnters
<1>3. CASE event = Missing /\ (Flips \/ ~TooLate)
  BY <1>1, <1>2, <1>3, KeepBooks DEF Raise
<1>4. CASE ~(event = Missing /\ (Flips \/ ~TooLate))
  <2>1. /\ log' = IF Flips THEN Logged(pos, event.quote, event.time) ELSE log
        /\ dealt' = IF Flips \/ pos' # NoPosition
                    THEN dealt \cup {Session} ELSE dealt
        /\ stage' = "bar"
        /\ \/ NotEntered
           \/ \E plan \in Plans : Entered(dir, plan) /\ ~TooLate
    BY <1>2, <1>4 DEF Refused
  <2>2. pos # NoPosition => event # Missing
    BY <1>4 DEF Flips
  <2>3. /\ Turned \in Account /\ log'.net \in Int
        /\ Turned.balance = InitialBalance + log'.net
        /\ Flips => log'.from = entry.time /\ log'.to = event.time
    BY <1>1, <2>1, <2>2, TurnedBooks
  <2>4. UNCHANGED log \/ InOrder(log'.from, log'.to)
    BY <1>1, <2>1, <2>2, <2>3, EventNotBefore DEF Flips
  <2>5. dealt' \subseteq Nat
    <3>1. Session \in Nat
      BY <1>1, Frame DEF Session
    <3> QED
      BY <1>1, <2>1, <3>1
  <2>6. CASE NotEntered
    <3>1. acct' = Turned /\ pos' = NoPosition /\ entry' = entry
      BY <2>6 DEF NotEntered
    <3> QED
      BY <1>1, <2>1, <2>3, <2>4, <2>5, <3>1 DEF Books, Balanced
  <2>7. ASSUME NEW plan \in Plans, Entered(dir, plan), ~TooLate
        PROVE  /\ Books' /\ Balanced' /\ event # Missing
               /\ entry'.time = event.time
    <3>1. /\ acct' = DebitEntry(Turned, plan.lots)
          /\ pos' = Opened(dir, plan.lots, event.quote)
          /\ entry' = [time |-> event.time, levels |-> plan.levels]
          /\ CanOpen(Turned, plan.lots)
      BY <2>7 DEF Entered, Openable
    <3>2. plan.lots \in Nat \ {0} /\ plan.levels \in BOOLEAN
      BY <2>7, <3>1, PlanType DEF CanOpen
    <3>3. pos' \in Position /\ pos'.size = plan.lots
      <4>1. OpenFill(dir, event.quote) \in Int
        BY <1>1, BrokerAssumption DEF OpenFill, Ask, Bid
      <4> QED
        BY <3>1, <3>2, <4>1 DEF Opened, Position
    <3>4. CostPerLot * plan.lots \in Int
      BY <3>2, BrokerAssumption
    <3>5. acct' \in Account /\ acct'.balance = Turned.balance - CostPerLot * plan.lots
      BY <2>3, <3>1, <3>4 DEF DebitEntry, Account
    <3>6. InitialBalance \in Int
      BY AccountAssumption
    <3>7. Balanced'
      <4>1. pos' # NoPosition
        BY <3>3, PositionIsOpen
      <4> QED
        BY <2>3, <3>3, <3>4, <3>5, <3>6, <4>1 DEF Balanced
    <3> QED
      BY <1>1, <1>4, <2>3, <2>5, <2>7, <3>1, <3>2, <3>3, <3>5, <3>7 DEF Books
  <2> QED
    BY <2>1, <2>4, <2>6, <2>7 DEF NotEntered
<1> QED
  BY <1>3, <1>4

(* Policy keeps the invariant; it runs before the last bar only. *)
LEMMA PolicyKeeps ==
    ASSUME IInv, Policy
    PROVE  IInv'
<1>1. /\ TypeOK /\ Balanced /\ bar \in 1 .. NBars /\ stage \in InBody
      /\ bar < NBars /\ stage = "policy"
      /\ bar' = IF stage' = "bar" THEN bar + 1 ELSE bar
      /\ UNCHANGED <<settings, price, ahead, event, prevSession, breached>>
  BY Frame DEF IInv, TypeInv, TypeOK, Timed, Policy, InBody
<1>2. breached \subseteq Nat \X {"trailing_dd", "max_drawdown", "daily_loss"}
  BY <1>1 DEF TypeOK
<1>3. CASE PolicyExit
  BY <1>1, <1>2, <1>3, AtEventKeeps, StepKeeps DEF PolicyExit, Moved
<1>4. CASE PolicyHolds
  BY <1>1, <1>2, <1>4, KeepBooks, StepKeeps DEF PolicyHolds, Moved
<1>5. CASE PolicyEnters
  BY <1>1, <1>2, <1>5, EntersKeeps, StepKeeps DEF Filled, Moved
<1> QED
  BY <1>3, <1>4, <1>5 DEF Policy

(* Liquidate *)
LEMMA LiquidateKeeps ==
    ASSUME IInv, Liquidate
    PROVE  IInv'
<1>1. /\ TypeOK /\ Balanced /\ bar = NBars + 1 /\ stage' \in {"done", "raised"}
      /\ NBars \in Nat \ {0} /\ Prices \subseteq Int /\ price \in Int
      /\ entry.time \in Nat /\ Ends(NBars) \in Nat
      /\ UNCHANGED <<settings, bar, price, ahead, event, prevSession, breached>>
  BY Frame DEF IInv, TypeInv, TypeOK, Liquidate, Raise
<1>2. Known = NBars /\ ~(bar <= NBars)
  BY <1>1 DEF Known
<1>3. ASSUME Books', Balanced', ExitAfterEntry',
             UNCHANGED <<pos, entry>> \/ pos' = NoPosition
      PROVE  IInv'
  <2>1. TypeInv'
    BY <1>1, <1>3 DEF TypeInv, TypeOK, Books, InBody
  <2>2. Timed'
    BY <1>1, <1>2, <1>3 DEF IInv, Timed, Known, InBody
  <2> QED
    BY <1>3, <2>1, <2>2 DEF IInv
<1>4. CASE Keep
  <2>1. ExitAfterEntry'
    BY <1>1, <1>4 DEF IInv, ExitAfterEntry, Keep
  <2> QED
    BY <1>1, <1>3, <1>4, <2>1, KeepBooks
<1>5. ASSUME NEW q \in Int, pos # NoPosition, pos' = NoPosition,
             acct' = ClosePosition(acct, pos, pos.size, q),
             log' = Logged(pos, q, Ends(NBars)), UNCHANGED <<entry, dealt>>
      PROVE  IInv'
  <2>1. pos \in Position /\ acct \in Account /\ log.net \in Int
    BY <1>1, <1>5 DEF TypeOK
  <2>2. /\ acct' \in Account /\ log'.net \in Int /\ CostPerLot * pos.size \in Int
        /\ acct'.balance - acct.balance
             = log'.net - log.net + CostPerLot * pos.size
        /\ log'.from = entry.time /\ log'.to = Ends(NBars)
    BY <1>5, <2>1, CloseBooks
  <2>3. acct.balance \in Int /\ acct'.balance \in Int /\ InitialBalance \in Int
    BY <2>1, <2>2, AccountAssumption DEF Account
  <2>4. acct.balance = InitialBalance + log.net - CostPerLot * pos.size
    BY <1>1, <1>5 DEF Balanced
  <2>5. Balanced'
    <3>1. acct'.balance = InitialBalance + log'.net
      BY <2>1, <2>2, <2>3, <2>4
    <3> QED
      BY <1>5, <2>2, <2>3, <3>1 DEF Balanced
  <2>6. ExitAfterEntry'
    BY <1>1, <1>2, <1>5, <2>2 DEF IInv, Timed, ExitAfterEntry
  <2>7. Books'
    BY <1>1, <1>5, <2>2 DEF Books, TypeOK
  <2> QED
    BY <1>3, <1>5, <2>5, <2>6, <2>7
<1> QED
  BY <1>1, <1>4, <1>5 DEF Liquidate, Raise

-----------------------------------------------------------------------------
(* Theorems *)

(* A backtest begins flat, with an empty log. *)
LEMMA InitIInv == Init => IInv
<1> SUFFICES ASSUME Init PROVE IInv
  OBVIOUS
<1>1. NBars \in Nat \ {0} /\ Prices \subseteq Int /\ InitialBalance \in Int
  BY Frame, AccountAssumption
<1>2. acct \in Account /\ acct.balance = InitialBalance
  BY NewAccountType DEF Init, NewAccount
<1>3. TypeInv
  BY <1>1, <1>2 DEF Init, TypeInv, TypeOK, Missing, InBody
<1>4. Balanced /\ Timed
  BY <1>1, <1>2 DEF Init, Balanced, Timed, InBody
<1>5. ExitAfterEntry
  BY DEF Init, ExitAfterEntry
<1> QED
  BY <1>3, <1>4, <1>5 DEF IInv

(* The invariant is inductive. *)
LEMMA Inductive == Spec => []IInv
<1>1. IInv /\ [Next]_vars => IInv'
  <2>1. SUFFICES ASSUME IInv, [Next]_vars PROVE IInv'
    OBVIOUS
  <2>2. CASE Next
    BY <2>1, <2>2, BeginKeeps, ExitsKeeps, GuardKeeps, CloseOfDayKeeps,
       EndBarKeeps, PolicyKeeps, LiquidateKeeps DEF Next
  <2>3. CASE UNCHANGED vars
    BY <2>1, <2>3 DEF vars, IInv, TypeInv, TypeOK, Balanced, Timed, Known,
                      ExitAfterEntry
  <2> QED
    BY <2>1, <2>2, <2>3
<1> QED
  BY <1>1, InitIInv, PTL DEF Spec

(* Every run of the backtest has the types of TypeOK. *)
THEOREM BacktestTypes == Spec => []TypeOK
<1>1. IInv => TypeOK
  BY DEF IInv, TypeInv
<1> QED
  BY <1>1, Inductive, PTL

(* Whatever the bars, the ticks and the policy: when nothing is open, the  *)
(* trade log explains the balance.                                         *)
THEOREM LogExplains == Spec => []LogExplainsBalance
<1>1. IInv => LogExplainsBalance
  <2>1. SUFFICES ASSUME IInv, pos = NoPosition
                 PROVE  acct.balance = InitialBalance + log.net
    BY DEF LogExplainsBalance
  <2>2. log.net \in Int /\ InitialBalance \in Int
    BY <2>1, AccountAssumption DEF IInv, TypeInv, TypeOK
  <2> QED
    BY <2>1, <2>2 DEF IInv, Balanced
<1> QED
  BY <1>1, Inductive, PTL

(* No trade of the log ends before it began, except in strict execution    *)
(* one that was filled inside the last bar.                                *)
THEOREM TradesInOrder == Spec => []ExitAfterEntry
<1>1. IInv => ExitAfterEntry
  BY DEF IInv
<1> QED
  BY <1>1, Inductive, PTL
-----------------------------------------------------------------------------
(* Breaches are recorded.                                                  *)

(* No session ends with the last bar of its date: the frame has a bar      *)
(* outside the session, of the same date, after the last one of it.        *)
DatesOutlastSessions ==
    \A b \in 1 .. NBars - 1 : Bars[b].ny => Bars[b + 1].session = Bars[b].session

(* A breach of the account belongs to a session that has it on record. *)
Settled == BreachReason(acct) # "none" => prevSession \in BreachedSessions

(* Overnight the account is flat and its breaches are on record: a         *)
(* position is held inside the session only; the session of a NY bar is    *)
(* the one that began last, and the first bar outside it still has its     *)
(* date, so that its guardrails record what the last close has lost.       *)
SeenInv ==
    settings.block_overnight =>
        /\ pos # NoPosition /\ bar <= NBars => Bars[bar].ny
        /\ stage = "policy" => Bars[bar].ny /\ ~LastNyBar(bar)
        /\ stage = "bar" /\ bar = 1 => prevSession = 0
        /\ stage = "bar" /\ bar > 1 /\ Bars[bar - 1].ny
               => prevSession = Bars[bar - 1].session
        /\ stage = "bar" /\ bar > 1 /\ ~Bars[bar - 1].ny => Settled
        /\ stage \in InBody /\ Bars[bar].ny => prevSession = Session
        /\ stage \in {"exits", "guard"} /\ ~Bars[bar].ny
               => prevSession = Session \/ Settled
        /\ stage = "close" /\ ~Bars[bar].ny => Settled

(* Nothing is carried out of the last bar of a session. *)
LEMMA NotLast ==
    ASSUME NEW b \in 1 .. NBars - 1, Bars[b].ny, ~LastNyBar(b)
    PROVE  Bars[b + 1].ny
BY Frame DEF LastNyBar

(* Begin anchors the session of a NY bar; a bar outside the session that   *)
(* follows one has its date.                                               *)
LEMMA BeginSeen ==
    ASSUME DatesOutlastSessions, IInv, SeenInv, Begin
    PROVE  SeenInv'
<1> SUFFICES ASSUME settings.block_overnight PROVE SeenInv'
  BY DEF Begin, SeenInv
<1>1. /\ bar \in 1 .. NBars /\ bar' = bar /\ stage = "bar" /\ stage' = "exits"
      /\ settings' = settings /\ pos' = pos /\ breached' = breached
      /\ prevSession' = IF SessionBegins \/ prevSession = 0 THEN Session ELSE prevSession
  BY DEF Begin, IInv, TypeInv, TypeOK
<1>2. Session' = Session /\ BreachedSessions' = BreachedSessions
  BY <1>1 DEF Session, BreachedSessions
<1>3. pos' # NoPosition => Bars[bar'].ny
  BY <1>1 DEF SeenInv
<1>4. Bars[bar].ny => prevSession' = Session
  BY <1>1 DEF SessionBegins
<1>5. ~Bars[bar].ny => prevSession' = Session \/ Settled'
  <2>1. SUFFICES ASSUME ~Bars[bar].ny, prevSession' # Session PROVE Settled'
    OBVIOUS
  <2>2. prevSession' = prevSession /\ prevSession # 0 /\ ~SessionBegins
    BY <1>1, <2>1 DEF SessionBegins
  <2>3. bar > 1
    BY <1>1, <2>2 DEF SeenInv
  <2>4. ~Bars[bar - 1].ny
    <3>1. bar - 1 \in 1 .. NBars - 1 /\ (bar - 1) + 1 = bar
      BY <1>1, <2>3, Frame
    <3>2. Bars[bar - 1].ny => Session = Bars[bar - 1].session
      BY <3>1 DEF DatesOutlastSessions, Session
    <3> QED
      BY <1>1, <2>1, <2>2, <2>3, <3>2 DEF SeenInv
  <2>5. Settled
    BY <1>1, <2>3, <2>4 DEF SeenInv
  <2>6. acct' = acct
    BY <1>1, <2>1, <2>2 DEF Begin, SeenInv
  <2> QED
    BY <1>2, <2>2, <2>5, <2>6 DEF Settled
<1> QED
  BY <1>1, <1>2, <1>3, <1>4, <1>5 DEF SeenInv

(* Exits closes what is open; outside the session nothing is.              *)
LEMMA ExitsSeen ==
    ASSUME IInv, SeenInv, Exits
    PROVE  SeenInv'
<1> SUFFICES ASSUME settings.block_overnight PROVE SeenInv'
  BY DEF Exits, SeenInv
<1>1. /\ bar \in 1 .. NBars /\ bar' = bar /\ stage = "exits" /\ stage' \in {"guard", "raised"}
      /\ settings' = settings /\ breached' = breached /\ prevSession' = prevSession
      /\ pos' \in {pos, NoPosition}
  BY DEF Exits, IInv, TypeInv, TypeOK, InBody, TickExit, TickMissing, BarExit, CapExit,
         MoneyExit, NoExit, CloseAtEvent, RecordClose, Raise, Keep
<1>2. Session' = Session /\ BreachedSessions' = BreachedSessions
  BY <1>1 DEF Session, BreachedSessions
<1>3. ~Bars[bar].ny => acct' = acct
  <2>1. ~Bars[bar].ny => pos = NoPosition
    BY <1>1 DEF SeenInv
  <2> QED
    BY <2>1 DEF Exits, TickExit, TickMissing, BarExit, CapExit, MoneyExit, NoExit,
                Active, WholeBar, Keep
<1>4. ~Bars[bar].ny => prevSession' = Session \/ Settled'
  BY <1>1, <1>2, <1>3 DEF SeenInv, Settled
<1> QED
  BY <1>1, <1>2, <1>4 DEF SeenInv, InBody

(* Guard records a breach under the date of the bar. *)
LEMMA GuardSeen ==
    ASSUME IInv, SeenInv, Guard
    PROVE  SeenInv'
<1> SUFFICES ASSUME settings.block_overnight PROVE SeenInv'
  BY DEF Guard, SeenInv
<1>1. /\ bar \in 1 .. NBars /\ bar' = bar /\ stage = "guard" /\ stage' \in {"close", "raised"}
      /\ settings' = settings /\ prevSession' = prevSession /\ pos' \in {pos, NoPosition}
  BY DEF Guard, IInv, TypeInv, TypeOK, InBody, CloseAtEvent, RecordClose, Raise, Keep
<1>2. Session' = Session
  BY <1>1 DEF Session
<1>3. ~Bars[bar].ny => Settled'
  <2>1. SUFFICES ASSUME ~Bars[bar].ny PROVE Settled'
    OBVIOUS
  <2>2. pos = NoPosition /\ (prevSession = Session \/ Settled)
    BY <1>1, <2>1 DEF SeenInv
  <2>3. acct' = acct
    BY <2>2 DEF Guard, Keep
  <2>4. CASE FreshBreach
    <3>1. breached' = breached \cup {<<Session, BreachReason(acct)>>}
      BY <2>4 DEF Guard
    <3> DEFINE now == <<Session, BreachReason(acct)>>
    <3>2. now[1] = Session /\ now \in breached' /\ breached \subseteq breached'
      BY <3>1
    <3> HIDE DEF now
    <3>3. BreachedSessions \subseteq BreachedSessions' /\ Session \in BreachedSessions'
      BY <3>2 DEF BreachedSessions
    <3> QED
      BY <1>1, <2>2, <2>3, <3>3 DEF Settled
  <2>5. CASE ~FreshBreach
    <3>1. breached' = breached
      BY <2>5 DEF Guard
    <3> QED
      BY <1>1, <2>2, <2>3, <2>5, <3>1 DEF Settled, FreshBreach, BreachedSessions
  <2> QED
    BY <2>4, <2>5
<1> QED
  BY <1>1, <1>2, <1>3 DEF SeenInv, InBody

(* The end of a bar: what is still open belongs to a session that goes on. *)
LEMMA EndOfBarSeen ==
    ASSUME IInv, SeenInv, CloseOfDay \/ EndBar
    PROVE  SeenInv'
<1> SUFFICES ASSUME settings.block_overnight PROVE SeenInv'
  BY DEF CloseOfDay, EndBar, SeenInv
<1>1. /\ bar \in 1 .. NBars /\ stage = "close" /\ settings' = settings
      /\ prevSession' = prevSession /\ breached' = breached
      /\ NBars \in Nat
  BY Frame DEF CloseOfDay, EndBar, IInv, TypeInv, TypeOK, InBody
<1>2. BreachedSessions' = BreachedSessions
  BY <1>1 DEF BreachedSessions
<1>3. \/ bar' = bar + 1 /\ stage' = "bar"
      \/ bar' = bar /\ stage' \in {"policy", "raised"}
  BY DEF CloseOfDay, EndBar, NextBar, Raise
<1>4. stage' = "policy" => Bars[bar].ny /\ ~LastNyBar(bar) /\ bar' = bar
  BY <1>1 DEF CloseOfDay, EndBar, NextBar, Raise, MayTrade
<1>5. pos' # NoPosition => pos' = pos /\ Bars[bar].ny
  BY <1>1 DEF CloseOfDay, EndBar, RecordClose, Raise, Keep, SeenInv
<1>6. pos' # NoPosition /\ bar' = bar + 1 => ~LastNyBar(bar)
  BY <1>1 DEF CloseOfDay, EndBar, EndOfDay, NextBar, RecordClose, Raise, Keep
<1>7. pos' # NoPosition /\ bar' <= NBars => Bars[bar'].ny
  <2>1. CASE bar' = bar
    BY <1>5, <2>1
  <2>2. CASE bar' = bar + 1 /\ pos' # NoPosition /\ bar' <= NBars
    <3>1. bar \in 1 .. NBars - 1
      BY <1>1, <2>2
    <3> QED
      BY <1>5, <1>6, <2>2, <3>1, NotLast
  <2> QED
    BY <1>3, <2>1, <2>2
<1>8. ~Bars[bar].ny => Settled'
  <2>1. ~Bars[bar].ny => ~EndOfDay
    BY DEF EndOfDay, LastNyBar
  <2>2. ~Bars[bar].ny => acct' = acct
    BY <2>1 DEF CloseOfDay, EndBar, Keep
  <2> QED
    BY <1>1, <1>2, <2>2 DEF SeenInv, Settled
<1>9. Bars[bar].ny => prevSession' = Bars[bar].session
  BY <1>1 DEF SeenInv, InBody, Session
<1>10. bar' = bar + 1 => bar' - 1 = bar /\ bar' > 1
  BY <1>1
<1> QED
  BY <1>1, <1>3, <1>4, <1>7, <1>8, <1>9, <1>10 DEF SeenInv, InBody, Session

(* The policy is asked inside a session that goes on. *)
LEMMA PolicySeen ==
    ASSUME IInv, SeenInv, Policy
    PROVE  SeenInv'
<1> SUFFICES ASSUME settings.block_overnight PROVE SeenInv'
  BY DEF Policy, SeenInv
<1>1. /\ bar \in 1 .. NBars /\ bar < NBars /\ stage = "policy" /\ settings' = settings
      /\ prevSession' = prevSession /\ NBars \in Nat
      /\ Bars[bar].ny /\ ~LastNyBar(bar) /\ prevSession = Session
  BY Frame DEF Policy, IInv, TypeInv, TypeOK, Timed, InBody, SeenInv
<1>2. stage' \in {"bar", "raised"} /\ bar' = IF stage' = "bar" THEN bar + 1 ELSE bar
  BY DEF Policy, PolicyExit, PolicyHolds, PolicyEnters, CloseAtEvent, Raise
<1>3. Bars[bar + 1].ny
  BY <1>1, NotLast
<1>4. bar' = bar + 1 => bar' - 1 = bar /\ bar' > 1
  BY <1>1
<1>5. bar' # 1 \/ stage' = "raised"
  BY <1>1, <1>2
<1> QED
  BY <1>1, <1>2, <1>3, <1>4, <1>5 DEF SeenInv, InBody, Session

(* The liquidation comes after the last bar. *)
LEMMA LiquidateSeen ==
    ASSUME IInv, SeenInv, Liquidate
    PROVE  SeenInv'
<1>1. /\ bar' = bar /\ bar = NBars + 1 /\ NBars \in Nat /\ stage' \in {"done", "raised"}
      /\ settings' = settings
  BY Frame DEF Liquidate, Raise
<1> QED
  BY <1>1 DEF SeenInv, InBody

(* With overnight blocking, and bars outside the session to see it, no     *)
(* breach of a session is wiped by the new day before it was recorded.     *)
THEOREM BreachesRecorded ==
    ASSUME DatesOutlastSessions
    PROVE  Spec => []NoUnseenBreach
<1>1. Init => SeenInv
  BY Frame DEF Init, SeenInv, InBody
<1>2. IInv /\ SeenInv /\ [Next]_vars => SeenInv'
  <2>1. SUFFICES ASSUME IInv, SeenInv, [Next]_vars PROVE SeenInv'
    OBVIOUS
  <2>2. CASE Next
    BY <2>1, <2>2, BeginSeen, ExitsSeen, GuardSeen, EndOfBarSeen, PolicySeen,
       LiquidateSeen DEF Next
  <2>3. CASE UNCHANGED vars
    BY <2>1, <2>3 DEF vars, SeenInv, Settled, Session, BreachedSessions
  <2> QED
    BY <2>1, <2>2, <2>3
<1>3. IInv /\ SeenInv => NoUnseenBreach
  <2>1. SUFFICES ASSUME IInv, SeenInv, settings.block_overnight, stage = "bar",
                        bar <= NBars, prevSession # 0, SessionBegins,
                        BreachReason(acct) # "none"
                 PROVE  prevSession \in BreachedSessions
    BY DEF NoUnseenBreach
  <2>2. bar \in 1 .. NBars /\ bar > 1
    BY <2>1 DEF SeenInv, IInv, TypeInv, TypeOK
  <2>3. ~Bars[bar - 1].ny
    <3>1. bar - 1 \in 1 .. NBars - 1 /\ (bar - 1) + 1 = bar
      BY <2>2, Frame
    <3>2. Bars[bar - 1].ny => Session = Bars[bar - 1].session
      BY <3>1 DEF DatesOutlastSessions, Session
    <3> QED
      BY <2>1, <2>2, <3>2 DEF SeenInv, SessionBegins
  <2> QED
    BY <2>1, <2>2, <2>3 DEF SeenInv, Settled
<1> QED
  BY <1>1, <1>2, <1>3, Inductive, PTL DEF Spec
=============================================================================
