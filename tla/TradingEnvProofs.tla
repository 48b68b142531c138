-------------------------- MODULE TradingEnvProofs --------------------------
(***************************************************************************)
(* Proofs about TradingEnv for every value of its constants: types, books  *)
(* and ledger, then the entry machine and the position, the flat account,  *)
(* the terminal breach.                                                    *)
(***************************************************************************)
EXTENDS TradingEnv, TLAPS

-----------------------------------------------------------------------------
(* What the operations of Account and Broker return, for every account,    *)
(* position and quote.                                                     *)

(* max() of two amounts is an amount. *)
LEMMA HigherType ==
    ASSUME NEW x \in Int, NEW y \in Int
    PROVE  Higher(x, y) \in Int
BY DEF Higher

(* A new account is an account. *)
LEMMA NewAccountType == NewAccount \in Account
BY AccountAssumption DEF NewAccount, Account

(* Anchoring a session changes amounts only. *)
LEMMA ResetDailyType ==
    ASSUME NEW a \in Account
    PROVE  ResetDaily(a) \in Account
BY DEF ResetDaily, Account

(* Marking a position changes amounts only. *)
LEMMA MarkType ==
    ASSUME NEW a \in Account, NEW p \in Position, NEW quote \in Int
    PROVE  MarkToMarket(a, p, quote) \in Account
<1>1. CloseFill(p.dir, quote) - p.entry \in Int
  BY BrokerAssumption DEF CloseFill, Bid, Ask, Position
<1>2. p.dir \in Int /\ p.size \in Int
  BY DEF Position, Sides
<1>3. (CloseFill(p.dir, quote) - p.entry) * p.dir \in Int
  BY <1>1, <1>2
<1> DEFINE open == (CloseFill(p.dir, quote) - p.entry) * p.dir * p.size
<1>4. open \in Int
  BY <1>2, <1>3
<1>5. a.balance + open \in Int
  BY <1>4 DEF Account
<1>6. Higher(a.peak, a.balance + open) \in Int
  BY <1>5, HigherType DEF Account
<1> HIDE DEF open
<1>7. UpdateEquity(a, open) \in Account
  BY <1>4, <1>5, <1>6 DEF UpdateEquity, Account
<1> QED
  BY <1>7 DEF MarkToMarket, open

(* What is left of a position is a position or nothing, and it is nothing  *)
(* exactly when everything was closed.                                     *)
LEMMA RemainderType ==
    ASSUME NEW p \in Position, NEW lots \in 1 .. p.size
    PROVE  /\ lots = p.size  => Remainder(p, lots) = NoPosition
           /\ lots # p.size  => Remainder(p, lots) \in Position
           /\ lots # p.size  => Remainder(p, lots).dir = p.dir
BY DEF Remainder, Position

(* No position is the empty one. *)
LEMMA PositionIsOpen ==
    ASSUME NEW p \in Position
    PROVE  p # NoPosition
BY DEF Position, NoPosition, Sides

(* Realising a profit or loss leaves an account without an unrealised part. *)
LEMMA CloseTradeType ==
    ASSUME NEW a \in Account, NEW pnl \in Int
    PROVE  /\ CloseTrade(a, pnl) \in Account
           /\ CloseTrade(a, pnl).equity = CloseTrade(a, pnl).balance
           /\ CloseTrade(a, pnl).openPnl = 0
<1>1. a.balance + pnl \in Int
  BY DEF Account
<1>2. Higher(a.peak, a.balance + pnl) \in Int
  BY <1>1, HigherType DEF Account
<1>3. (IF pnl < 0 THEN a.daily - pnl ELSE a.daily) \in Int
  BY DEF Account
<1> QED
  BY <1>1, <1>2, <1>3 DEF CloseTrade, Account

(* Closing part of a position returns an account; closing all of it leaves *)
(* equity equal to the balance.                                            *)
LEMMA CloseType ==
    ASSUME NEW a \in Account, NEW p \in Position, NEW quote \in Int,
           NEW lots \in 1 .. p.size
    PROVE  LET c == ClosePosition(a, p, lots, quote) IN
           /\ c \in Account
           /\ lots = p.size => c.equity = c.balance /\ c.openPnl = 0
<1>1. CloseFill(p.dir, quote) - p.entry \in Int
  BY BrokerAssumption DEF CloseFill, Bid, Ask, Position
<1>2. p.dir \in Int /\ lots \in Int
  BY DEF Position, Sides
<1>3. (CloseFill(p.dir, quote) - p.entry) * p.dir \in Int
  BY <1>1, <1>2
<1>4. (CloseFill(p.dir, quote) - p.entry) * p.dir * lots \in Int
  BY <1>2, <1>3
<1>5. CostPerLot * lots \in Int
  BY <1>2, BrokerAssumption
<1>6. ClosePnl(p, lots, quote) \in Int
  BY <1>4, <1>5 DEF ClosePnl
<1> DEFINE closed == CloseTrade(a, ClosePnl(p, lots, quote))
<1>7. /\ closed \in Account
      /\ closed.equity = closed.balance
      /\ closed.openPnl = 0
  BY <1>6, CloseTradeType
<1>8. CASE lots = p.size
  BY <1>7, <1>8 DEF ClosePosition
<1>9. CASE lots # p.size
  <2>1. Remainder(p, lots) \in Position
    BY <1>9, RemainderType
  <2>2. MarkToMarket(closed, Remainder(p, lots), quote) \in Account
    BY <1>7, <2>1, MarkType
  <2> QED
    BY <1>9, <2>2 DEF ClosePosition
<1> QED
  BY <1>8, <1>9

-----------------------------------------------------------------------------
(* The calendar *)

(* While an episode runs, the step's bar is a bar of the frame and its     *)
(* session one of the sessions.                                            *)
LEMMA CalendarType ==
    ASSUME nyPos \in 0 .. Len(NyIndices)
    PROVE  /\ StepIdx \in Nat
           /\ FillIdx \in Nat
           /\ MarketFillIdx \in Int
           /\ nyPos < Len(NyIndices) =>
                /\ StepIdx \in 0 .. NBars - 1
                /\ Session \in Sessions
                /\ Session \in Nat \ {0}
<1>1. Len(NyIndices) \in Nat \ {0}
  BY EnvAssumption
<1>2. \A i \in 1 .. Len(NyIndices) : NyIndices[i] \in 0 .. NBars - 1
  BY EnvAssumption
<1>3. NBars \in Nat \ {0} /\ Latency \in Nat
  BY EnvAssumption
<1>4. StepIdx \in Nat
  BY <1>1, <1>2, <1>3 DEF StepIdx
<1>5. FillIdx \in Nat
  BY <1>1, <1>2, <1>3, <1>4 DEF FillIdx
<1>6. MarketFillIdx \in Int
  BY <1>3, <1>4 DEF MarketFillIdx, Lower
<1>7. nyPos < Len(NyIndices) => StepIdx \in 0 .. NBars - 1
  BY <1>1, <1>2, <1>3 DEF StepIdx
<1>8. nyPos < Len(NyIndices) => Session \in Sessions /\ Session \in Nat \ {0}
  BY <1>7, EnvAssumption DEF Session, Sessions
<1> QED
  BY <1>4, <1>5, <1>6, <1>7, <1>8

(* The cooldown bar is a bar index. *)
LEMMA CooldownType ==
    ASSUME nyPos \in 0 .. Len(NyIndices), cooldownUntil \in Int
    PROVE  CooldownAfterClose \in Int
BY CalendarType, EnvAssumption DEF CooldownAfterClose

-----------------------------------------------------------------------------
(* The two compound effects keep the types of the variables they change.   *)

(* Closing part of the open position. *)
LEMMA ClosePartType ==
    ASSUME TypeOK, pos # NoPosition,
           NEW lots \in 1 .. pos.size, NEW quote \in Int,
           ClosePart(lots, quote)
    PROVE  /\ acct' \in Account
           /\ pos' \in Position \cup {NoPosition}
           /\ cooldownUntil' \in Int
<1>1. pos \in Position
  BY DEF TypeOK
<1>2. acct' \in Account
  BY <1>1, CloseType DEF ClosePart, TypeOK
<1>3. pos' \in Position \cup {NoPosition}
  BY <1>1, RemainderType DEF ClosePart
<1>4. cooldownUntil' \in Int
  BY CooldownType DEF ClosePart, TypeOK
<1> QED
  BY <1>2, <1>3, <1>4

(* Closing all of it. *)
LEMMA CloseAllType ==
    ASSUME TypeOK, pos # NoPosition, NEW quote \in Int, CloseAll(quote)
    PROVE  /\ acct' \in Account
           /\ pos' = NoPosition
           /\ cooldownUntil' \in Int
           /\ acct'.equity = acct'.balance /\ acct'.openPnl = 0
<1>1. pos \in Position
  BY DEF TypeOK
<1>2. pos.size \in 1 .. pos.size
  BY <1>1 DEF Position
<1>3. acct' \in Account /\ cooldownUntil' \in Int
  BY <1>2, ClosePartType DEF CloseAll
<1>4. pos' = NoPosition
  BY <1>1, <1>2, RemainderType DEF CloseAll, ClosePart
<1>5. acct'.equity = acct'.balance /\ acct'.openPnl = 0
  BY <1>1, <1>2, CloseType DEF CloseAll, ClosePart, TypeOK
<1> QED
  BY <1>3, <1>4, <1>5

(* An entry attempt in a direction. *)
LEMMA TryEnterType ==
    ASSUME TypeOK, nyPos < Len(NyIndices),
           NEW dir \in Sides, NEW lots \in LotSizes \cup {0},
           NEW quote \in Prices, TryEnter(dir, lots, quote)
    PROVE  /\ acct' \in Account
           /\ pos' \in Position \cup {NoPosition}
           /\ cooldownUntil' \in Int
           /\ entries' \in [Sessions -> Nat]
           /\ fsm' \in EntryMachine
           /\ stage' \in {"account", "crashed"}
<1> DEFINE flips == pos # NoPosition /\ pos.dir # dir
           after == IF flips THEN ClosePosition(acct, pos, pos.size, quote)
                    ELSE acct
           opens == /\ pos = NoPosition \/ flips
                    /\ CanOpen(after, lots)
                    /\ CapacityAllows(after, lots)
<1>1. quote \in Int /\ lots \in Nat
  BY EnvAssumption
<1>2. after \in Account
  <2>1. CASE flips
    <3>1. pos \in Position /\ pos.size \in 1 .. pos.size
      BY <2>1 DEF TypeOK, Position
    <3> QED
      BY <2>1, <3>1, <1>1, CloseType DEF TypeOK
  <2>2. CASE ~flips
    BY <2>2 DEF TypeOK
  <2> QED
    BY <2>1, <2>2
<1> HIDE DEF after
<1>3. acct' \in Account
  <2>1. after.balance - CostPerLot * lots \in Int
    BY <1>1, <1>2, BrokerAssumption DEF Account
  <2>2. DebitEntry(after, lots) \in Account
    BY <2>1, <1>2 DEF DebitEntry, Account
  <2>3. acct' = IF opens THEN DebitEntry(after, lots) ELSE after
    BY DEF TryEnter, after
  <2> QED
    BY <1>2, <2>2, <2>3
<1>4. pos' \in Position \cup {NoPosition}
  <2>1. opens => Opened(dir, lots, quote) \in Position
    BY <1>1, BrokerAssumption
    DEF Opened, OpenFill, Bid, Ask, Position, Sides, CanOpen
  <2>2. pos' = IF opens THEN Opened(dir, lots, quote)
               ELSE IF flips THEN NoPosition ELSE pos
    BY DEF TryEnter, after
  <2> QED
    BY <2>1, <2>2 DEF TypeOK
<1>5. cooldownUntil' \in Int
  BY CooldownType DEF TryEnter, TypeOK
<1>6. entries' \in [Sessions -> Nat]
  BY CalendarType DEF TryEnter, TypeOK
<1>7. fsm' \in EntryMachine
  BY DEF TryEnter, TypeOK, MarkEntered, EntryMachine, EntryStates
<1>8. stage' \in {"account", "crashed"}
  BY DEF TryEnter
<1> QED
  BY <1>3, <1>4, <1>5, <1>6, <1>7, <1>8

-----------------------------------------------------------------------------
(* Type correctness.  TypeOK alone is not inductive: FillOrder enters in   *)
(* the direction of the order, which is a side only because a step that    *)
(* owes a fill still holds its order.                                      *)

(* A step that owes its order a fill still holds that order. *)
DueOrderPending ==
    /\ stage = "due" => loc.due
    /\ loc.due /\ stage \in {"intent", "guard", "exits", "due"} => order # NoOrder

TypeInv == TypeOK /\ DueOrderPending

(* The locals of a step start as locals. *)
LEMMA IdleLocType == IdleLoc \in Loc /\ ~IdleLoc.due
BY DEF IdleLoc, Loc, NoCancel, CancelReasons

(* An episode starts well typed. *)
LEMMA InitType == Init => TypeInv
<1> SUFFICES ASSUME Init PROVE TypeInv
  OBVIOUS
<1>1. acct \in Account
  BY NewAccountType DEF Init
<1>2. nyPos \in 0 .. Len(NyIndices) /\ nyPos < Len(NyIndices)
  BY EnvAssumption DEF Init
<1>3. price \in Int
  BY EnvAssumption DEF Init
<1>4. fsm \in EntryMachine
  BY DEF Init, Cleared, EntryMachine, EntryStates
<1>5. ledger \in [count : Nat, events : SUBSET (Nat \X {"success", "failure"}),
                  paid : Int, withdrawn : Int]
  BY DEF Init, InitialLedger
<1>6. latch \in [sessions : SUBSET Sessions, yearFailed : BOOLEAN,
                 breached : BOOLEAN]
  BY DEF Init, InitialLatch
<1>7. history \in [equity : Int, sum : Int]
  BY AccountAssumption DEF Init
<1>8. loc \in Loc /\ ~loc.due
  BY IdleLocType DEF Init
<1>9. entries \in [Sessions -> Nat]
  BY DEF Init
<1>10. /\ stage \in Stages /\ stage # "due"
       /\ pos \in Position \cup {NoPosition}
       /\ order \in [dir : Sides, fillIdx : Nat] \cup {NoOrder}
       /\ prevSession \in Nat /\ cooldownUntil \in Int
  BY DEF Init, Stages
<1>11. TypeOK
  BY <1>1, <1>2, <1>3, <1>4, <1>5, <1>6, <1>7, <1>8, <1>9, <1>10 DEF TypeOK
<1>12. DueOrderPending
  BY <1>8, <1>10 DEF DueOrderPending
<1> QED
  BY <1>11, <1>12 DEF TypeInv

(* Every step of the environment keeps the types. *)
LEMMA NextType == TypeInv /\ [Next]_vars => TypeInv'
<1> SUFFICES ASSUME TypeInv, [Next]_vars PROVE TypeInv'
  OBVIOUS
<1> USE DEF TypeInv
<1>0. Prices \subseteq Int /\ LotSizes \subseteq Nat \ {0}
  BY EnvAssumption
<1>1. CASE Progress
  <2>1. PICK next \in Prices \cup {price} :
            loc' = [IdleLoc EXCEPT
                      !.next = next,
                      !.due = order # NoOrder /\ order.fillIdx = MarketFillIdx]
    BY <1>1 DEF Progress
  <2>2. next \in Int
    BY <1>0 DEF TypeOK
  <2> DEFINE due == order # NoOrder /\ order.fillIdx = MarketFillIdx
  <2>3. due \in BOOLEAN
    OBVIOUS
  <2> HIDE DEF due
  <2>4. loc' = [[IdleLoc EXCEPT !.next = next] EXCEPT !.due = due]
    BY <2>1 DEF due
  <2>5. loc' \in Loc /\ loc'.due = due
    BY <2>2, <2>3, <2>4, IdleLocType DEF Loc
  <2>6. loc'.due => order # NoOrder
    BY <2>5 DEF due
  <2>7. Session \in Nat
    BY <1>1, CalendarType DEF Progress, TypeOK
  <2> DEFINE anchored == IF prevSession \notin {0, Session}
                         THEN ResetDaily(acct) ELSE acct
             marked == IF pos = NoPosition THEN anchored
                       ELSE MarkToMarket(anchored, pos, price)
             sessionEnd == BlockOvernight /\ pos # NoPosition /\ IsBoundary
  <2>8. anchored \in Account
    BY ResetDailyType DEF TypeOK
  <2>9. marked \in Account
    <3> HIDE DEF anchored
    <3> QED BY <2>8, MarkType DEF TypeOK
  <2> HIDE DEF marked
  <2>10. CASE sessionEnd
    <3>1. /\ acct' = ClosePosition(marked, pos, pos.size, price)
          /\ pos' = NoPosition
          /\ cooldownUntil' = CooldownAfterClose
      BY <1>1, <2>10 DEF Progress, marked
    <3>2. pos \in Position /\ pos.size \in 1 .. pos.size
      BY <2>10 DEF TypeOK, Position
    <3>3. acct' \in Account
      BY <2>9, <3>1, <3>2, CloseType DEF TypeOK
    <3>4. cooldownUntil' \in Int
      BY <3>1, CooldownType DEF TypeOK
    <3> QED
      BY <1>1, <2>5, <2>6, <2>7, <3>1, <3>3, <3>4
      DEF Progress, TypeOK, DueOrderPending, Stages
  <2>11. CASE ~sessionEnd
    <3>1. acct' = marked /\ UNCHANGED <<pos, cooldownUntil>>
      BY <1>1, <2>11 DEF Progress, marked
    <3> QED
      BY <1>1, <2>5, <2>6, <2>7, <2>9, <3>1
      DEF Progress, TypeOK, DueOrderPending, Stages
  <2> QED
    BY <2>10, <2>11
<1>2. CASE PrepareIntent
  <2>1. PICK action \in {-1, 0, 1}, gate \in BOOLEAN :
            loc' = [loc EXCEPT
                      !.intent = IF EntryAllowed /\ gate THEN Requested(action) ELSE 0]
    BY <1>2 DEF PrepareIntent
  <2>2. (IF EntryAllowed /\ gate THEN Requested(action) ELSE 0) \in {-1, 0, 1}
    BY DEF Requested, TypeOK, EntryMachine
  <2>3. loc' \in Loc /\ loc'.due = loc.due
    BY <2>1, <2>2 DEF TypeOK, Loc
  <2> QED
    BY <1>2, <2>3 DEF PrepareIntent, TypeOK, DueOrderPending, Stages
<1>3. CASE NoBreach
  BY <1>3 DEF NoBreach, KeepBook, TypeOK, DueOrderPending, Stages, Loc, Latched, Latching
<1>4. CASE Breach
  <2>1. /\ acct' \in Account /\ pos' \in Position \cup {NoPosition}
        /\ cooldownUntil' \in Int
    <3>1. CASE pos = NoPosition
      BY <1>4, <3>1 DEF Breach, KeepBook, TypeOK
    <3>2. CASE pos # NoPosition
      BY <1>4, <3>2, CloseAllType DEF Breach, TypeOK, Loc
    <3> QED
      BY <3>1, <3>2
  <2>2. latch' \in [sessions : SUBSET Sessions, yearFailed : BOOLEAN,
                    breached : BOOLEAN]
    <3>1. Session \in Sessions
      BY <1>4, CalendarType DEF Breach, TypeOK
    <3>2. (\/ latch.yearFailed
           \/ Latching /\ BreachReason(acct) # "daily_loss") \in BOOLEAN
      BY DEF TypeOK
    <3> QED
      BY <1>4, <3>1, <3>2 DEF Breach, TypeOK
  <2>3. ledger' \in [count : Nat, events : SUBSET (Nat \X {"success", "failure"}),
                     paid : Int, withdrawn : Int]
    <3>1. <<ledger.count, "failure">> \in Nat \X {"success", "failure"}
      BY DEF TypeOK
    <3> QED
      BY <1>4, <3>1 DEF Breach, TypeOK
  <2>4. loc' = [[[loc EXCEPT !.breach = TRUE] EXCEPT !.blocked = Latching]
                  EXCEPT !.done = ~Latching]
    BY <1>4 DEF Breach
  <2>5. loc' \in Loc /\ loc'.due = loc.due
    BY <2>4 DEF TypeOK, Loc, Latching
  <2> QED
    BY <1>4, <2>1, <2>2, <2>3, <2>5 DEF Breach, TypeOK, DueOrderPending, Stages
<1>5. CASE ProtectiveExit
  <2>1. PICK lots \in 1 .. pos.size, quote \in Prices : ClosePart(lots, quote)
    BY <1>5 DEF ProtectiveExit
  <2>2. /\ acct' \in Account /\ pos' \in Position \cup {NoPosition}
        /\ cooldownUntil' \in Int
    BY <1>0, <1>5, <2>1, ClosePartType DEF ProtectiveExit
  <2> QED
    BY <1>5, <2>2 DEF ProtectiveExit, TypeOK, DueOrderPending
<1>6. CASE EndExits
  <2>1. /\ acct' \in Account /\ pos' \in Position \cup {NoPosition}
        /\ cooldownUntil' \in Int
    <3>1. CASE PeakDdReached /\ pos # NoPosition
      BY <1>6, <3>1, CloseAllType DEF EndExits, TypeOK, Loc
    <3>2. CASE ~(PeakDdReached /\ pos # NoPosition)
      BY <1>6, <3>2 DEF EndExits, KeepBook, TypeOK
    <3> QED
      BY <3>1, <3>2
  <2>2. PeakDdReached \in BOOLEAN
    BY DEF PeakDdReached, TrailingDrawdownAtLeast
  <2>3. loc' \in Loc /\ loc'.due = loc.due
    BY <1>6, <2>2 DEF EndExits, TypeOK, Loc
  <2>4. stage' \in {"due", "account", "act"} /\ (stage' = "due" => loc.due)
    BY <1>6 DEF EndExits
  <2> QED
    BY <1>6, <2>1, <2>3, <2>4 DEF EndExits, TypeOK, DueOrderPending, Stages
<1>7. CASE FillOrder
  <2>1. PICK lots \in LotSizes \cup {0}, quote \in Prices :
            TryEnter(order.dir, lots, quote)
    BY <1>7 DEF FillOrder
  <2>2. order.dir \in Sides
    BY <1>7 DEF FillOrder, TypeOK, DueOrderPending
  <2>3. nyPos < Len(NyIndices)
    BY <1>7 DEF FillOrder, TypeOK
  <2>4. /\ acct' \in Account /\ pos' \in Position \cup {NoPosition}
        /\ cooldownUntil' \in Int /\ entries' \in [Sessions -> Nat]
        /\ fsm' \in EntryMachine /\ stage' \in {"account", "crashed"}
    BY <2>1, <2>2, <2>3, TryEnterType
  <2> QED
    BY <1>7, <2>3, <2>4 DEF FillOrder, TypeOK, DueOrderPending, Stages, NoOrder
<1>8. CASE CancelOrder
  <2>1. order.fillIdx \in Nat
    BY DEF TypeOK, NoOrder
  <2>2. loc' \in Loc
    BY <1>8, <2>1 DEF CancelOrder, TypeOK, Loc, CancelReasons
  <2> QED
    BY <1>8, <2>2 DEF CancelOrder, KeepBook, TypeOK, DueOrderPending, Stages
<1>9. CASE ManualExit
  <2>1. acct' \in Account /\ pos' = NoPosition /\ cooldownUntil' \in Int
    BY <1>9, CloseAllType DEF ManualExit, TypeOK, Loc
  <2> QED
    BY <1>9, <2>1 DEF ManualExit, TypeOK, DueOrderPending, Stages
<1>10. CASE Hold
  BY <1>10 DEF Hold, KeepBook, TypeOK, DueOrderPending, Stages
<1>11. CASE SubmitOrder
  BY <1>11, CalendarType
  DEF SubmitOrder, KeepBook, TypeOK, DueOrderPending, Stages, IntentExecutable, Loc, Sides
<1>12. CASE EnterNow
  <2>1. PICK lots \in LotSizes \cup {0}, quote \in Prices :
            TryEnter(loc.intent, lots, quote)
    BY <1>12 DEF EnterNow
  <2>2. loc.intent \in Sides
    BY <1>12 DEF EnterNow, IntentExecutable, TypeOK, Loc, Sides
  <2>3. nyPos < Len(NyIndices)
    BY <1>12 DEF EnterNow, TypeOK
  <2>4. /\ acct' \in Account /\ pos' \in Position \cup {NoPosition}
        /\ cooldownUntil' \in Int /\ entries' \in [Sessions -> Nat]
        /\ fsm' \in EntryMachine /\ stage' \in {"account", "crashed"}
    BY <2>1, <2>2, <2>3, TryEnterType
  <2> QED
    BY <1>12, <2>3, <2>4 DEF EnterNow, TypeOK, DueOrderPending, Stages
<1>13. CASE RecordAccounting
  <2>1. PayoutAmount(acct) \in Int
    <3>1. OperatingBalance \in Int
      BY GuardrailAssumption
    <3>2. acct.balance \in Int
      BY DEF TypeOK, Account
    <3>3. acct.balance - OperatingBalance \in Int
      BY <3>1, <3>2
    <3> QED
      BY <3>3 DEF PayoutAmount, Higher
  <2>2. AfterPayout(ledger) \in
           [count : Nat, events : SUBSET (Nat \X {"success", "failure"}),
            paid : Int, withdrawn : Int]
    <3>1. <<ledger.count, "success">> \in Nat \X {"success", "failure"}
      BY DEF TypeOK
    <3> QED
      BY <2>1, <3>1 DEF AfterPayout, TypeOK
  <2>3. ledger' \in
           [count : Nat, events : SUBSET (Nat \X {"success", "failure"}),
            paid : Int, withdrawn : Int]
    BY <1>13, <2>2 DEF RecordAccounting, TypeOK
  <2>4. ResetOperatingBalance(acct, OperatingBalance) \in Account
    <3>1. OperatingBalance \in Int
      BY GuardrailAssumption
    <3> QED
      BY <3>1, HigherType DEF ResetOperatingBalance, TypeOK, Account
  <2>5. acct' \in Account
    BY <1>13, <2>4 DEF RecordAccounting, TypeOK
  <2>6. history' \in [equity : Int, sum : Int]
    <3>1. acct'.equity \in Int
      BY <2>5 DEF Account
    <3>2. history.sum + acct'.equity + ledger'.withdrawn - history.equity \in Int
      BY <2>3, <3>1 DEF TypeOK
    <3> QED
      BY <1>13, <3>1, <3>2 DEF RecordAccounting
  <2>7. loc' \in Loc
    <3>1. (loc.done \/ (PayoutTaken /\ Episodic)) \in BOOLEAN
      BY DEF TypeOK, Loc
    <3> QED
      BY <1>13, <3>1 DEF RecordAccounting, TypeOK, Loc
  <2> QED
    BY <1>13, <2>3, <2>5, <2>6, <2>7
    DEF RecordAccounting, TypeOK, DueOrderPending, Stages
<1>14. CASE UpdateFunnel
  <2>1. fsm' \in EntryMachine
    <3>1. StepIdx \in Nat
      BY CalendarType DEF TypeOK
    <3>2. ASSUME NEW ev \in Evidence PROVE Observe(fsm, ev, StepIdx) \in EntryMachine
      BY <3>1 DEF Observe, Creates, Cleared, Evidence, TypeOK, EntryMachine, EntryStates
    <3>3. MarkClosed(fsm) \in EntryMachine
      BY DEF MarkClosed, Cleared, TypeOK, EntryMachine, EntryStates
    <3> QED
      BY <1>14, <3>2, <3>3 DEF UpdateFunnel, TypeOK
  <2> QED
    BY <1>14, <2>1 DEF UpdateFunnel, TypeOK, DueOrderPending, Stages
<1>15. CASE ReplayExit
  <2>1. PICK lots \in 1 .. pos.size, quote \in Prices : ClosePart(lots, quote)
    BY <1>15 DEF ReplayExit
  <2>2. /\ acct' \in Account /\ pos' \in Position \cup {NoPosition}
        /\ cooldownUntil' \in Int
    BY <1>0, <1>15, <2>1, ClosePartType DEF ReplayExit
  <2> QED
    BY <1>15, <2>2 DEF ReplayExit, TypeOK, DueOrderPending
<1>16. CASE ReplayMark
  <2>1. acct' \in Account
    BY <1>0, <1>16, MarkType DEF ReplayMark, TypeOK
  <2> QED
    BY <1>16, <2>1 DEF ReplayMark, TypeOK, DueOrderPending
<1>17. CASE ReplayDone
  BY <1>17 DEF ReplayDone, TypeOK, DueOrderPending, Stages
<1>18. CASE Finish
  <2>1. nyPos < Len(NyIndices) /\ Len(NyIndices) \in Nat
    BY <1>18, EnvAssumption DEF Finish, TypeOK
  <2>2. price' \in Int
    BY <1>0, <1>18 DEF Finish, TypeOK, Loc
  <2>3. fsm' \in EntryMachine
    BY <1>18 DEF Finish, MarkClosed, Cleared, TypeOK, EntryMachine, EntryStates
  <2>4. order.fillIdx \in Nat
    BY DEF TypeOK, NoOrder
  <2>5. [loc EXCEPT !.cancel = [reason |-> "episode_ended_before_scheduled_fill",
                                fillIdx |-> order.fillIdx]] \in Loc
    BY <2>4 DEF TypeOK, Loc, CancelReasons
  <2>6. CASE EpisodeOver
    <3>1. stage' = "over" /\ order' = NoOrder /\ loc' \in Loc
      BY <1>18, <2>5, <2>6 DEF Finish, TypeOK
    <3> QED
      BY <1>18, <2>1, <2>2, <2>3, <3>1
      DEF Finish, TypeOK, DueOrderPending, Stages
  <2>7. CASE ~EpisodeOver
    <3>1. nyPos' \in 0 .. Len(NyIndices) /\ nyPos' < Len(NyIndices)
      BY <1>18, <2>1, <2>7 DEF Finish, EpisodeOver, TypeOK
    <3> QED
      BY <1>18, <2>2, <2>3, <2>7, <3>1, IdleLocType
      DEF Finish, TypeOK, DueOrderPending, Stages
  <2> QED
    BY <2>6, <2>7
<1>19. CASE Reset
  <2>1. acct' \in Account
    BY <1>19, NewAccountType DEF Reset
  <2>2. nyPos' \in 0 .. Len(NyIndices) /\ nyPos' < Len(NyIndices)
    BY <1>19, EnvAssumption DEF Reset
  <2>3. fsm' \in EntryMachine
    BY <1>19 DEF Reset, Cleared, EntryMachine, EntryStates
  <2>4. /\ ledger' \in [count : Nat, events : SUBSET (Nat \X {"success", "failure"}),
                       paid : Int, withdrawn : Int]
        /\ latch' \in [sessions : SUBSET Sessions, yearFailed : BOOLEAN,
                      breached : BOOLEAN]
    BY <1>19 DEF Reset, InitialLedger, InitialLatch
  <2>5. history' \in [equity : Int, sum : Int]
    BY <1>19, AccountAssumption DEF Reset
  <2>6. loc' \in Loc /\ ~loc'.due
    BY <1>19, IdleLocType DEF Reset
  <2>7. price' \in Int /\ entries' \in [Sessions -> Nat]
    BY <1>0, <1>19 DEF Reset
  <2> QED
    BY <1>19, <2>1, <2>2, <2>3, <2>4, <2>5, <2>6, <2>7
    DEF Reset, TypeOK, DueOrderPending, Stages
<1>20. CASE UNCHANGED vars
  BY <1>20 DEF vars, TypeOK, DueOrderPending
<1> QED
  BY <1>1, <1>2, <1>3, <1>4, <1>5, <1>6, <1>7, <1>8, <1>9, <1>10, <1>11,
     <1>12, <1>13, <1>14, <1>15, <1>16, <1>17, <1>18, <1>19, <1>20 DEF Next

(* Every variable of the environment has its type in every reachable state. *)
THEOREM TypeCorrect == Spec => []TypeOK
<1>1. Init => TypeInv
  BY InitType
<1>2. TypeInv /\ [Next]_vars => TypeInv'
  BY NextType
<1>3. TypeInv => TypeOK
  BY DEF TypeInv
<1> QED
  BY <1>1, <1>2, <1>3, PTL DEF Spec

-----------------------------------------------------------------------------
(* Sessions: the cap on entries, the latches, the overnight rule and the   *)
(* recording of breaches, for every calendar in which sessions are dates.  *)

InStep == {"intent", "guard", "exits", "due", "act", "account", "funnel",
           "replay", "finish"}
Decided == {"guard", "exits", "due", "act"}
Guarded == {"exits", "due", "act", "account", "funnel", "replay", "finish"}
Running == stage \in InStep \cup {"market"}

(* A running step is at a NY bar.                                         *)
LEMMA RunningPos == TypeOK /\ Running => nyPos < Len(NyIndices)
BY DEF TypeOK, Running, InStep

-----------------------------------------------------------------------------
(* The calendar *)

(* The NY bars are bars of the frame, in ascending order, and every bar    *)
(* has a session.                                                          *)
LEMMA NyBars ==
    /\ \A i \in 0 .. NBars - 1 : SessionOf[i] \in Nat \ {0}
    /\ Len(NyIndices) \in Nat \ {0} /\ NBars \in Nat \ {0}
    /\ \A i \in 1 .. Len(NyIndices) : NyIndices[i] \in 0 .. NBars - 1
    /\ \A i, j \in 1 .. Len(NyIndices) : i < j => NyIndices[i] < NyIndices[j]
<1>1. \A i \in 1 .. Len(NyIndices) : NyIndices[i] \in 0 .. NBars - 1
  BY EnvAssumption
<1>2. \A i, j \in 1 .. Len(NyIndices) : i < j => NyIndices[i] < NyIndices[j]
  BY EnvAssumption
<1>3. Len(NyIndices) \in Nat \ {0} /\ NBars \in Nat \ {0}
  BY EnvAssumption
<1>4. \A i \in 0 .. NBars - 1 : SessionOf[i] \in Nat \ {0}
  BY EnvAssumption
<1> QED
  BY <1>1, <1>2, <1>3, <1>4

(* The next step is of the same session or a later one, and of the same    *)
(* one unless this bar is a boundary.                                      *)
LEMMA NextSession ==
    ASSUME SessionsAreDates, TypeOK, nyPos + 1 < Len(NyIndices),
           nyPos' = nyPos + 1
    PROVE  /\ Session' >= Session
           /\ ~IsBoundary => Session' = Session
<1> DEFINE k == nyPos + 1
<1>1. k \in 1 .. Len(NyIndices) - 1 /\ nyPos + 2 = k + 1
  BY NyBars DEF TypeOK
<1>2. StepIdx = NyIndices[k] /\ StepIdx' = NyIndices[k + 1]
  BY <1>1, NyBars DEF StepIdx, TypeOK
<1>3. k \in 1 .. Len(NyIndices) /\ k + 1 \in 1 .. Len(NyIndices) /\ k < k + 1
  BY <1>1, NyBars
<1> HIDE DEF k
<1>4. NyIndices[k] \in 0 .. NBars - 1 /\ NyIndices[k + 1] \in 0 .. NBars - 1
      /\ NyIndices[k] < NyIndices[k + 1]
  BY <1>3, NyBars
<1>5. SessionOf[NyIndices[k]] <= SessionOf[NyIndices[k + 1]]
  BY <1>4, NyBars DEF SessionsAreDates
<1>6. Session' >= Session
  <2>1. Session \in Int /\ Session' \in Int
    BY <1>2, <1>4, NyBars DEF Session
  <2> QED
    BY <1>2, <1>5, <2>1 DEF Session
<1>7. ASSUME ~IsBoundary PROVE Session' = Session
  <2>1. ~(NyIndices[k + 1] > NyIndices[k] + 1)
    BY <1>1, <1>2, <1>7 DEF IsBoundary
  <2>2. NyIndices[k + 1] = NyIndices[k] + 1
    BY <1>4, <2>1, NyBars
  <2> QED
    BY <1>1, <1>2, <2>2 DEF Session, SessionsAreDates
<1> QED
  BY <1>6, <1>7

(* No bar that is followed by a bar of its own session is the fill bar of  *)
(* a boundary.                                                             *)
LEMMA NoFillAtBoundary ==
    ASSUME TypeOK, nyPos < Len(NyIndices), IsBoundary, HasFollowUp(MarketFillIdx)
    PROVE  FALSE
<1>1. nyPos + 1 \in 1 .. Len(NyIndices) /\ nyPos \in Nat
  BY NyBars DEF TypeOK
<1>2. StepIdx = NyIndices[nyPos + 1] /\ StepIdx \in 0 .. NBars - 1
  BY <1>1, NyBars DEF StepIdx
<1>3. PICK k \in 1 .. Len(NyIndices) - 1 : NyIndices[k] = MarketFillIdx
  BY DEF HasFollowUp
<1>4. k \in 1 .. Len(NyIndices) /\ k + 1 \in 1 .. Len(NyIndices)
  BY <1>3, NyBars
<1>5. /\ NyIndices[k] \in 0 .. NBars - 1 /\ NyIndices[k + 1] \in 0 .. NBars - 1
      /\ NyIndices[k] < NyIndices[k + 1]
  BY <1>4, NyBars
<1>6. NyIndices[k] = StepIdx + 1
  BY <1>2, <1>3, <1>5, NyBars DEF MarketFillIdx, Lower
<1>7. nyPos + 1 < k
  <2>1. k < nyPos + 1 => NyIndices[k] < NyIndices[nyPos + 1]
    BY <1>1, <1>4, NyBars
  <2> QED
    BY <1>1, <1>2, <1>4, <1>5, <1>6, <2>1
<1>8. nyPos + 2 \in 1 .. Len(NyIndices) /\ ~LastNyBar
  BY <1>1, <1>3, <1>7, NyBars DEF LastNyBar
<1>9. NyIndices[nyPos + 2] > StepIdx + 1
  BY <1>8 DEF IsBoundary
<1>10. nyPos + 2 < k => NyIndices[nyPos + 2] < NyIndices[k]
  BY <1>4, <1>8, NyBars
<1>11. NyIndices[nyPos + 2] \in Int
  BY <1>8, NyBars
<1> QED
  BY <1>1, <1>2, <1>4, <1>6, <1>7, <1>9, <1>10, <1>11

-----------------------------------------------------------------------------
(* The session of a step.  prev_session is set when a step begins, and     *)
(* sessions never go back.                                                 *)

OfSession ==
    /\ stage \in InStep => prevSession = Session
    /\ stage = "market" => prevSession <= Session

(* The bar moves with Finish and Reset only, prev_session with Progress    *)
(* and Reset only.                                                         *)
LEMMA BarMoves ==
    ASSUME [Next]_vars
    PROVE  /\ nyPos' = nyPos \/ Finish \/ Reset
           /\ prevSession' = prevSession \/ Progress \/ Reset
           /\ stage' \in InStep => stage \in InStep \/ Progress
           /\ stage' = "market" => UNCHANGED vars \/ Finish \/ Reset
BY DEF Next, vars, InStep, Progress, PrepareIntent, NoBreach, Breach,
       ProtectiveExit, EndExits, FillOrder, CancelOrder, ManualExit, Hold,
       SubmitOrder, EnterNow, RecordAccounting, UpdateFunnel, ReplayExit,
       ReplayMark, ReplayDone, Finish, Reset, TryEnter

(* The bar of a step does not change within it, nor does its session. *)
LEMMA SameBar ==
    nyPos' = nyPos => UNCHANGED <<StepIdx, Session, IsBoundary, FillIdx>>
BY DEF StepIdx, Session, IsBoundary, LastNyBar, FillIdx

(* An episode starts in its first session. *)
LEMMA FirstSession ==
    /\ nyPos = 0 => Session \in Nat \ {0}
    /\ nyPos' = 0 => Session' \in Nat \ {0}
<1>1. NyIndices[1] \in 0 .. NBars - 1
  BY NyBars
<1> QED
  BY <1>1, NyBars DEF Session, StepIdx

(* It holds when an episode starts. *)
LEMMA OfSessionInit == Init => OfSession
BY FirstSession DEF Init, OfSession, InStep

(* No step breaks it. *)
LEMMA OfSessionNext ==
    ASSUME SessionsAreDates, TypeInv, OfSession, [Next]_vars
    PROVE  OfSession'
<1> USE DEF TypeInv
<1>1. CASE Progress
  BY <1>1, SameBar DEF Progress, OfSession, InStep
<1>2. CASE Reset
  BY <1>2, FirstSession DEF Reset, OfSession, InStep
<1>3. CASE Finish
  <2>1. stage = "finish" /\ prevSession' = prevSession /\ nyPos' = nyPos + 1
    BY <1>3 DEF Finish
  <2>2. stage' = "market" => nyPos + 1 < Len(NyIndices)
    BY <1>3, NyBars DEF Finish, EpisodeOver, TypeOK
  <2>3. stage' = "market" => prevSession' <= Session'
    BY <2>1, <2>2, NextSession DEF OfSession, InStep
  <2> QED
    BY <1>3, <2>3 DEF Finish, OfSession, InStep
<1>4. CASE ~Progress /\ ~Reset /\ ~Finish
  <2>1. nyPos' = nyPos /\ prevSession' = prevSession
    BY <1>4, BarMoves
  <2>2. stage' \in InStep => stage \in InStep
    BY <1>4, BarMoves
  <2>3. stage' = "market" => stage = "market"
    BY <1>4, BarMoves DEF vars
  <2> QED
    BY <2>1, <2>2, <2>3, SameBar DEF OfSession
<1> QED
  BY <1>1, <1>2, <1>3, <1>4

-----------------------------------------------------------------------------
(* The cap on the entries of a session.  An order is decided under the cap *)
(* of one session and may be filled in a later one: it is the only entry   *)
(* to come, and of a later session there has been none.                    *)

CapInv ==
    StrategyActions /\ MaxEntries > 0 =>
      /\ \A s \in Sessions : entries[s] <= MaxEntries
      /\ Running =>
           \A s \in Sessions :
              /\ s > Session => entries[s] = 0
              /\ order # NoOrder /\ s >= Session => entries[s] < MaxEntries
      /\ stage \in Decided /\ loc.intent # 0
         => order = NoOrder /\ entries[Session] < MaxEntries

(* A new episode has no entries. *)
LEMMA CapInit == Init => CapInv
<1>1. MaxEntries \in Nat
  BY EnvAssumption
<1> QED
  BY <1>1 DEF Init, CapInv, Running, InStep, Decided

(* An entry counts for the session of its step. *)
LEMMA EntryCounts ==
    ASSUME NEW dir, NEW lots, NEW quote, TryEnter(dir, lots, quote)
    PROVE  /\ entries' \in {entries, [entries EXCEPT ![Session] = @ + 1]}
           /\ stage' \in {"account", "crashed"}
BY DEF TryEnter

(* No step takes a session beyond its cap. *)
LEMMA CapNext ==
    ASSUME SessionsAreDates, TypeInv, TypeInv', CapInv, [Next]_vars
    PROVE  CapInv'
<1> SUFFICES ASSUME StrategyActions, MaxEntries > 0
             PROVE  CapInv'
  BY DEF CapInv
<1> USE DEF TypeInv
<1>0. /\ MaxEntries \in Nat
      /\ Running => Session \in Sessions /\ Session \in Nat \ {0}
      /\ Sessions \subseteq Nat
      /\ entries \in [Sessions -> Nat]
  <2>1. Sessions \subseteq Nat
    BY NyBars DEF Sessions
  <2> QED
    BY <2>1, RunningPos, CalendarType, EnvAssumption DEF TypeOK
<1>1. CASE FillOrder \/ EnterNow
  <2>1. /\ entries' \in {entries, [entries EXCEPT ![Session] = @ + 1]}
        /\ stage' \in {"account", "crashed"}
    BY <1>1, EntryCounts DEF FillOrder, EnterNow
  <2>2. stage \in {"due", "act"} /\ order' = NoOrder /\ nyPos' = nyPos
    BY <1>1 DEF FillOrder, EnterNow, CapInv, Decided, IntentExecutable
  <2>3. entries[Session] < MaxEntries
    <3>1. CASE FillOrder
      BY <1>0, <2>2, <3>1 DEF FillOrder, CapInv, Running, InStep, DueOrderPending
    <3>2. CASE EnterNow
      BY <2>2, <3>2 DEF EnterNow, CapInv, Decided, IntentExecutable
    <3> QED
      BY <1>1, <3>1, <3>2
  <2>4. Session' = Session /\ Running
    BY <2>2, SameBar DEF Running, InStep
  <2>5. \A s \in Sessions : entries'[s] <= MaxEntries
                             /\ (s > Session => entries'[s] = 0)
    BY <1>0, <2>1, <2>3, <2>4 DEF CapInv
  <2> QED
    BY <2>1, <2>2, <2>4, <2>5 DEF CapInv, Decided, NoOrder
<1>2. CASE SubmitOrder
  <2>1. /\ stage = "act" /\ stage' = "account" /\ loc.intent # 0
        /\ nyPos' = nyPos /\ entries' = entries
    BY <1>2 DEF SubmitOrder, IntentExecutable
  <2>2. entries[Session] < MaxEntries /\ Running /\ Session' = Session
    BY <2>1, SameBar DEF CapInv, Decided, Running, InStep
  <2> QED
    BY <1>0, <2>1, <2>2 DEF CapInv, Decided
<1>3. CASE PrepareIntent
  <2>1. loc'.intent # 0 => EntryAllowed
    BY <1>3 DEF PrepareIntent, TypeOK, Loc
  <2>2. stage = "intent" /\ UNCHANGED <<nyPos, order, entries>>
    BY <1>3 DEF PrepareIntent
  <2>3. loc'.intent # 0 => order = NoOrder /\ entries[Session] < MaxEntries
    BY <1>0, <2>1 DEF EntryAllowed
  <2> QED
    BY <2>2, <2>3, SameBar DEF CapInv, Running, InStep
<1>4. CASE Finish
  <2>1. stage = "finish" /\ stage' \in {"market", "over"} /\ entries' = entries
    BY <1>4 DEF Finish
  <2>2. CASE stage' = "over"
    BY <2>1, <2>2 DEF CapInv, Running, InStep, Decided
  <2>3. CASE stage' = "market"
    <3>1. nyPos + 1 < Len(NyIndices) /\ order' = order /\ nyPos' = nyPos + 1
      BY <1>4, <2>3, NyBars DEF Finish, EpisodeOver, TypeOK
    <3>2. Session' >= Session /\ Session' \in Nat
      <4>1. nyPos + 2 \in 1 .. Len(NyIndices)
        BY <3>1, NyBars DEF TypeOK
      <4>2. NyIndices[nyPos + 2] \in 0 .. NBars - 1
        BY <4>1, NyBars
      <4>3. Session' = SessionOf[NyIndices[nyPos + 2]]
        BY <3>1, NyBars DEF Session, StepIdx, TypeOK
      <4> QED
        BY <3>1, <4>2, <4>3, NextSession, NyBars
    <3> QED
      BY <1>0, <2>1, <2>3, <3>1, <3>2 DEF CapInv, Running, InStep, Decided
  <2> QED
    BY <2>1, <2>2, <2>3
<1>5. CASE Reset
  BY <1>5, <1>0 DEF Reset, CapInv, Running, InStep, Decided
<1>6. CASE CancelOrder
  BY <1>6, SameBar DEF CancelOrder, CapInv, Running, InStep, Decided
<1>7. CASE NoBreach \/ Breach \/ EndExits
  <2>1. /\ loc'.intent = loc.intent /\ UNCHANGED <<nyPos, order, entries>>
        /\ stage \in Decided
    <3>1. loc \in Loc
      BY <1>0 DEF TypeOK
    <3>2. CASE NoBreach
      BY <3>1, <3>2 DEF NoBreach, Decided, Loc
    <3>3. CASE Breach
      BY <3>1, <3>3 DEF Breach, Decided, Loc
    <3>4. CASE EndExits
      BY <3>1, <3>4 DEF EndExits, Decided, Loc
    <3> QED BY <3>2, <3>3, <3>4, <1>7
  <2> QED
    BY <2>1, SameBar DEF CapInv, Running, InStep, Decided
<1>8. CASE \/ Progress \/ ProtectiveExit \/ ManualExit \/ Hold \/ RecordAccounting
           \/ UpdateFunnel \/ ReplayExit \/ ReplayMark \/ ReplayDone
           \/ UNCHANGED vars
  <2>1. /\ UNCHANGED <<nyPos, order, entries>>
        /\ Running' => Running
        /\ stage' \in Decided => stage' = stage /\ loc' = loc
    BY <1>8 DEF Progress, ProtectiveExit, ManualExit, Hold, RecordAccounting,
                UpdateFunnel, ReplayExit, ReplayMark, ReplayDone, vars,
                Running, InStep, Decided
  <2> QED
    BY <2>1, SameBar DEF CapInv
<1> QED
  BY <1>1, <1>2, <1>3, <1>4, <1>5, <1>6, <1>7, <1>8 DEF Next

(* max_entries_per_session counts every entry of a session, also those     *)
(* filled in another step than the one that decided them.                  *)
THEOREM SessionsCapped ==
    ASSUME SessionsAreDates
    PROVE  Spec => []SessionCap
<1>1. Init => TypeInv /\ CapInv
  BY InitType, CapInit
<1>2. TypeInv /\ CapInv /\ [Next]_vars => (TypeInv /\ CapInv)'
  BY NextType, CapNext
<1>3. CapInv => SessionCap
  BY DEF CapInv, SessionCap
<1> QED
  BY <1>1, <1>2, <1>3, PTL DEF Spec

-----------------------------------------------------------------------------
(* The latches of legacy evaluation.  A session is latched in the step of  *)
(* its breach, which closes the position; afterwards every step of it is   *)
(* blocked.                                                                *)

LatchedNow == latch.yearFailed \/ prevSession \in latch.sessions

LatchInv ==
    Latching =>
      /\ \A s \in latch.sessions : s <= prevSession
      /\ LatchedNow => pos = NoPosition
      /\ stage \in Guarded /\ LatchedNow => loc.blocked

(* A new episode has no latch. *)
LEMMA LatchInit == Init => LatchInv
BY DEF Init, LatchInv, LatchedNow, InitialLatch, Guarded

(* No step opens a position in a latched session. *)
LEMMA LatchNext ==
    ASSUME SessionsAreDates, TypeInv, OfSession, LatchInv, [Next]_vars
    PROVE  LatchInv'
<1> SUFFICES ASSUME Latching PROVE LatchInv'
  BY DEF LatchInv, Latching
<1> USE DEF TypeInv
<1>1. CASE Progress
  <2>1. /\ stage = "market" /\ stage' = "intent" /\ latch' = latch
        /\ prevSession' = Session /\ (pos' = pos \/ pos' = NoPosition)
    BY <1>1 DEF Progress
  <2>2. prevSession <= Session /\ prevSession \in Nat /\ Session \in Nat
    BY <2>1, CalendarType DEF OfSession, TypeOK
  <2>3. latch.sessions \subseteq Nat
    BY NyBars DEF TypeOK, Sessions
  <2>4. \A s \in latch.sessions : s <= prevSession
    BY DEF LatchInv
  <2>5. Session \in latch.sessions => prevSession = Session
    BY <2>2, <2>4
  <2>6. LatchedNow' => LatchedNow
    BY <2>1, <2>5 DEF LatchedNow
  <2>7. \A s \in latch.sessions : s <= Session
    BY <2>2, <2>3, <2>4
  <2> QED
    BY <2>1, <2>6, <2>7 DEF LatchInv, Guarded
<1>2. CASE NoBreach
  <2>1. loc'.blocked = Latched /\ UNCHANGED <<pos, latch, prevSession>>
    BY <1>2 DEF NoBreach, KeepBook, TypeOK, Loc
  <2>2. prevSession = Session
    BY <1>2 DEF NoBreach, OfSession, InStep
  <2> QED
    BY <2>1, <2>2 DEF LatchInv, LatchedNow, Latched
<1>3. CASE Breach
  <2>1. prevSession' = Session /\ Session \in Nat
    BY <1>3, CalendarType DEF Breach, OfSession, InStep, TypeOK
  <2>2. loc'.blocked /\ latch'.sessions = latch.sessions \cup {Session}
    BY <1>3 DEF Breach, TypeOK, Loc
  <2>3. pos' = NoPosition
    BY <1>3, CloseAllType DEF Breach, KeepBook, TypeOK, Loc
  <2>4. \A s \in latch.sessions : s <= Session
    BY <1>3, <2>1 DEF Breach, LatchInv
  <2> QED
    BY <2>1, <2>2, <2>3, <2>4 DEF LatchInv
<1>4. CASE FillOrder \/ EnterNow
  <2>1. ~loc.blocked /\ stage \in Guarded /\ UNCHANGED <<latch, prevSession>>
    BY <1>4 DEF FillOrder, EnterNow, OrderExecutable, IntentExecutable, Guarded
  <2> QED
    BY <2>1 DEF LatchInv, LatchedNow
<1>5. CASE Reset
  BY <1>5 DEF Reset, LatchInv, LatchedNow, InitialLatch, Guarded
<1>6. CASE ProtectiveExit \/ ReplayExit
  <2>1. pos # NoPosition /\ UNCHANGED <<stage, latch, prevSession, loc>>
    BY <1>6 DEF ProtectiveExit, ReplayExit
  <2> QED
    BY <2>1 DEF LatchInv, LatchedNow
<1>7. CASE EndExits \/ ManualExit
  <2>1. /\ UNCHANGED <<latch, prevSession>> /\ loc'.blocked = loc.blocked
        /\ stage \in Guarded
    BY <1>7 DEF EndExits, ManualExit, TypeOK, Loc, Guarded
  <2>2. pos' = pos \/ pos' = NoPosition
    BY <1>7, CloseAllType DEF EndExits, ManualExit, KeepBook, TypeOK, Loc
  <2> QED
    BY <2>1, <2>2 DEF LatchInv, LatchedNow
<1>8. CASE PrepareIntent
  BY <1>8 DEF PrepareIntent, LatchInv, LatchedNow, Guarded
<1>9. CASE \/ CancelOrder \/ Hold \/ SubmitOrder \/ RecordAccounting \/ UpdateFunnel
           \/ ReplayMark \/ ReplayDone \/ UNCHANGED vars
  <2>1. /\ UNCHANGED <<pos, latch, prevSession>> /\ loc'.blocked = loc.blocked
        /\ stage' \in Guarded => stage \in Guarded
    BY <1>9 DEF CancelOrder, Hold, SubmitOrder, KeepBook, RecordAccounting,
                UpdateFunnel, ReplayMark, ReplayDone, vars, TypeOK, Loc, Guarded
  <2> QED
    BY <2>1 DEF LatchInv, LatchedNow
<1>10. CASE Finish
  BY <1>10 DEF Finish, LatchInv, LatchedNow, Guarded
<1> QED
  BY <1>1, <1>2, <1>3, <1>4, <1>5, <1>6, <1>7, <1>8, <1>9, <1>10 DEF Next

(* Once a session has breached or the year has failed, no position is open *)
(* when a step begins, whatever was pending when it did.                   *)
THEOREM LatchHolds ==
    ASSUME SessionsAreDates
    PROVE  Spec => []LatchedStaysFlat
<1>1. Init => TypeInv /\ OfSession /\ LatchInv
  BY InitType, OfSessionInit, LatchInit
<1>2. TypeInv /\ OfSession /\ LatchInv /\ [Next]_vars
      => (TypeInv /\ OfSession /\ LatchInv)'
  BY NextType, OfSessionNext, LatchNext
<1>3. LatchInv => LatchedStaysFlat
  BY DEF LatchInv, LatchedNow, LatchedStaysFlat
<1> QED
  BY <1>1, <1>2, <1>3, PTL DEF Spec

-----------------------------------------------------------------------------
(* block_overnight.  At the last NY bar of a session the position is       *)
(* closed when the step begins, and nothing opened there or scheduled for  *)
(* it survives to be executed.                                             *)

GapInv ==
    BlockOvernight =>
      /\ stage = "market" /\ pos # NoPosition => prevSession = Session
      /\ Running /\ order # NoOrder => HasFollowUp(order.fillIdx)
      /\ stage \in Decided /\ loc.intent # 0
         => ~IsBoundary /\ (FillIdx < NBars => HasFollowUp(FillIdx))
      /\ stage \in InStep /\ IsBoundary => pos = NoPosition /\ ~loc.due

(* A new episode is flat and has no order. *)
LEMMA GapInit == Init => GapInv
BY DEF Init, GapInv, Running, InStep, Decided

(* No step carries a position over a boundary. *)
LEMMA GapNext ==
    ASSUME SessionsAreDates, TypeInv, OfSession, GapInv, [Next]_vars
    PROVE  GapInv'
<1> SUFFICES ASSUME BlockOvernight PROVE GapInv'
  BY DEF GapInv
<1> USE DEF TypeInv
<1>1. CASE Progress
  <2>1. /\ stage = "market" /\ stage' = "intent" /\ UNCHANGED <<nyPos, order>>
        /\ loc'.due => order # NoOrder /\ order.fillIdx = MarketFillIdx
        /\ pos # NoPosition /\ IsBoundary => pos' = NoPosition
        /\ pos = NoPosition => pos' = NoPosition
    BY <1>1 DEF Progress, IdleLoc
  <2>2. nyPos < Len(NyIndices) /\ Running
    BY <2>1, RunningPos DEF Running, InStep
  <2>3. IsBoundary => ~loc'.due
    <3> SUFFICES ASSUME IsBoundary, loc'.due PROVE FALSE
      OBVIOUS
    <3>1. HasFollowUp(order.fillIdx)
      BY <2>1, <2>2 DEF GapInv
    <3>2. HasFollowUp(MarketFillIdx)
      BY <2>1, <3>1
    <3> QED
      BY <2>2, <3>2, NoFillAtBoundary
  <2>4. IsBoundary' = IsBoundary
    BY <2>1, SameBar
  <2> QED
    BY <2>1, <2>2, <2>3, <2>4 DEF GapInv, Running, InStep, Decided
<1>2. CASE PrepareIntent
  <2>1. /\ stage = "intent" /\ stage' = "guard"
        /\ UNCHANGED <<nyPos, order, pos>> /\ loc'.due = loc.due
        /\ loc'.intent # 0 => EntryAllowed
    BY <1>2 DEF PrepareIntent, TypeOK, Loc
  <2>2. loc'.intent # 0
        => ~IsBoundary /\ (FillIdx < NBars => HasFollowUp(FillIdx))
    BY <2>1 DEF EntryAllowed
  <2> QED
    BY <2>1, <2>2, SameBar DEF GapInv, Running, InStep, Decided
<1>3. CASE FillOrder \/ EnterNow
  <2>1. /\ stage \in {"due", "act"} /\ stage' \in {"account", "crashed"}
        /\ nyPos' = nyPos /\ loc' = loc /\ order' \in {order, NoOrder}
    BY <1>3, EntryCounts DEF FillOrder, EnterNow
  <2>2. ~IsBoundary
    <3>1. CASE FillOrder
      BY <3>1 DEF FillOrder, GapInv, InStep, DueOrderPending
    <3>2. CASE EnterNow
      BY <3>2 DEF EnterNow, IntentExecutable, GapInv, Decided
    <3> QED
      BY <1>3, <3>1, <3>2
  <2> QED
    BY <2>1, <2>2, SameBar DEF GapInv, Running, InStep, Decided
<1>4. CASE SubmitOrder
  <2>1. /\ stage = "act" /\ stage' = "account" /\ loc.intent # 0
        /\ FillIdx < NBars /\ order'.fillIdx = FillIdx
        /\ UNCHANGED <<nyPos, pos, loc>>
    BY <1>4 DEF SubmitOrder, IntentExecutable, KeepBook
  <2>2. HasFollowUp(FillIdx)
    BY <2>1 DEF GapInv, Decided
  <2>3. HasFollowUp(order'.fillIdx)
    BY <2>1, <2>2
  <2> QED
    BY <2>1, <2>3, SameBar DEF GapInv, Running, InStep, Decided
<1>5. CASE Finish
  <2>1. /\ stage = "finish" /\ stage' \in {"market", "over"}
        /\ UNCHANGED <<pos, prevSession>> /\ prevSession = Session
        /\ order' \in {order, NoOrder}
    BY <1>5 DEF Finish, OfSession, InStep
  <2>2. ASSUME stage' = "market", pos # NoPosition PROVE prevSession' = Session'
    <3>1. nyPos + 1 < Len(NyIndices) /\ nyPos' = nyPos + 1
      BY <1>5, <2>2, NyBars DEF Finish, EpisodeOver, TypeOK
    <3>2. ~IsBoundary
      BY <2>1, <2>2 DEF GapInv, InStep
    <3> QED
      BY <2>1, <3>1, <3>2, NextSession
  <2> QED
    BY <2>1, <2>2 DEF GapInv, Running, InStep, Decided
<1>6. CASE Reset
  BY <1>6 DEF Reset, GapInv, Running, InStep, Decided
<1>7. CASE \/ NoBreach \/ Breach \/ ProtectiveExit \/ EndExits \/ ManualExit
           \/ ReplayExit \/ ReplayMark
  <2>1. /\ UNCHANGED <<nyPos, order>>
        /\ loc'.intent = loc.intent /\ loc'.due = loc.due
        /\ stage \in InStep /\ stage' \in InStep
        /\ stage' \in Decided => stage \in Decided
    BY <1>7 DEF NoBreach, Breach, ProtectiveExit, EndExits, ManualExit,
                ReplayExit, ReplayMark, TypeOK, Loc, InStep, Decided
  <2>2. pos = NoPosition => pos' = NoPosition
    BY <1>7 DEF NoBreach, Breach, ProtectiveExit, EndExits, ManualExit,
                ReplayExit, ReplayMark, KeepBook
  <2> QED
    BY <2>1, <2>2, SameBar DEF GapInv, Running, InStep
<1>8. CASE \/ CancelOrder \/ Hold \/ RecordAccounting \/ UpdateFunnel
           \/ ReplayDone \/ UNCHANGED vars
  <2>1. /\ UNCHANGED <<nyPos, pos, prevSession>> /\ order' \in {order, NoOrder}
        /\ loc'.intent = loc.intent /\ loc'.due = loc.due
        /\ stage' \in InStep => stage \in InStep
        /\ stage' \in Decided => stage \in Decided
        /\ stage' = "market" => stage = "market"
    BY <1>8 DEF CancelOrder, Hold, KeepBook, RecordAccounting, UpdateFunnel,
                ReplayDone, vars, TypeOK, Loc, InStep, Decided
  <2> QED
    BY <2>1, SameBar DEF GapInv, Running
<1> QED
  BY <1>1, <1>2, <1>3, <1>4, <1>5, <1>6, <1>7, <1>8 DEF Next

(* No position is carried into another session, however late its fill.     *)
THEOREM NothingOverGap ==
    ASSUME SessionsAreDates
    PROVE  Spec => []FlatOverGap
<1>1. Init => TypeInv /\ OfSession /\ GapInv
  BY InitType, OfSessionInit, GapInit
<1>2. TypeInv /\ OfSession /\ GapInv /\ [Next]_vars
      => (TypeInv /\ OfSession /\ GapInv)'
  BY NextType, OfSessionNext, GapNext
<1>3. GapInv => FlatOverGap
  BY DEF GapInv, FlatOverGap, SessionChanges
<1> QED
  BY <1>1, <1>2, <1>3, PTL DEF Spec

-----------------------------------------------------------------------------
(* Recording of breaches.  In the last step of a session nothing touches   *)
(* the account after its guardrails were checked.                          *)

SeenInv ==
    BlockOvernight /\ Latching =>
      /\ stage \in Guarded /\ IsBoundary
         => BreachReason(acct) = "none" \/ LatchedNow
      /\ NoUnseenBreach

(* A new episode has no session to end. *)
LEMMA SeenInit == Init => SeenInv
BY DEF Init, SeenInv, Guarded, NoUnseenBreach, SessionChanges

(* No step moves the account of a session that is over. *)
LEMMA SeenNext ==
    ASSUME SessionsAreDates, TypeInv, OfSession, GapInv, SeenInv, [Next]_vars
    PROVE  SeenInv'
<1> SUFFICES ASSUME BlockOvernight, Latching PROVE SeenInv'
  BY DEF SeenInv, Latching
<1> USE DEF TypeInv
<1>0. ~RepeatedPayout
  BY DEF Latching
<1>1. CASE NoBreach
  <2>1. /\ stage' = "exits" /\ UNCHANGED <<acct, latch, prevSession>>
        /\ Latched \/ BreachReason(acct) = "none"
        /\ prevSession = Session
    BY <1>1 DEF NoBreach, KeepBook, OfSession, InStep
  <2>2. BreachReason(acct') = "none" \/ LatchedNow'
    BY <2>1 DEF Latched, LatchedNow
  <2> QED
    BY <2>1, <2>2 DEF SeenInv, NoUnseenBreach, SessionChanges
<1>2. CASE Breach
  <2>1. /\ stage' = "exits" /\ prevSession' = Session
        /\ latch'.sessions = latch.sessions \cup {Session}
    BY <1>2 DEF Breach, OfSession, InStep
  <2> QED
    BY <2>1 DEF SeenInv, LatchedNow, NoUnseenBreach, SessionChanges
<1>3. CASE \/ ProtectiveExit \/ EndExits \/ FillOrder \/ CancelOrder
           \/ ManualExit \/ Hold \/ SubmitOrder \/ EnterNow
           \/ RecordAccounting \/ UpdateFunnel
           \/ ReplayExit \/ ReplayMark \/ ReplayDone
  <2>1. /\ UNCHANGED <<nyPos, latch, prevSession>>
        /\ stage \in Guarded /\ stage' # "market"
    BY <1>3 DEF ProtectiveExit, EndExits, FillOrder, CancelOrder, ManualExit,
                Hold, SubmitOrder, EnterNow, TryEnter, RecordAccounting,
                UpdateFunnel, ReplayExit, ReplayMark, ReplayDone, Guarded
  <2>2. ASSUME IsBoundary PROVE acct' = acct
    <3>1. pos = NoPosition /\ ~loc.due
      BY <2>1, <2>2 DEF GapInv, InStep, Guarded
    <3>2. CASE ProtectiveExit \/ ManualExit \/ ReplayExit \/ ReplayMark
      BY <3>1, <3>2 DEF ProtectiveExit, ManualExit, ReplayExit, ReplayMark
    <3>3. CASE FillOrder
      BY <3>1, <3>3 DEF FillOrder, DueOrderPending
    <3>4. CASE EnterNow
      BY <2>2, <3>4 DEF EnterNow, IntentExecutable, GapInv, Decided
    <3>5. CASE EndExits \/ CancelOrder \/ Hold \/ SubmitOrder
      BY <3>1, <3>5 DEF EndExits, CancelOrder, Hold, SubmitOrder, KeepBook
    <3>6. CASE RecordAccounting \/ UpdateFunnel \/ ReplayDone
      BY <1>0, <3>6 DEF RecordAccounting, PayoutTaken, UpdateFunnel, ReplayDone
    <3> QED
      BY <1>3, <3>2, <3>3, <3>4, <3>5, <3>6
  <2>3. IsBoundary' => BreachReason(acct') = "none" \/ LatchedNow'
    BY <2>1, <2>2, SameBar DEF SeenInv, LatchedNow
  <2> QED
    BY <2>1, <2>3 DEF SeenInv, NoUnseenBreach, SessionChanges
<1>4. CASE Finish
  <2>1. /\ stage = "finish" /\ stage' \in {"market", "over"}
        /\ UNCHANGED <<acct, latch, prevSession>> /\ prevSession = Session
    BY <1>4 DEF Finish, OfSession, InStep
  <2>2. ASSUME stage' = "market", prevSession' # Session',
               BreachReason(acct') # "none"
        PROVE  LatchedNow'
    <3>1. nyPos + 1 < Len(NyIndices) /\ nyPos' = nyPos + 1
      BY <1>4, <2>2, NyBars DEF Finish, EpisodeOver, TypeOK
    <3>2. IsBoundary
      BY <2>1, <2>2, <3>1, NextSession
    <3> QED
      BY <2>1, <2>2, <3>2 DEF SeenInv, Guarded, LatchedNow
  <2> QED
    BY <2>1, <2>2 DEF SeenInv, Guarded, NoUnseenBreach, SessionChanges, LatchedNow
<1>5. CASE Reset
  BY <1>5 DEF Reset, SeenInv, Guarded, NoUnseenBreach, SessionChanges
<1>6. CASE Progress \/ PrepareIntent
  BY <1>6 DEF Progress, PrepareIntent, SeenInv, Guarded, NoUnseenBreach,
              SessionChanges
<1>7. CASE UNCHANGED vars
  <2>1. UNCHANGED <<stage, nyPos, acct, latch, prevSession>>
    BY <1>7 DEF vars
  <2>2. NoUnseenBreach'
    BY <2>1, SameBar DEF SeenInv, NoUnseenBreach, SessionChanges
  <2> QED
    BY <2>1, <2>2, SameBar DEF SeenInv, LatchedNow
<1> QED
  BY <1>1, <1>2, <1>3, <1>4, <1>5, <1>6, <1>7 DEF Next

(* A session that ends beyond a limit has been recorded as a breach before *)
(* the next one clears its daily loss.                                     *)
THEOREM BreachesSeen ==
    ASSUME SessionsAreDates
    PROVE  Spec => []NoUnseenBreach
<1>1. Init => TypeInv /\ OfSession /\ GapInv /\ SeenInv
  BY InitType, OfSessionInit, GapInit, SeenInit
<1>2. TypeInv /\ OfSession /\ GapInv /\ SeenInv /\ [Next]_vars
      => (TypeInv /\ OfSession /\ GapInv /\ SeenInv)'
  BY NextType, OfSessionNext, GapNext, SeenNext
<1>3. SeenInv => NoUnseenBreach
  BY DEF SeenInv, NoUnseenBreach
<1> QED
  BY <1>1, <1>2, <1>3, PTL DEF Spec

-----------------------------------------------------------------------------
(* The entry machine and the position.  FsmMatchesPosition needs to know   *)
(* why an entry is only asked of an armed machine: without a fill latency  *)
(* the intent of a step is the armed direction, and nothing between        *)
(* _prepare_action_intent and _execute_step_action touches the machine.    *)

FsmInv ==
    /\ UseFsm /\ Latency = 0 =>
         /\ pos # NoPosition => fsm.state = "IN_POSITION" /\ fsm.dir = pos.dir
         /\ stage = "market" /\ fsm.state = "IN_POSITION" => pos # NoPosition
         /\ order = NoOrder /\ stage # "due" /\ ~loc.due
         /\ stage \in {"guard", "exits", "act"} /\ loc.intent # 0
            => fsm.state = "ARMED" /\ fsm.dir = loc.intent
    /\ (UseFsm => Latency = 0) => stage # "crashed"

(* A partial close keeps the direction of what is left; what is closed     *)
(* completely leaves an account whose equity is its balance.               *)
LEMMA ClosePartEffect ==
    ASSUME TypeOK, pos # NoPosition,
           NEW lots \in 1 .. pos.size, NEW quote \in Int,
           ClosePart(lots, quote)
    PROVE  /\ pos' # NoPosition => pos'.dir = pos.dir
           /\ pos' = NoPosition => acct'.equity = acct'.balance /\ acct'.openPnl = 0
<1>1. pos \in Position
  BY DEF TypeOK
<1>2. pos' # NoPosition => pos'.dir = pos.dir
  BY <1>1, RemainderType DEF ClosePart
<1>3. ASSUME pos' = NoPosition
      PROVE  acct'.equity = acct'.balance /\ acct'.openPnl = 0
  <2>1. lots = pos.size
    BY <1>1, <1>3, RemainderType, PositionIsOpen DEF ClosePart
  <2> QED
    BY <1>1, <2>1, CloseType DEF ClosePart, TypeOK
<1> QED
  BY <1>2, <1>3

(* An entry attempt from flat opens nothing, or a position in its          *)
(* direction, for which the machine was marked if it could be.             *)
LEMMA TryEnterFromFlat ==
    ASSUME TypeOK, pos = NoPosition,
           NEW dir \in Sides, NEW lots \in LotSizes \cup {0},
           NEW quote \in Prices, TryEnter(dir, lots, quote)
    PROVE  /\ stage' # "market"
           /\ \/ UNCHANGED <<pos, fsm, acct>> /\ stage' = "account"
              \/ /\ pos' # NoPosition /\ pos'.dir = dir
                 /\ UseFsm /\ CanMarkEntered(fsm)
                    => fsm' = MarkEntered(fsm) /\ stage' = "account"
                 /\ ~UseFsm => stage' = "account"
<1> DEFINE opens == CanOpen(acct, lots) /\ CapacityAllows(acct, lots)
<1>1. CASE opens
  BY <1>1 DEF TryEnter, Opened, NoPosition, Sides
<1>2. CASE ~opens
  BY <1>2 DEF TryEnter
<1> QED
  BY <1>1, <1>2

(* The invariant holds when an episode starts. *)
LEMMA FsmInit == Init => FsmInv
BY DEF Init, FsmInv, Cleared, IdleLoc

(* No step breaks it. *)
LEMMA FsmNext == TypeInv /\ FsmInv /\ [Next]_vars => FsmInv'
<1> SUFFICES ASSUME TypeOK, FsmInv, [Next]_vars PROVE FsmInv'
  BY DEF TypeInv
<1>0. Prices \subseteq Int
  BY EnvAssumption
<1>1. CASE Progress
  <2>1. stage' = "intent" /\ UNCHANGED <<fsm, order>>
    BY <1>1 DEF Progress
  <2>2. pos' = pos \/ pos' = NoPosition
    BY <1>1 DEF Progress
  <2>3. order = NoOrder => ~loc'.due
    <3>1. PICK next \in Prices \cup {price} :
              loc' = [IdleLoc EXCEPT
                        !.next = next,
                        !.due = order # NoOrder /\ order.fillIdx = MarketFillIdx]
      BY <1>1 DEF Progress
    <3> QED
      BY <3>1 DEF IdleLoc
  <2> QED
    BY <2>1, <2>2, <2>3 DEF FsmInv
<1>2. CASE PrepareIntent
  <2>1. PICK action \in {-1, 0, 1}, gate \in BOOLEAN :
            loc' = [loc EXCEPT
                      !.intent = IF EntryAllowed /\ gate THEN Requested(action) ELSE 0]
    BY <1>2 DEF PrepareIntent
  <2>2. UseFsm /\ loc'.intent # 0 => fsm.state = "ARMED" /\ fsm.dir = loc'.intent
    BY <2>1 DEF Requested, TypeOK, Loc
  <2>3. loc'.due = loc.due
    BY <2>1 DEF TypeOK, Loc
  <2> QED
    BY <1>2, <2>2, <2>3 DEF PrepareIntent, FsmInv
<1>3. CASE NoBreach
  <2>1. loc'.due = loc.due /\ loc'.intent = loc.intent
    BY <1>3 DEF NoBreach, TypeOK, Loc
  <2> QED
    BY <1>3, <2>1 DEF NoBreach, KeepBook, FsmInv
<1>4. CASE Breach
  <2>1. loc'.due = loc.due /\ loc'.intent = loc.intent
    BY <1>4 DEF Breach, TypeOK, Loc
  <2>2. pos' = NoPosition
    BY <1>4, CloseAllType DEF Breach, KeepBook, TypeOK, Loc
  <2> QED
    BY <1>4, <2>1, <2>2 DEF Breach, FsmInv
<1>5. CASE ProtectiveExit
  <2>1. PICK lots \in 1 .. pos.size, quote \in Prices : ClosePart(lots, quote)
    BY <1>5 DEF ProtectiveExit
  <2>2. pos # NoPosition /\ (pos' # NoPosition => pos'.dir = pos.dir)
    BY <1>0, <1>5, <2>1, ClosePartEffect DEF ProtectiveExit
  <2> QED
    BY <1>5, <2>2 DEF ProtectiveExit, FsmInv
<1>6. CASE EndExits
  <2>1. loc'.due = loc.due /\ loc'.intent = loc.intent
    BY <1>6 DEF EndExits, TypeOK, Loc
  <2>2. pos' = pos \/ pos' = NoPosition
    BY <1>6, CloseAllType DEF EndExits, KeepBook, TypeOK, Loc
  <2>3. stage' \in {"due", "account", "act"} /\ (stage' = "due" => loc.due)
    BY <1>6 DEF EndExits
  <2> QED
    BY <1>6, <2>1, <2>2, <2>3 DEF EndExits, FsmInv
<1>7. CASE FillOrder
  <2>1. ~UseFsm \/ Latency # 0
    BY <1>7 DEF FillOrder, FsmInv
  <2>2. ~UseFsm => stage' # "crashed"
    BY <1>7 DEF FillOrder, TryEnter
  <2> QED
    BY <2>1, <2>2 DEF FsmInv
<1>8. CASE CancelOrder
  BY <1>8 DEF CancelOrder, FsmInv
<1>9. CASE ManualExit
  <2>1. pos' = NoPosition
    BY <1>9, CloseAllType DEF ManualExit, TypeOK, Loc
  <2> QED
    BY <1>9, <2>1 DEF ManualExit, FsmInv
<1>10. CASE Hold
  BY <1>10 DEF Hold, KeepBook, FsmInv
<1>11. CASE SubmitOrder
  BY <1>11 DEF SubmitOrder, KeepBook, FsmInv
<1>12. CASE EnterNow
  <2>1. PICK lots \in LotSizes \cup {0}, quote \in Prices :
            TryEnter(loc.intent, lots, quote)
    BY <1>12 DEF EnterNow
  <2>2. stage = "act" /\ loc.intent \in Sides /\ UNCHANGED <<order, loc>>
    BY <1>12 DEF EnterNow, IntentExecutable, TypeOK, Loc, Sides
  <2>3. CASE ~UseFsm
    BY <2>1, <2>3 DEF TryEnter, FsmInv
  <2>4. CASE UseFsm /\ Latency # 0
    BY <1>12, <2>4 DEF EnterNow
  <2>5. CASE UseFsm /\ Latency = 0
    <3>1. fsm.state = "ARMED" /\ fsm.dir = loc.intent
      BY <2>2, <2>5 DEF FsmInv, Sides
    <3>2. pos = NoPosition
      BY <2>5, <3>1 DEF FsmInv
    <3>3. MarkEntered(fsm).state = "IN_POSITION" /\ MarkEntered(fsm).dir = fsm.dir
      BY DEF MarkEntered, TypeOK, EntryMachine
    <3>4. stage' = "account"
      BY <2>1, <2>2, <2>5, <3>1, <3>2, TryEnterFromFlat DEF CanMarkEntered
    <3>5. pos' # NoPosition => fsm'.state = "IN_POSITION" /\ fsm'.dir = pos'.dir
      BY <2>1, <2>2, <2>5, <3>1, <3>2, <3>3, TryEnterFromFlat DEF CanMarkEntered
    <3> QED
      BY <2>2, <2>5, <3>4, <3>5 DEF FsmInv
  <2> QED
    BY <2>3, <2>4, <2>5
<1>13. CASE RecordAccounting
  <2>1. loc'.due = loc.due
    BY <1>13 DEF RecordAccounting, TypeOK, Loc
  <2> QED
    BY <1>13, <2>1 DEF RecordAccounting, FsmInv
<1>14. CASE UpdateFunnel
  <2>1. stage' \in {"replay", "finish"} /\ UNCHANGED <<pos, order, loc>>
    BY <1>14 DEF UpdateFunnel
  <2>2. UseFsm /\ fsm.state = "IN_POSITION" /\ pos # NoPosition => fsm' = fsm
    BY <1>14 DEF UpdateFunnel
  <2> QED
    BY <2>1, <2>2 DEF FsmInv
<1>15. CASE ReplayExit
  <2>1. PICK lots \in 1 .. pos.size, quote \in Prices : ClosePart(lots, quote)
    BY <1>15 DEF ReplayExit
  <2>2. pos # NoPosition /\ (pos' # NoPosition => pos'.dir = pos.dir)
    BY <1>0, <1>15, <2>1, ClosePartEffect DEF ReplayExit
  <2> QED
    BY <1>15, <2>2 DEF ReplayExit, FsmInv
<1>16. CASE ReplayMark
  BY <1>16 DEF ReplayMark, FsmInv
<1>17. CASE ReplayDone
  BY <1>17 DEF ReplayDone, FsmInv
<1>18. CASE Finish
  <2>1. stage' \in {"over", "market"} /\ pos' = pos
    BY <1>18 DEF Finish
  <2>2. order = NoOrder => order' = NoOrder /\ (loc' = loc \/ loc' = IdleLoc)
    BY <1>18 DEF Finish
  <2>3. UseFsm /\ pos = NoPosition => fsm'.state # "IN_POSITION"
    BY <1>18 DEF Finish, MarkClosed, Cleared
  <2>4. pos # NoPosition => fsm' = fsm
    BY <1>18 DEF Finish
  <2> QED
    BY <2>1, <2>2, <2>3, <2>4, IdleLocType DEF FsmInv
<1>19. CASE Reset
  BY <1>19 DEF Reset, FsmInv, Cleared, IdleLoc
<1>20. CASE UNCHANGED vars
  BY <1>20 DEF vars, FsmInv
<1> QED
  BY <1>1, <1>2, <1>3, <1>4, <1>5, <1>6, <1>7, <1>8, <1>9, <1>10, <1>11,
     <1>12, <1>13, <1>14, <1>15, <1>16, <1>17, <1>18, <1>19, <1>20 DEF Next

(* With the entry machine on and orders filled at once, the machine is     *)
(* IN_POSITION with the position's direction exactly while the broker has  *)
(* one (mark_entered, mark_closed).                                        *)
THEOREM FsmTracksPosition == Spec => []FsmMatchesPosition
<1>1. Init => TypeInv /\ FsmInv
  BY InitType, FsmInit
<1>2. TypeInv /\ FsmInv /\ [Next]_vars => (TypeInv /\ FsmInv)'
  BY NextType, FsmNext
<1>3. FsmInv => FsmMatchesPosition
  BY DEF FsmInv, FsmMatchesPosition
<1> QED
  BY <1>1, <1>2, <1>3, PTL DEF Spec

(* mark_entered never raises when orders are filled at once, nor when the  *)
(* entry machine is off.                                                   *)
THEOREM NoIllegalCall ==
    ASSUME UseFsm => Latency = 0
    PROVE  Spec => []NoIllegalFsmCall
<1>1. Init => TypeInv /\ FsmInv
  BY InitType, FsmInit
<1>2. TypeInv /\ FsmInv /\ [Next]_vars => (TypeInv /\ FsmInv)'
  BY NextType, FsmNext
<1>3. FsmInv => NoIllegalFsmCall
  BY DEF FsmInv, NoIllegalFsmCall
<1> QED
  BY <1>1, <1>2, <1>3, PTL DEF Spec

-----------------------------------------------------------------------------
(* The flat account *)

(* A new account is flat. *)
LEMMA FlatInit == Init => FlatEquityIsBalance
BY DEF Init, NewAccount, FlatEquityIsBalance

(* Every way of getting rid of a position leaves equity at the balance,    *)
(* and what happens while flat keeps it there.                             *)
LEMMA FlatNext == TypeInv /\ FlatEquityIsBalance /\ [Next]_vars => FlatEquityIsBalance'
<1> SUFFICES ASSUME TypeOK, FlatEquityIsBalance, [Next]_vars, pos' = NoPosition
             PROVE  acct'.equity = acct'.balance /\ acct'.openPnl = 0
  BY DEF TypeInv, FlatEquityIsBalance
<1> DEFINE Flat(a) == a.equity = a.balance /\ a.openPnl = 0
<1>0. Prices \subseteq Int /\ LotSizes \subseteq Nat \ {0}
  BY EnvAssumption
<1>a. pos = NoPosition => Flat(acct)
  BY DEF FlatEquityIsBalance
<1>1. CASE Progress
  <2> DEFINE anchored == IF prevSession \notin {0, Session}
                         THEN ResetDaily(acct) ELSE acct
             marked == IF pos = NoPosition THEN anchored
                       ELSE MarkToMarket(anchored, pos, price)
             sessionEnd == BlockOvernight /\ pos # NoPosition /\ IsBoundary
  <2>1. CASE pos = NoPosition
    <3>1. acct' = anchored
      BY <1>1, <2>1 DEF Progress
    <3> QED
      BY <1>a, <2>1, <3>1 DEF ResetDaily
  <2>2. CASE pos # NoPosition
    <3>1. pos \in Position /\ pos.size \in 1 .. pos.size
      BY <2>2 DEF TypeOK, Position
    <3>2. marked \in Account
      <4>1. anchored \in Account
        BY ResetDailyType DEF TypeOK
      <4> HIDE DEF anchored
      <4> QED
        BY <3>1, <4>1, MarkType DEF TypeOK
    <3>3. acct' = ClosePosition(marked, pos, pos.size, price)
      BY <1>1, <2>2 DEF Progress
    <3> HIDE DEF marked
    <3> QED
      BY <3>1, <3>2, <3>3, CloseType DEF TypeOK
  <2> QED
    BY <2>1, <2>2
<1>2. CASE Breach
  <2>1. CASE pos = NoPosition
    BY <1>2, <1>a, <2>1 DEF Breach, KeepBook
  <2>2. CASE pos # NoPosition
    BY <1>2, <2>2, CloseAllType DEF Breach, TypeOK, Loc
  <2> QED
    BY <2>1, <2>2
<1>3. CASE ProtectiveExit \/ ReplayExit
  <2>1. PICK lots \in 1 .. pos.size, quote \in Prices : ClosePart(lots, quote)
    BY <1>3 DEF ProtectiveExit, ReplayExit
  <2> QED
    BY <1>0, <1>3, <2>1, ClosePartEffect DEF ProtectiveExit, ReplayExit
<1>4. CASE EndExits
  <2>1. CASE PeakDdReached /\ pos # NoPosition
    BY <1>4, <2>1, CloseAllType DEF EndExits, TypeOK, Loc
  <2>2. CASE ~(PeakDdReached /\ pos # NoPosition)
    BY <1>4, <1>a, <2>2 DEF EndExits, KeepBook
  <2> QED
    BY <2>1, <2>2
<1>5. ASSUME NEW dir \in {-1, 0, 1}, NEW lots \in LotSizes \cup {0},
             NEW quote \in Prices, TryEnter(dir, lots, quote)
      PROVE  Flat(acct')
  <2> DEFINE flips == pos # NoPosition /\ pos.dir # dir
             after == IF flips THEN ClosePosition(acct, pos, pos.size, quote)
                      ELSE acct
             opens == /\ pos = NoPosition \/ flips
                      /\ CanOpen(after, lots)
                      /\ CapacityAllows(after, lots)
  <2>1. ~opens
    BY <1>0, <1>5 DEF TryEnter, Opened, NoPosition, CanOpen
  <2>2. acct' = after
    BY <1>5, <2>1 DEF TryEnter
  <2>3. CASE flips
    <3>1. pos \in Position /\ pos.size \in 1 .. pos.size
      BY <2>3 DEF TypeOK, Position
    <3> QED
      BY <1>0, <2>2, <2>3, <3>1, CloseType DEF TypeOK
  <2>4. CASE ~flips
    <3>1. pos' = pos
      BY <1>5, <2>1, <2>4 DEF TryEnter
    <3> QED
      BY <1>a, <2>2, <2>4, <3>1
  <2> QED
    BY <2>3, <2>4
<1>6. CASE FillOrder
  BY <1>5, <1>6 DEF FillOrder, TypeOK, NoOrder, Sides
<1>7. CASE EnterNow
  BY <1>5, <1>7 DEF EnterNow, TypeOK, Loc
<1>8. CASE ManualExit
  BY <1>8, CloseAllType DEF ManualExit, TypeOK, Loc
<1>9. CASE RecordAccounting
  BY <1>9, <1>a DEF RecordAccounting, ResetOperatingBalance
<1>10. CASE ReplayMark
  BY <1>10 DEF ReplayMark
<1>11. CASE Reset
  BY <1>11 DEF Reset, NewAccount
<1>12. CASE \/ PrepareIntent \/ NoBreach \/ CancelOrder \/ Hold \/ SubmitOrder
            \/ UpdateFunnel \/ ReplayDone \/ Finish \/ UNCHANGED vars
  <2>1. UNCHANGED <<pos, acct>>
    BY <1>12 DEF PrepareIntent, NoBreach, CancelOrder, Hold, SubmitOrder,
                 KeepBook, UpdateFunnel, ReplayDone, Finish, vars
  <2> QED
    BY <1>a, <2>1
<1> QED
  BY <1>1, <1>2, <1>3, <1>4, <1>6, <1>7, <1>8, <1>9, <1>10, <1>11, <1>12 DEF Next

(* Whatever sequence of partial closes, flips, refused entries and payouts *)
(* led there, a flat account has no unrealised part.                       *)
THEOREM FlatAccount == Spec => []FlatEquityIsBalance
<1>1. Init => TypeInv /\ FlatEquityIsBalance
  BY InitType, FlatInit
<1>2. TypeInv /\ FlatEquityIsBalance /\ [Next]_vars => (TypeInv /\ FlatEquityIsBalance)'
  BY NextType, FlatNext
<1> QED
  BY <1>1, <1>2, PTL DEF Spec

-----------------------------------------------------------------------------
(* The terminal breach.  `done` is decided in the guard and read at the    *)
(* very end of the step: nothing in between may lower it again.            *)

TerminalInv ==
    (Episodic \/ RepeatedPayout) /\ latch.breached => loc.done /\ stage # "market"

(* An episode starts without a breach. *)
LEMMA TerminalInit == Init => TerminalInv
BY DEF Init, TerminalInv, InitialLatch

(* No step lets a breached rollout go on. *)
LEMMA TerminalNext == TypeInv /\ TerminalInv /\ [Next]_vars => TerminalInv'
<1> SUFFICES ASSUME TypeOK, TerminalInv, [Next]_vars, Episodic \/ RepeatedPayout,
                    latch'.breached
             PROVE  loc'.done /\ stage' # "market"
  BY DEF TypeInv, TerminalInv
<1>1. CASE Breach
  <2>1. loc'.done = ~Latching
    BY <1>1 DEF Breach, TypeOK, Loc
  <2> QED
    BY <1>1, <2>1 DEF Breach, Latching
<1>2. CASE Reset
  BY <1>2 DEF Reset, InitialLatch
<1>3. CASE Finish
  <2>1. loc.done
    BY <1>3 DEF Finish, TerminalInv
  <2>2. EpisodeOver
    BY <2>1 DEF EpisodeOver
  <2> QED
    BY <1>3, <2>1, <2>2 DEF Finish, TypeOK, Loc
<1>4. CASE Progress
  BY <1>4 DEF Progress, TerminalInv
<1>5. CASE FillOrder \/ EnterNow
  BY <1>5 DEF FillOrder, EnterNow, TryEnter, TerminalInv
<1>6. CASE PrepareIntent \/ NoBreach \/ EndExits \/ CancelOrder \/ RecordAccounting
  BY <1>6 DEF PrepareIntent, NoBreach, EndExits, CancelOrder, RecordAccounting,
              TerminalInv, TypeOK, Loc
<1>7. CASE ProtectiveExit \/ ManualExit \/ Hold \/ SubmitOrder \/ UpdateFunnel
           \/ ReplayExit \/ ReplayMark \/ ReplayDone \/ UNCHANGED vars
  BY <1>7 DEF ProtectiveExit, ManualExit, Hold, SubmitOrder, UpdateFunnel,
              ReplayExit, ReplayMark, ReplayDone, vars, TerminalInv
<1> QED
  BY <1>1, <1>2, <1>3, <1>4, <1>5, <1>6, <1>7 DEF Next

(* Training, and every repeated-payout rollout, ends with the step of its  *)
(* first breach.                                                           *)
THEOREM TerminalBreach == Spec => []BreachIsTerminal
<1>1. Init => TypeInv /\ TerminalInv
  BY InitType, TerminalInit
<1>2. TypeInv /\ TerminalInv /\ [Next]_vars => (TypeInv /\ TerminalInv)'
  BY NextType, TerminalNext
<1>3. TerminalInv => BreachIsTerminal
  BY DEF TerminalInv, BreachIsTerminal
<1> QED
  BY <1>1, <1>2, <1>3, PTL DEF Spec

-----------------------------------------------------------------------------
(* The drawdown ceiling.  peak_block is decided after the exits and read   *)
(* by the fill and the entry: the account must not move in between.        *)

CeilingInv == stage \in {"due", "act"} /\ ~loc.peakBlock => ~PeakDdReached

(* An episode starts before its first fill. *)
LEMMA CeilingInit == Init => CeilingInv
BY DEF Init, CeilingInv

(* Only the end of the exits leads to a fill or an entry. *)
LEMMA CeilingNext == TypeInv /\ CeilingInv /\ [Next]_vars => CeilingInv'
<1> SUFFICES ASSUME TypeOK, CeilingInv, [Next]_vars PROVE CeilingInv'
  BY DEF TypeInv
<1>1. CASE EndExits
  <2>1. loc'.peakBlock = PeakDdReached
    BY <1>1 DEF EndExits, TypeOK, Loc
  <2>2. ~PeakDdReached => acct' = acct
    BY <1>1 DEF EndExits, KeepBook
  <2>3. ~PeakDdReached => ~PeakDdReached'
    BY <2>2 DEF PeakDdReached, TrailingDrawdownAtLeast
  <2> QED
    BY <2>1, <2>3 DEF CeilingInv
<1>2. CASE UNCHANGED vars
  BY <1>2 DEF vars, CeilingInv, PeakDdReached, TrailingDrawdownAtLeast
<1>3. CASE ~EndExits /\ ~UNCHANGED vars
  <2>1. stage' \notin {"due", "act"}
    BY <1>3 DEF Next, Progress, PrepareIntent, NoBreach, Breach, ProtectiveExit,
                FillOrder, CancelOrder, ManualExit, Hold, SubmitOrder, EnterNow,
                TryEnter, RecordAccounting, UpdateFunnel, ReplayExit, ReplayMark,
                ReplayDone, Finish, Reset
  <2> QED
    BY <2>1 DEF CeilingInv
<1> QED
  BY <1>1, <1>2, <1>3

(* Only a fill and an entry open a position from flat. *)
LEMMA OpensBy == [Next]_vars /\ Opens => FillOrder \/ EnterNow
<1> SUFFICES ASSUME [Next]_vars, Opens, ~FillOrder, ~EnterNow PROVE FALSE
  OBVIOUS
<1>1. pos = NoPosition /\ pos' # NoPosition
  BY DEF Opens
<1> QED
  BY <1>1 DEF Next, vars, Progress, PrepareIntent, NoBreach, Breach, KeepBook,
     ProtectiveExit, EndExits, CancelOrder, ManualExit, Hold, SubmitOrder,
     RecordAccounting, UpdateFunnel, ReplayExit, ReplayMark, ReplayDone, Finish,
     Reset

(* No entry from flat happens at the ceiling of the drawdown, the exits of *)
(* the same step included.                                                 *)
THEOREM CeilingHonoured == Spec => NoEntryAtCeiling
<1>1. Init => TypeInv /\ CeilingInv
  BY InitType, CeilingInit
<1>2. TypeInv /\ CeilingInv /\ [Next]_vars => (TypeInv /\ CeilingInv)'
  BY NextType, CeilingNext
<1>3. TypeInv /\ CeilingInv /\ [Next]_vars => [Opens => ~PeakDdReached]_vars
  <2> SUFFICES ASSUME TypeInv, CeilingInv, [Next]_vars, Opens PROVE ~PeakDdReached
    OBVIOUS
  <2>1. FillOrder \/ EnterNow
    BY OpensBy
  <2>2. stage \in {"due", "act"} /\ ~loc.peakBlock
    BY <2>1 DEF FillOrder, OrderExecutable, EnterNow, IntentExecutable
  <2> QED
    BY <2>2 DEF CeilingInv
<1> QED
  BY <1>1, <1>2, <1>3, PTL DEF Spec, NoEntryAtCeiling

-----------------------------------------------------------------------------
(* The cooldown.  With the entry machine on and immediate fills an intent  *)
(* exists only while nothing is open: no exit of its step can start a new  *)
(* cooldown behind it.                                                     *)

CooldownInv ==
    /\ EntryCooldown = 0 => cooldownUntil = -1
    /\ UseFsm /\ Latency = 0 /\ StrategyActions /\ loc.intent # 0
          /\ stage \in {"guard", "exits", "act"}
       => StepIdx >= cooldownUntil

(* An episode starts without a cooldown. *)
LEMMA CooldownInit == Init => CooldownInv
BY DEF Init, CooldownInv

(* A closed position starts a cooldown only if there is one. *)
LEMMA CooldownSet ==
    ASSUME CooldownInv, EntryCooldown = 0
    PROVE  CooldownAfterClose = -1 /\ cooldownUntil = -1
BY DEF CooldownInv, CooldownAfterClose

(* No step starts a cooldown behind an intent. *)
LEMMA CooldownNext ==
    ASSUME TypeInv, FsmInv, CooldownInv, [Next]_vars
    PROVE  CooldownInv'
<1> USE DEF TypeInv
<1>0. EntryCooldown \in Nat /\ StepIdx \in Nat
  BY EnvAssumption, CalendarType DEF TypeOK
<1>1. ASSUME EntryCooldown = 0 PROVE cooldownUntil' = -1
  <2>1. CooldownAfterClose = -1 /\ cooldownUntil = -1
    BY <1>1, CooldownSet
  <2>2. CASE Progress
    BY <2>1, <2>2 DEF Progress
  <2>3. CASE Breach \/ EndExits \/ ManualExit \/ ProtectiveExit \/ ReplayExit
    BY <2>1, <2>3 DEF Breach, EndExits, ManualExit, ProtectiveExit, ReplayExit,
                      KeepBook, CloseAll, ClosePart
  <2>4. CASE FillOrder \/ EnterNow
    BY <2>1, <2>4 DEF FillOrder, EnterNow, TryEnter
  <2>5. CASE Reset
    BY <2>5 DEF Reset
  <2>6. CASE PrepareIntent \/ NoBreach \/ CancelOrder \/ Hold \/ SubmitOrder
             \/ RecordAccounting \/ UpdateFunnel \/ ReplayMark \/ ReplayDone
             \/ Finish \/ UNCHANGED vars
    BY <2>1, <2>6 DEF PrepareIntent, NoBreach, CancelOrder, Hold, SubmitOrder,
       KeepBook, RecordAccounting, UpdateFunnel, ReplayMark, ReplayDone, Finish, vars
  <2> QED
    BY <2>2, <2>3, <2>4, <2>5, <2>6 DEF Next
<1>2. ASSUME UseFsm, Latency = 0, StrategyActions, loc'.intent # 0,
             stage' \in {"guard", "exits", "act"}
      PROVE  StepIdx' >= cooldownUntil'
  <2>1. CASE PrepareIntent
    <3>1. EntryAllowed /\ UNCHANGED <<nyPos, cooldownUntil>>
      BY <1>2, <2>1 DEF PrepareIntent, TypeOK, Loc
    <3>2. StepIdx >= cooldownUntil
      BY <1>0, <1>2, <3>1 DEF EntryAllowed, CooldownInv
    <3> QED
      BY <3>1, <3>2 DEF StepIdx
  <2>2. CASE NoBreach \/ Breach \/ ProtectiveExit \/ EndExits
    <3>1. /\ loc'.intent = loc.intent /\ nyPos' = nyPos
          /\ stage \in {"guard", "exits"}
      BY <2>2 DEF NoBreach, Breach, ProtectiveExit, EndExits, TypeOK, Loc
    <3>2. fsm.state = "ARMED"
      BY <1>2, <3>1 DEF FsmInv
    <3>3. pos = NoPosition
      BY <1>2, <3>2 DEF FsmInv
    <3>4. cooldownUntil' = cooldownUntil
      BY <2>2, <3>3 DEF NoBreach, Breach, ProtectiveExit, EndExits, KeepBook
    <3>5. StepIdx >= cooldownUntil
      BY <1>2, <3>1 DEF CooldownInv
    <3> QED
      BY <3>1, <3>4, <3>5 DEF StepIdx
  <2>3. CASE UNCHANGED vars
    BY <1>2, <2>3 DEF vars, CooldownInv, StepIdx
  <2>4. CASE ~(PrepareIntent \/ NoBreach \/ Breach \/ ProtectiveExit \/ EndExits
               \/ UNCHANGED vars)
    <3>1. stage' \notin {"guard", "exits", "act"}
      BY <2>4 DEF Next, Progress, FillOrder, CancelOrder, ManualExit, Hold,
                  SubmitOrder, EnterNow, TryEnter, RecordAccounting, UpdateFunnel,
                  ReplayExit, ReplayMark, ReplayDone, Finish, Reset
    <3> QED
      BY <1>2, <3>1
  <2> QED
    BY <2>1, <2>2, <2>3, <2>4
<1> QED
  BY <1>1, <1>2 DEF CooldownInv

(* With the entry machine on and orders filled at once, no entry from flat *)
(* happens before the cooldown after a close has passed.                   *)
THEOREM CooldownKept ==
    ASSUME UseFsm, Latency = 0
    PROVE  Spec => CooldownHonoured
<1>1. Init => TypeInv /\ FsmInv /\ CooldownInv
  BY InitType, FsmInit, CooldownInit
<1>2. TypeInv /\ FsmInv /\ CooldownInv /\ [Next]_vars
      => (TypeInv /\ FsmInv /\ CooldownInv)'
  BY NextType, FsmNext, CooldownNext
<1>3. TypeInv /\ FsmInv /\ CooldownInv /\ [Next]_vars
      => [Opens /\ StrategyActions => StepIdx >= cooldownUntil]_vars
  <2> SUFFICES ASSUME TypeInv, FsmInv, CooldownInv, [Next]_vars, Opens,
                      StrategyActions
               PROVE  StepIdx >= cooldownUntil
    OBVIOUS
  <2>1. FillOrder \/ EnterNow
    BY OpensBy
  <2>2. ~FillOrder
    BY DEF FillOrder, FsmInv
  <2>3. stage = "act" /\ loc.intent # 0
    BY <2>1, <2>2 DEF EnterNow, IntentExecutable
  <2> QED
    BY <2>3 DEF CooldownInv
<1> QED
  BY <1>1, <1>2, <1>3, PTL DEF Spec, CooldownHonoured

-----------------------------------------------------------------------------
(* Payouts.  Only the accounting of a step counts one.                     *)

(* A payout is taken from a flat account above the target.                 *)
LEMMA PayoutStep ==
    ASSUME TypeOK, ledger.count > 0, [Next]_vars, ledger'.count > ledger.count
    PROVE  /\ RepeatedPayout /\ pos' = NoPosition
           /\ acct' = ResetOperatingBalance(acct, OperatingBalance)
           /\ acct.balance >= ProfitTarget
           /\ ledger'.paid = ledger.paid + PayoutAmount(acct)
<1>0. ledger.count \in Nat
  BY DEF TypeOK
<1>1. CASE RecordAccounting
  <2>1. PayoutTaken /\ ~Episodic
    BY <1>0, <1>1 DEF RecordAccounting, AfterPayout
  <2> QED
    BY <1>1, <2>1 DEF RecordAccounting, AfterPayout, PayoutTaken, PayoutDue
<1>2. CASE Reset
  BY <1>0, <1>2 DEF Reset, InitialLedger
<1>3. CASE Breach
  <2>1. ledger'.count = ledger.count
    BY <1>3 DEF Breach, TypeOK
  <2> QED
    BY <1>0, <2>1
<1>4. CASE ~RecordAccounting /\ ~Reset /\ ~Breach
  <2>1. ledger' = ledger
    BY <1>4 DEF Next, vars, Progress, PrepareIntent, NoBreach, ProtectiveExit,
                EndExits, FillOrder, CancelOrder, ManualExit, Hold, SubmitOrder,
                EnterNow, UpdateFunnel, ReplayExit, ReplayMark, ReplayDone, Finish
  <2> QED
    BY <1>0, <2>1
<1> QED
  BY <1>1, <1>2, <1>3, <1>4

(* The first cycle has number one, and cycles are only counted up. *)
LEMMA CyclesCount ==
    ASSUME TypeOK, ledger.count > 0, [Next]_vars
    PROVE  ledger'.count > 0
<1>0. ledger.count \in Nat
  BY DEF TypeOK
<1>1. CASE RecordAccounting \/ Reset \/ Breach
  BY <1>0, <1>1 DEF RecordAccounting, AfterPayout, Reset, InitialLedger, Breach, TypeOK
<1>2. CASE ~(RecordAccounting \/ Reset \/ Breach)
  <2>1. ledger' = ledger
    BY <1>2 DEF Next, vars, Progress, PrepareIntent, NoBreach, ProtectiveExit,
                EndExits, FillOrder, CancelOrder, ManualExit, Hold, SubmitOrder,
                EnterNow, UpdateFunnel, ReplayExit, ReplayMark, ReplayDone, Finish
  <2> QED
    BY <2>1
<1> QED
  BY <1>1, <1>2

(* A payout moves money and makes none, and with limits above zero the     *)
(* account that goes on is flat and beyond no limit.                       *)
THEOREM PayoutsSound ==
    ASSUME DailyLimit > 0, MaxLossLimit > 0
    PROVE  Spec => PayoutIsSound
<1> DEFINE Inv == TypeInv /\ ledger.count > 0
<1>1. Init => Inv
  BY InitType DEF Init, InitialLedger
<1>2. Inv /\ [Next]_vars => Inv'
  BY NextType, CyclesCount DEF TypeInv
<1>3. Inv /\ [Next]_vars =>
        [ledger'.count > ledger.count =>
           /\ ledger'.paid + acct'.balance = ledger.paid + acct.balance
           /\ pos' = NoPosition
           /\ BreachReason(acct') = "none"]_vars
  <2> SUFFICES ASSUME TypeOK, ledger.count > 0, [Next]_vars,
                      ledger'.count > ledger.count
               PROVE  /\ ledger'.paid + acct'.balance = ledger.paid + acct.balance
                      /\ pos' = NoPosition
                      /\ BreachReason(acct') = "none"
    BY DEF TypeInv
  <2>1. /\ RepeatedPayout /\ pos' = NoPosition
        /\ acct' = ResetOperatingBalance(acct, OperatingBalance)
        /\ acct.balance >= ProfitTarget
        /\ ledger'.paid = ledger.paid + PayoutAmount(acct)
    BY PayoutStep
  <2>2. /\ OperatingBalance \in Nat /\ ProfitTarget \in Nat
        /\ DailyLimit \in Nat /\ MaxLossLimit \in Nat
        /\ ProfitTarget > OperatingBalance /\ TrailingLimit = 0
        /\ InitialBalance = OperatingBalance
    BY <2>1, GuardrailAssumption
  <2>3. acct.balance \in Int /\ ledger.paid \in Int
    BY DEF TypeOK, Account
  <2>4. PayoutAmount(acct) = acct.balance - OperatingBalance
    BY <2>1, <2>2, <2>3 DEF PayoutAmount, Higher
  <2>5. /\ acct'.balance = OperatingBalance /\ acct'.equity = OperatingBalance
        /\ acct'.sessEq = OperatingBalance
    BY <2>1 DEF ResetOperatingBalance
  <2>6. ledger'.paid + acct'.balance = ledger.paid + acct.balance
    BY <2>1, <2>2, <2>3, <2>4, <2>5
  <2>7. ~CheckTrailingDd(acct')
    BY <2>2 DEF CheckTrailingDd
  <2>8. ~CheckMaxDrawdown(acct')
    BY <2>2, <2>5 DEF CheckMaxDrawdown, LossFromInitial, Higher
  <2>9. ~CheckDaily(acct')
    BY <2>1, <2>2, <2>5 DEF CheckDaily, CanonicalDailyLoss, Higher
  <2> QED
    BY <2>1, <2>6, <2>7, <2>8, <2>9 DEF BreachReason
<1> QED
  BY <1>1, <1>2, <1>3, PTL DEF Spec, PayoutIsSound

-----------------------------------------------------------------------------
(* Refinement: with the entry machine on and immediate fills, position and *)
(* machine together live the life of one opportunity after another.        *)

(* A step that changes neither is a stutter. *)
LEMMA LifecycleStutter ==
    ASSUME UNCHANGED <<pos, fsm>>
    PROVE  UNCHANGED <<TradePhase, TradeDir>>
BY DEF TradePhase, TradeDir

(* A close, partial or whole, ends the opportunity or leaves it as it is. *)
LEMMA LifecycleClose ==
    ASSUME FsmInv, UseFsm, Latency = 0, fsm' = fsm, pos # NoPosition,
           pos' = NoPosition \/ pos'.dir = pos.dir
    PROVE  Lifecycle!Clear \/ UNCHANGED <<TradePhase, TradeDir>>
<1>1. fsm.state = "IN_POSITION"
  BY DEF FsmInv
<1>2. CASE pos' = NoPosition
  BY <1>1, <1>2 DEF Lifecycle!Clear, TradePhase, TradeDir
<1>3. CASE pos' # NoPosition
  BY <1>3 DEF TradePhase, TradeDir
<1> QED
  BY <1>2, <1>3

(* Evidence moves an opportunity that was not executed. *)
LEMMA LifecycleEvidence ==
    ASSUME TypeOK, pos = NoPosition, pos' = pos, fsm.state # "IN_POSITION",
           NEW ev \in Evidence, fsm' = Observe(fsm, ev, StepIdx)
    PROVE  Lifecycle!Next \/ UNCHANGED <<TradePhase, TradeDir>>
<1>1. fsm.state \in {"FLAT", "CANDIDATE", "ARMED"} /\ fsm \in EntryMachine
  BY DEF TypeOK, EntryMachine, EntryStates
<1>2. TradePhase = fsm.state /\ TradeDir = fsm.dir
  BY DEF TradePhase, TradeDir
<1>3. CASE Creates(fsm, ev)
  <2>1. fsm' = [state |-> "CANDIDATE", dir |-> ev.dir, origin |-> StepIdx]
    BY <1>3 DEF Observe
  <2>2. TradePhase' = "CANDIDATE" /\ TradeDir' = ev.dir
    BY <2>1 DEF TradePhase, TradeDir
  <2>3. TradePhase = "FLAT" /\ ev.dir \in {1, -1}
    BY <1>2, <1>3 DEF Creates, Evidence
  <2> QED
    BY <2>2, <2>3 DEF Lifecycle!Next, Lifecycle!Detect
<1>4. CASE ~Creates(fsm, ev) /\ (Drops(fsm, ev) \/ Expires(fsm, ev, StepIdx))
  <2>1. fsm' = Cleared
    BY <1>4 DEF Observe
  <2>2. TradePhase' = "FLAT" /\ TradeDir' = 0
    BY <2>1 DEF TradePhase, TradeDir, Cleared
  <2> QED
    BY <2>2 DEF Lifecycle!Next, Lifecycle!Clear
<1>5. CASE /\ ~Creates(fsm, ev) /\ ~(Drops(fsm, ev) \/ Expires(fsm, ev, StepIdx))
           /\ Arms(fsm, ev, StepIdx)
  <2>1. fsm' = [fsm EXCEPT !.state = "ARMED"]
    BY <1>5 DEF Observe
  <2>2. fsm'.state = "ARMED" /\ fsm'.dir = fsm.dir
    BY <1>1, <2>1 DEF EntryMachine
  <2>3. TradePhase' = "ARMED" /\ TradeDir' = fsm.dir
    BY <2>2 DEF TradePhase, TradeDir
  <2>4. TradePhase = "CANDIDATE"
    BY <1>2, <1>5 DEF Arms
  <2> QED
    BY <1>2, <2>3, <2>4 DEF Lifecycle!Next, Lifecycle!Arm
<1>6. CASE /\ ~Creates(fsm, ev) /\ ~(Drops(fsm, ev) \/ Expires(fsm, ev, StepIdx))
           /\ ~Arms(fsm, ev, StepIdx)
  BY <1>6, LifecycleStutter DEF Observe
<1> QED
  BY <1>3, <1>4, <1>5, <1>6

(* Closing an opportunity whose position is gone shows nothing. *)
LEMMA LifecycleMarkClosed ==
    ASSUME pos = NoPosition, pos' = pos, fsm' = MarkClosed(fsm)
    PROVE  UNCHANGED <<TradePhase, TradeDir>>
BY DEF MarkClosed, Cleared, TradePhase, TradeDir

(* Every step of the environment is a step of the life cycle or a stutter. *)
LEMMA LifecycleStep ==
    ASSUME UseFsm, Latency = 0, TypeInv, FsmInv, [Next]_vars
    PROVE  Lifecycle!Next \/ UNCHANGED <<TradePhase, TradeDir>>
<1> USE DEF TypeInv
<1>0. Prices \subseteq Int
  BY EnvAssumption
<1>1. CASE Progress
  <2>1. fsm' = fsm /\ (pos' = pos \/ pos' = NoPosition)
    BY <1>1 DEF Progress
  <2> QED
    BY <2>1, LifecycleStutter, LifecycleClose DEF Lifecycle!Next
<1>2. CASE Breach \/ EndExits \/ ManualExit
  <2>1. fsm' = fsm
    BY <1>2 DEF Breach, EndExits, ManualExit
  <2>2. pos' = pos \/ pos' = NoPosition
    BY <1>2, CloseAllType DEF Breach, EndExits, ManualExit, KeepBook, TypeOK, Loc
  <2> QED
    BY <2>1, <2>2, LifecycleStutter, LifecycleClose DEF Lifecycle!Next
<1>3. CASE ProtectiveExit \/ ReplayExit
  <2>1. PICK lots \in 1 .. pos.size, quote \in Prices : ClosePart(lots, quote)
    BY <1>3 DEF ProtectiveExit, ReplayExit
  <2>2. pos # NoPosition /\ fsm' = fsm
    BY <1>3 DEF ProtectiveExit, ReplayExit
  <2>3. pos' = NoPosition \/ pos'.dir = pos.dir
    BY <1>0, <2>1, <2>2, ClosePartEffect
  <2> QED
    BY <2>2, <2>3, LifecycleClose DEF Lifecycle!Next
<1>4. CASE FillOrder
  BY <1>4 DEF FillOrder, FsmInv
<1>5. CASE EnterNow
  <2>1. PICK lots \in LotSizes \cup {0}, quote \in Prices :
            TryEnter(loc.intent, lots, quote)
    BY <1>5 DEF EnterNow
  <2>2. stage = "act" /\ loc.intent \in Sides
    BY <1>5 DEF EnterNow, IntentExecutable, TypeOK, Loc, Sides
  <2>3. fsm.state = "ARMED" /\ fsm.dir = loc.intent
    BY <2>2 DEF FsmInv, Sides
  <2>4. pos = NoPosition
    BY <2>3 DEF FsmInv
  <2>5. \/ UNCHANGED <<pos, fsm>>
        \/ pos' # NoPosition /\ pos'.dir = loc.intent
    BY <2>1, <2>2, <2>4, TryEnterFromFlat
  <2>6. CASE pos' # NoPosition /\ pos'.dir = loc.intent
    <3>1. TradePhase = "ARMED" /\ TradeDir = loc.intent
      BY <2>3, <2>4 DEF TradePhase, TradeDir
    <3>2. TradePhase' = "IN_POSITION" /\ TradeDir' = loc.intent
      BY <2>6 DEF TradePhase, TradeDir
    <3> QED
      BY <3>1, <3>2 DEF Lifecycle!Next, Lifecycle!Enter
  <2> QED
    BY <2>5, <2>6, LifecycleStutter
<1>6. CASE UpdateFunnel
  <2>1. pos' = pos
    BY <1>6 DEF UpdateFunnel
  <2>2. CASE fsm.state = "IN_POSITION"
    <3>1. fsm' = IF pos = NoPosition THEN MarkClosed(fsm) ELSE fsm
      BY <1>6, <2>2 DEF UpdateFunnel
    <3> QED
      BY <2>1, <3>1, LifecycleStutter, LifecycleMarkClosed
  <2>3. CASE fsm.state # "IN_POSITION"
    <3>1. pos = NoPosition
      BY <2>3 DEF FsmInv
    <3>2. PICK ev \in Evidence : fsm' = Observe(fsm, ev, StepIdx)
      BY <1>6, <2>3 DEF UpdateFunnel
    <3> QED
      BY <2>1, <2>3, <3>1, <3>2, LifecycleEvidence
  <2> QED
    BY <2>2, <2>3
<1>7. CASE Finish
  <2>1. pos' = pos /\ fsm' = IF pos = NoPosition THEN MarkClosed(fsm) ELSE fsm
    BY <1>7 DEF Finish
  <2> QED
    BY <2>1, LifecycleStutter, LifecycleMarkClosed
<1>8. CASE Reset
  <2>1. TradePhase' = "FLAT" /\ TradeDir' = 0
    BY <1>8 DEF Reset, TradePhase, TradeDir, Cleared
  <2> QED
    BY <2>1 DEF Lifecycle!Next, Lifecycle!Clear
<1>9. CASE \/ PrepareIntent \/ NoBreach \/ CancelOrder \/ Hold \/ SubmitOrder
           \/ RecordAccounting \/ ReplayMark \/ ReplayDone \/ UNCHANGED vars
  <2>1. UNCHANGED <<pos, fsm>>
    BY <1>9 DEF PrepareIntent, NoBreach, CancelOrder, Hold, SubmitOrder, KeepBook,
                RecordAccounting, ReplayMark, ReplayDone, vars
  <2> QED
    BY <2>1, LifecycleStutter
<1> QED
  BY <1>1, <1>2, <1>3, <1>4, <1>5, <1>6, <1>7, <1>8, <1>9 DEF Next

(* With the entry machine on and orders filled at once, a position comes   *)
(* from an opportunity that was detected and armed, keeps its direction    *)
(* until it is closed, and is never flipped or reopened without a new one. *)
THEOREM ImplementsLife ==
    ASSUME UseFsm, Latency = 0
    PROVE  Spec => ImplementsLifecycle
<1>1. Init => Lifecycle!Init
  BY DEF Init, Lifecycle!Init, TradePhase, TradeDir, Cleared
<1>2. Init => TypeInv /\ FsmInv
  BY InitType, FsmInit
<1>3. TypeInv /\ FsmInv /\ [Next]_vars => (TypeInv /\ FsmInv)'
  BY NextType, FsmNext
<1>4. TypeInv /\ FsmInv /\ [Next]_vars => [Lifecycle!Next]_<<TradePhase, TradeDir>>
  BY LifecycleStep
<1> QED
  BY <1>1, <1>2, <1>3, <1>4, PTL DEF Spec, ImplementsLifecycle, Lifecycle!Spec

-----------------------------------------------------------------------------
(* Entries and the hard limits.  With the entry machine on and immediate   *)
(* fills an intent is asked from flat, so that the account an entry is     *)
(* opened on is the one the guardrails saw.                                *)

LimitInv ==
    /\ stage = "act" => ~loc.done
    /\ UseFsm /\ Latency = 0 /\ stage \in {"exits", "act"} /\ loc.intent # 0
          /\ ~loc.blocked /\ ~loc.done
       => BreachReason(acct) = "none"

(* An episode starts before its first guardrail check. *)
LEMMA LimitInit == Init => LimitInv
BY DEF Init, LimitInv

(* No step between the guardrails and the entry moves the account. *)
LEMMA LimitNext ==
    ASSUME TypeInv, FsmInv, LimitInv, [Next]_vars
    PROVE  LimitInv'
<1> USE DEF TypeInv
<1>1. CASE NoBreach
  <2>1. /\ stage' = "exits" /\ acct' = acct /\ loc'.blocked = Latched
        /\ Latched \/ BreachReason(acct) = "none"
    BY <1>1 DEF NoBreach, KeepBook, TypeOK, Loc
  <2>2. ~loc'.blocked => BreachReason(acct') = "none"
    BY <2>1
  <2> QED
    BY <2>1, <2>2 DEF LimitInv
<1>2. CASE Breach
  <2>1. stage' = "exits" /\ loc'.blocked = Latching /\ loc'.done = ~Latching
    BY <1>2 DEF Breach, TypeOK, Loc
  <2>2. loc'.blocked \/ loc'.done
    BY <2>1 DEF Latching
  <2> QED
    BY <2>1, <2>2 DEF LimitInv
<1>3. CASE ProtectiveExit \/ EndExits
  <2>1. /\ stage = "exits" /\ loc'.intent = loc.intent
        /\ loc'.blocked = loc.blocked /\ loc'.done = loc.done
        /\ stage' = "act" => ~loc.done
    BY <1>3 DEF ProtectiveExit, EndExits, TypeOK, Loc
  <2>2. ASSUME UseFsm, Latency = 0, loc.intent # 0 PROVE acct' = acct
    <3>1. fsm.state = "ARMED"
      BY <2>1, <2>2 DEF FsmInv
    <3>2. pos = NoPosition
      BY <2>2, <3>1 DEF FsmInv
    <3> QED
      BY <1>3, <3>2 DEF ProtectiveExit, EndExits, KeepBook
  <2>3. ASSUME UseFsm, Latency = 0, loc'.intent # 0, ~loc'.blocked, ~loc'.done
        PROVE  BreachReason(acct') = "none"
    <3>1. BreachReason(acct) = "none" /\ acct' = acct
      BY <2>1, <2>2, <2>3 DEF LimitInv
    <3> QED
      BY <3>1
  <2> QED
    BY <2>1, <2>3 DEF LimitInv
<1>4. CASE UNCHANGED vars
  <2>1. UNCHANGED <<stage, loc, acct>>
    BY <1>4 DEF vars
  <2> QED
    BY <2>1 DEF LimitInv
<1>5. CASE ~(NoBreach \/ Breach \/ ProtectiveExit \/ EndExits \/ UNCHANGED vars)
  <2>1. stage' \notin {"exits", "act"}
    BY <1>5 DEF Next, Progress, PrepareIntent, FillOrder, CancelOrder, ManualExit,
                Hold, SubmitOrder, EnterNow, TryEnter, RecordAccounting,
                UpdateFunnel, ReplayExit, ReplayMark, ReplayDone, Finish, Reset
  <2> QED
    BY <2>1 DEF LimitInv
<1> QED
  BY <1>1, <1>2, <1>3, <1>4, <1>5

(* The commission of an entry leaves the balance only: the limits read the *)
(* equity.                                                                 *)
LEMMA EntryKeepsLimits ==
    ASSUME TypeOK, pos = NoPosition, NEW dir \in Sides,
           NEW lots \in LotSizes \cup {0}, NEW quote \in Prices,
           TryEnter(dir, lots, quote)
    PROVE  BreachReason(acct') = BreachReason(acct)
<1>1. acct' = acct \/ acct' = DebitEntry(acct, lots)
  BY DEF TryEnter
<1>2. BreachReason(DebitEntry(acct, lots)) = BreachReason(acct)
  BY DEF TypeOK, Account, DebitEntry, BreachReason, CheckTrailingDd,
         CheckMaxDrawdown, CheckDaily, LossFromInitial, CanonicalDailyLoss
<1> QED
  BY <1>1, <1>2

(* With the entry machine on and orders filled at once, no position is     *)
(* opened, from flat or by a flip, on an account beyond a hard limit.      *)
THEOREM EntriesWithinLimits ==
    ASSUME UseFsm, Latency = 0
    PROVE  Spec => NoEntryOnBreachedAccount
<1>1. Init => TypeInv /\ FsmInv /\ LimitInv
  BY InitType, FsmInit, LimitInit
<1>2. TypeInv /\ FsmInv /\ LimitInv /\ [Next]_vars
      => (TypeInv /\ FsmInv /\ LimitInv)'
  BY NextType, FsmNext, LimitNext
<1>3. TypeInv /\ FsmInv /\ LimitInv /\ [Next]_vars
      => [pos' # NoPosition /\ pos'.dir # pos.dir => BreachReason(acct') = "none"]_vars
  <2> SUFFICES ASSUME TypeInv, FsmInv, LimitInv, [Next]_vars,
                      pos' # NoPosition, pos'.dir # pos.dir
               PROVE  BreachReason(acct') = "none"
    OBVIOUS
  <2> USE DEF TypeInv
  <2>0. Prices \subseteq Int
    BY EnvAssumption
  <2>1. ~FillOrder
    BY DEF FillOrder, FsmInv
  <2>2. ~(ProtectiveExit \/ ReplayExit)
    <3> SUFFICES ASSUME ProtectiveExit \/ ReplayExit PROVE FALSE
      OBVIOUS
    <3>1. PICK lots \in 1 .. pos.size, quote \in Prices : ClosePart(lots, quote)
      BY DEF ProtectiveExit, ReplayExit
    <3> QED
      BY <2>0, <3>1, ClosePartEffect DEF ProtectiveExit, ReplayExit
  <2>3. ~(Breach \/ EndExits \/ ManualExit)
    BY CloseAllType DEF Breach, EndExits, ManualExit, KeepBook, TypeOK, Loc
  <2>4. EnterNow
    <3>1. pos' # pos
      OBVIOUS
    <3> QED
      BY <2>1, <2>2, <2>3, <3>1
      DEF Next, vars, Progress, PrepareIntent, NoBreach, KeepBook, CancelOrder, Hold,
          SubmitOrder, RecordAccounting, UpdateFunnel, ReplayMark, ReplayDone,
          Finish, Reset
  <2>5. PICK lots \in LotSizes \cup {0}, quote \in Prices :
            TryEnter(loc.intent, lots, quote)
    BY <2>4 DEF EnterNow
  <2>6. stage = "act" /\ loc.intent \in Sides /\ loc.intent # 0 /\ ~loc.blocked
    BY <2>4 DEF EnterNow, IntentExecutable, TypeOK, Loc, Sides
  <2>7. BreachReason(acct) = "none"
    BY <2>6 DEF LimitInv
  <2>8. pos = NoPosition
    BY <2>6 DEF FsmInv
  <2> QED
    BY <2>5, <2>6, <2>7, <2>8, EntryKeepsLimits
<1> QED
  BY <1>1, <1>2, <1>3, PTL DEF Spec, NoEntryOnBreachedAccount
=============================================================================
