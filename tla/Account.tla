------------------------------ MODULE Account ------------------------------
(***************************************************************************)
(* The account record of trading/account/state.py (AccountState) and the   *)
(* operations every caller goes through.  Money is a small integer: the    *)
(* properties only compare and add amounts.  The fields nothing reads back *)
(* (session_start_balance, max_drawdown) are left out.                     *)
(***************************************************************************)
EXTENDS Integers

CONSTANTS
    InitialBalance,   \* AccountState.initial_balance
    RepeatedPayout    \* policy_mode = "repeated_payout" (TRUE) or "legacy"

ASSUME AccountAssumption ==
    /\ InitialBalance \in Nat \ {0}
    /\ RepeatedPayout \in BOOLEAN

Account == [balance : Int,   \* realised money
            equity  : Int,   \* balance plus unrealised, as last recomputed
            openPnl : Int,
            peak    : Int,   \* peak_equity, the high-water mark
            sessEq  : Int,   \* session_start_equity, the daily anchor
            daily   : Int]   \* daily_loss: losing closes of this session

Higher(x, y) == IF x >= y THEN x ELSE y
Lower(x, y)  == IF x <= y THEN x ELSE y

NewAccount ==
    [balance |-> InitialBalance, equity |-> InitialBalance, openPnl |-> 0,
     peak |-> InitialBalance, sessEq |-> InitialBalance, daily |-> 0]

(* update_equity: recompute equity, then move the high-water mark. *)
UpdateEquity(a, open) ==
    [balance |-> a.balance, equity |-> a.balance + open, openPnl |-> open,
     peak |-> Higher(a.peak, a.balance + open),
     sessEq |-> a.sessEq, daily |-> a.daily]

(* close_trade: equity becomes the realised balance even when a remainder  *)
(* is still open; only losing closes accumulate in daily.                  *)
CloseTrade(a, pnl) ==
    [balance |-> a.balance + pnl, equity |-> a.balance + pnl, openPnl |-> 0,
     peak |-> Higher(a.peak, a.balance + pnl), sessEq |-> a.sessEq,
     daily |-> IF pnl < 0 THEN a.daily - pnl ELSE a.daily]

(* reset_daily: the anchor is the equity as last recomputed. *)
ResetDaily(a) ==
    [balance |-> a.balance, equity |-> a.equity, openPnl |-> a.openPnl,
     peak |-> a.peak, sessEq |-> a.equity, daily |-> 0]

(* Mutation: a payout that keeps the daily anchor of the balance before it. *)
PayoutKeepsAnchor(a, operating) ==
    [a EXCEPT !.balance = operating, !.equity = operating, !.openPnl = 0]

(* reset_operating_balance: the high-water mark is kept, everything else   *)
(* restarts from the operating balance.                                    *)
ResetOperatingBalance(a, operating) ==
    [balance |-> operating, equity |-> operating, openPnl |-> 0,
     peak |-> Higher(a.peak, operating), sessEq |-> operating, daily |-> 0]

(* canonical_daily_loss: two meanings, chosen by the policy mode. *)
CanonicalDailyLoss(a) ==
    IF RepeatedPayout THEN Higher(0, a.sessEq - a.equity) ELSE a.daily

LossFromInitial(a) == Higher(0, InitialBalance - a.equity)

RemainingDailyCapacity(a, limit)  == Higher(0, a.equity - (a.sessEq - limit))
RemainingAccountCapacity(a, floor) == Higher(0, a.equity - floor)

(* trailing_drawdown_pct >= pct / 100, in integers. *)
TrailingDrawdownAtLeast(a, pct) ==
    /\ a.peak > 0
    /\ 100 * (a.peak - a.equity) >= pct * a.peak
=============================================================================
