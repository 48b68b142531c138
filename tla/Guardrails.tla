----------------------------- MODULE Guardrails -----------------------------
(***************************************************************************)
(* trading/risk/guardrails.py (fixed_usd limits) with the payout decision  *)
(* of trading/policy/repeated_payout.py and the entry capacity of          *)
(* trading/risk/budget.py.                                                 *)
(***************************************************************************)
EXTENDS Account

CONSTANTS
    DailyLimit,        \* daily_loss_limit
    SoftDailyLimit,    \* soft_daily_loss_limit, 0 = off
    MaxLossLimit,      \* max_loss_limit, from the initial balance
    TrailingLimit,     \* trailing_dd_limit * initial_balance, 0 = off
    SoftTrailingLimit, \* soft_trailing_dd_limit * initial_balance, 0 = off
    OperatingBalance,  \* TradingPolicyConfig.operating_balance
    ProfitTarget,      \* TradingPolicyConfig.profit_target_balance
    ExecutionReserve   \* TradingPolicyConfig.execution_reserve_usd

ASSUME GuardrailAssumption ==
    /\ {DailyLimit, SoftDailyLimit, MaxLossLimit, TrailingLimit,
        SoftTrailingLimit, ExecutionReserve} \subseteq Nat
    /\ OperatingBalance \in Nat
    /\ ProfitTarget \in Nat
    \* TradingPolicyConfig.validate
    /\ RepeatedPayout => /\ ProfitTarget > OperatingBalance
                         /\ TrailingLimit = 0
                         /\ InitialBalance = OperatingBalance

CheckDaily(a)       == CanonicalDailyLoss(a) >= DailyLimit
CheckSoftDaily(a)   == SoftDailyLimit > 0 /\ CanonicalDailyLoss(a) >= SoftDailyLimit
CheckMaxDrawdown(a) == LossFromInitial(a) >= MaxLossLimit
CheckTrailingDd(a)  == TrailingLimit > 0 /\ a.peak - a.equity >= TrailingLimit
CheckSoftTrailingDd(a) ==
    SoftTrailingLimit > 0 /\ a.peak - a.equity >= SoftTrailingLimit

(* breach_reason: the first limit reached, in this order. *)
BreachReason(a) ==
    IF CheckTrailingDd(a) THEN "trailing_dd"
    ELSE IF CheckMaxDrawdown(a) THEN "max_drawdown"
    ELSE IF CheckDaily(a) THEN "daily_loss"
    ELSE "none"

SoftBlocked(a) == CheckSoftDaily(a) \/ CheckSoftTrailingDd(a)

(* evaluate_payout *)
PayoutDue(a)    == a.balance >= ProfitTarget
PayoutAmount(a) == Higher(0, a.balance - OperatingBalance)

(* approve_dynamic_risk: the most a trade may risk, whatever it asks for.  *)
(* The account floor is the operating balance minus the maximum loss.      *)
AccountFloor == OperatingBalance - MaxLossLimit
ApprovedRisk(a) ==
    Higher(0, Lower(RemainingDailyCapacity(a, DailyLimit),
                    RemainingAccountCapacity(a, AccountFloor)) - ExecutionReserve)
=============================================================================
