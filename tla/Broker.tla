------------------------------- MODULE Broker -------------------------------
(***************************************************************************)
(* trading/execution/broker.py: positions and the three operations that    *)
(* move an account.  A quote is its bid; the ask is Spread above it        *)
(* (slippage is part of Spread).  Both legs of a trade pay CostPerLot.     *)
(***************************************************************************)
EXTENDS Account

CONSTANTS
    Spread,        \* ask - bid
    CostPerLot,    \* CostModel.total_cost of one lot, per leg
    MarginPerLot   \* required_margin of one lot

ASSUME BrokerAssumption ==
    /\ Spread \in Nat
    /\ CostPerLot \in Nat
    /\ MarginPerLot \in Nat

Sides == {-1, 1}

Position == [dir : Sides, entry : Int, size : Nat \ {0}]
NoPosition == [dir |-> 0, entry |-> 0, size |-> 0]

Bid(quote) == quote
Ask(quote) == quote + Spread

(* A long fills at the ask and is valued and closed at the bid; a short is *)
(* the mirror image.                                                       *)
OpenFill(dir, quote)  == IF dir = 1 THEN Ask(quote) ELSE Bid(quote)
CloseFill(dir, quote) == IF dir = 1 THEN Bid(quote) ELSE Ask(quote)

(* open_position: refused without margin; the commission leaves balance    *)
(* while equity keeps its old value until the next mark or close.          *)
CanOpen(a, lots)     == lots > 0 /\ a.equity >= MarginPerLot * lots
DebitEntry(a, lots)  == [a EXCEPT !.balance = a.balance - CostPerLot * lots]
Opened(dir, lots, quote) ==
    [dir |-> dir, entry |-> OpenFill(dir, quote), size |-> lots]

(* mark_to_market *)
MarkToMarket(a, p, quote) ==
    UpdateEquity(a, (CloseFill(p.dir, quote) - p.entry) * p.dir * p.size)

(* close_position of `lots` of p: what is left of the position, and the    *)
(* account, which is marked again when something is left.                  *)
Remainder(p, lots) ==
    IF lots = p.size THEN NoPosition ELSE [p EXCEPT !.size = p.size - lots]

ClosePnl(p, lots, quote) ==
    (CloseFill(p.dir, quote) - p.entry) * p.dir * lots - CostPerLot * lots

ClosePosition(a, p, lots, quote) ==
    LET closed == CloseTrade(a, ClosePnl(p, lots, quote))
    IN  IF lots = p.size THEN closed
        ELSE MarkToMarket(closed, Remainder(p, lots), quote)
=============================================================================
