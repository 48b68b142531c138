------------------------------ MODULE LiveRobot -------------------------------
(***************************************************************************)
(* integrations/mt5: a robot that trades an account it does not own alone. *)
(* In each cycle it asks its strategy for a signal, looks at the positions *)
(* of the terminal, sizes and checks an order, sends it, and closes what   *)
(* points the other way.  Between any two of its calls stops are hit and a *)
(* person trades on the same account; each call may fail, and an order     *)
(* without an answer may have been filled.                                 *)
(* RLRobot trades one symbol, MultiSymbolRobot all of them in turn, and    *)
(* CrossOverRobot one, without stops and checks.  Risk is counted in whole *)
(* parts of a balance that does not change.                                *)
(***************************************************************************)
EXTENDS Integers, FiniteSets, FiniteSetsExt

CONSTANTS
    Symbols,
    Home,          \* the symbol of a robot that trades one
    Robots,        \* the kinds of robots to choose from
    RiskPerSymbol, \* risk_per_symbol
    MaxTotalRisk,  \* max_total_risk
    DefaultRisk,   \* what default_lot_size risks
    MaxOpen,       \* bound on the open positions
    MaxFaults,     \* bound on the calls that fail
    MaxManual      \* bound on what the person does

ASSUME LiveAssumption ==
    /\ Home \in Symbols /\ IsFiniteSet(Symbols)
    /\ Robots \subseteq {"rl", "multi", "crossover"}
    /\ {RiskPerSymbol, MaxTotalRisk, DefaultRisk, MaxOpen} \subseteq Nat \ {0}
    /\ {MaxFaults, MaxManual} \subseteq Nat

VARIABLES
    robot,
    book,    \* the positions of the terminal
    pc,      \* the next call of the robot
    todo,    \* symbols left in this cycle
    sym,     \* the symbol being traded
    signal,
    risk,    \* of the order that is ready to be sent
    faults,
    manual,
    blind,   \* a query of same-sided positions has failed
    clean,   \* nobody has disturbed the trade of this symbol
    refused  \* nor was its order refused

vars == <<robot, book, pc, todo, sym, signal, risk, faults, manual, blind,
          clean, refused>>

Sides == {"BUY", "SELL"}
Opp(side) == IF side = "BUY" THEN "SELL" ELSE "BUY"

Init ==
    /\ robot \in Robots
    /\ book = {} /\ pc = "signal" /\ todo = {} /\ sym = Home /\ signal = "NONE"
    /\ risk = 0 /\ faults = 0 /\ manual = 0 /\ blind = FALSE
    /\ clean = TRUE /\ refused = FALSE

-----------------------------------------------------------------------------
(* The terminal *)

Held(s, side) == {p \in book : p.sym = s /\ p.side = side}

Own(s, side) == {p \in Held(s, side) : p.own}

FreshId == Min((1 .. MaxOpen) \ {p.id : p \in book})

Filled(s, side, r, stop, own) ==
    book \cup {[id |-> FreshId, sym |-> s, side |-> side, risk |-> r,
                stop |-> stop, own |-> own]}

Room == Cardinality(book) < MaxOpen

(* A position reaches its stop. *)
StopHit ==
    /\ \E p \in book : p.stop /\ book' = book \ {p}
    /\ UNCHANGED <<robot, pc, todo, sym, signal, risk, faults, manual, blind,
                   clean, refused>>

(* The person opens a position, or takes the stop from one. *)
Manual ==
    /\ manual < MaxManual /\ manual' = manual + 1 /\ clean' = FALSE
    /\ \/ /\ Room
          /\ \E s \in Symbols, side \in Sides, stop \in BOOLEAN :
                book' = Filled(s, side, 1, stop, FALSE)
       \/ \E p \in book :
             p.stop /\ book' = (book \ {p}) \cup {[p EXCEPT !.stop = FALSE]}
    /\ UNCHANGED <<robot, pc, todo, sym, signal, risk, faults, blind, refused>>

Fault == faults < MaxFaults /\ faults' = faults + 1 /\ clean' = FALSE
NoFault == UNCHANGED <<faults, clean>>

-----------------------------------------------------------------------------
(* One cycle *)

(* The next symbol of trade(), and its signal. *)
Signal ==
    /\ pc = "signal"
    /\ LET left == IF todo # {} THEN todo
                   ELSE IF robot = "multi" THEN Symbols ELSE {Home}
       IN  \E s \in left : sym' = s /\ todo' = left \ {s}
    /\ signal' \in Sides \cup {"NONE"}
    /\ pc' = IF signal' = "NONE" THEN "signal" ELSE "look"
    /\ clean' = TRUE /\ refused' = FALSE /\ risk' = 0
    /\ UNCHANGED <<robot, book, faults, manual, blind>>

(* The crossover robot neither sizes nor checks. *)
Wanted == IF robot = "crossover" THEN "send" ELSE "check"

(* Mutation: the other side is counted. *)
LookOther ==
    /\ pc = "look"
    /\ pc' = IF Held(sym, Opp(signal)) = {} THEN Wanted ELSE "opposite"
    /\ NoFault
    /\ UNCHANGED <<robot, book, todo, sym, signal, risk, manual, blind, refused>>

(* get_opened_positions of the wanted side *)
Look ==
    /\ pc = "look"
    /\ pc' = IF Held(sym, signal) = {} THEN Wanted ELSE "opposite"
    /\ NoFault
    /\ UNCHANGED <<robot, book, todo, sym, signal, risk, manual, blind, refused>>

(* A query that fails is an account without positions. *)
LookBlind ==
    /\ pc = "look" /\ pc' = Wanted
    /\ Fault /\ blind' = TRUE
    /\ UNCHANGED <<robot, book, todo, sym, signal, risk, manual, refused>>

RiskOf(positions) == MapThenSumSet(LAMBDA p : p.risk, positions)

(* check_risk_limits: a position without a stop is an unknown risk. *)
Allowed(r) ==
    /\ r <= RiskPerSymbol
    /\ \A p \in book : p.stop
    /\ RiskOf(book) + r <= MaxTotalRisk

(* calculate_position_size: within the limit, which MultiSymbolRobot       *)
(* divides by a multiplier of one half to two; the default when it fails.  *)
Sizes ==
    1 .. (IF robot = "multi" THEN 2 ELSE 1) * RiskPerSymbol \cup {DefaultRisk}

Admit ==
    /\ pc = "check" /\ pc' = "send"
    /\ \E r \in Sizes : Allowed(r) /\ risk' = r
    /\ NoFault
    /\ UNCHANGED <<robot, book, todo, sym, signal, manual, blind, refused>>

(* Mutation: every robot leaves the symbol. *)
Leave == "signal"

(* Refused or unanswered, _open of RLRobot returns to trade, which looks   *)
(* at the other side; the other robots return from trade itself.           *)
AfterRefusal == IF robot = "rl" THEN "opposite" ELSE "signal"

Refuse ==
    /\ pc = "check" /\ pc' = AfterRefusal
    /\ \E r \in Sizes : ~Allowed(r)
    /\ refused' = TRUE /\ NoFault
    /\ UNCHANGED <<robot, book, todo, sym, signal, risk, manual, blind>>

(* Mutation: without an answer there is no exposure. *)
AdmitBlind ==
    /\ pc = "check" /\ pc' = "send"
    /\ risk' = RiskPerSymbol /\ Fault
    /\ UNCHANGED <<robot, book, todo, sym, signal, manual, blind, refused>>

(* No quote for the stop, or no answer on the positions. *)
RefuseBlind ==
    /\ pc = "check" /\ pc' = AfterRefusal
    /\ refused' = TRUE /\ Fault
    /\ UNCHANGED <<robot, book, todo, sym, signal, risk, manual, blind>>

OrderFills ==
    /\ Room
    /\ book' = Filled(sym, signal, IF robot = "crossover" THEN 1 ELSE risk,
                      robot # "crossover", TRUE)

Fill ==
    /\ pc = "send" /\ pc' = "opposite"
    /\ OrderFills /\ NoFault
    /\ UNCHANGED <<robot, todo, sym, signal, risk, manual, blind, refused>>

Reject ==
    /\ pc = "send" /\ pc' = "opposite"
    /\ Fault
    /\ UNCHANGED <<robot, book, todo, sym, signal, risk, manual, blind, refused>>

(* order_send returns None, whatever became of the order. *)
NoAnswer ==
    /\ pc = "send" /\ pc' = AfterRefusal
    /\ Fault
    /\ OrderFills \/ UNCHANGED book
    /\ UNCHANGED <<robot, todo, sym, signal, risk, manual, blind, refused>>

(* get_opened_positions of the other side *)
LookOpposite ==
    /\ pc = "opposite"
    /\ pc' = IF Held(sym, Opp(signal)) = {} THEN "signal" ELSE "close"
    /\ NoFault
    /\ UNCHANGED <<robot, book, todo, sym, signal, risk, manual, blind, refused>>

OppositeBlind ==
    /\ pc = "opposite" /\ pc' = "signal"
    /\ Fault
    /\ UNCHANGED <<robot, book, todo, sym, signal, risk, manual, blind, refused>>

(* Both branches of CrossOverRobot close the side BUY. *)
ClosedSide == IF robot = "crossover" THEN "BUY" ELSE Opp(signal)

(* close_positions looks again and sends a request for each position,      *)
(* whoever opened it; nobody reads the answers.                            *)
Close ==
    /\ pc = "close" /\ pc' = "signal"
    /\ book' = book \ Held(sym, ClosedSide)
    /\ NoFault
    /\ UNCHANGED <<robot, todo, sym, signal, risk, manual, blind, refused>>

CloseFails ==
    /\ pc = "close" /\ pc' = "signal"
    /\ \E closed \in SUBSET Held(sym, ClosedSide) : book' = book \ closed
    /\ Fault
    /\ UNCHANGED <<robot, todo, sym, signal, risk, manual, blind, refused>>

Next ==
    \/ Signal \/ Look \/ LookBlind \/ Admit \/ Refuse \/ RefuseBlind
    \/ Fill \/ Reject \/ NoAnswer
    \/ LookOpposite \/ OppositeBlind \/ Close \/ CloseFails
    \/ StopHit \/ Manual

Spec == Init /\ [][Next]_vars

-----------------------------------------------------------------------------
(* Properties *)

(* What the positions of a robot with a risk manager may lose together     *)
(* stays within the limit, whatever fails, whoever else trades the account *)
(* and while a reversal holds both sides.                                  *)
OwnRiskCapped ==
    robot # "crossover" =>
        RiskOf({p \in book : p.own}) <= MaxTotalRisk

(* A robot never adds to a position: unless a query failed it has at most  *)
(* one position of a side, also when an order was filled without answer.   *)
OneAWay ==
    ~blind => \A s \in Symbols, side \in Sides : Cardinality(Own(s, side)) <= 1

(* After an undisturbed trade nothing points the other way, except that    *)
(* MultiSymbolRobot keeps it for as long as the new order is refused.      *)
OppositeClosed ==
    pc = "signal" /\ signal # "NONE" /\ clean /\ robot # "crossover" =>
        Held(sym, Opp(signal)) = {} \/ (robot = "multi" /\ refused)
=============================================================================
