-------------------------- MODULE ManagedPosition ---------------------------
(***************************************************************************)
(* simulation/environment: the life of one position with a stop and up to  *)
(* three targets.  On every bar its protective levels are checked, against *)
(* the ticks of the bar or, without them, its range; then the guards move  *)
(* the stop and the nearest target.  Prices are whole points, counted from *)
(* the entry price; sizes are in hundredths of a lot.                      *)
(***************************************************************************)
EXTENDS Integers, Sequences, FiniteSets, FiniteSetsExt, Functions

CONSTANTS
    Markets,          \* [dir, stop, menu, swing]: a side, its stop, its menu of
                      \* targets and the last swings at entry
    Sizes, Splits,    \* sizes at entry, and the weights of three slots
    BarShapes,        \* [low, high, close]
    Swings,           \* [low, high]: the last confirmed swings of a bar
    Evidence,         \* subset of {"candles", "ticks", "strict"}: no ticks,
                      \* ticks, or ticks without a fall back on candles
    SlModes, TpModes, \* [mode, explicit]: what the action says at entry
    BreakevenTrigger, \* breakeven_trigger_r, 0 for never
    BreakevenBuffer, SlBuffer,
    MaxTicks,         \* bound on the ticks of a bar
    MaxBars           \* bound on the bars of a position

ASSUME ManagedAssumption ==
    /\ \A m \in Markets :
           /\ m.dir \in {-1, 1} /\ m.stop \in Int /\ m.dir * m.stop < 0 /\ m.stop % 2 = 0
           /\ m.menu \in Seq(Int) /\ m.menu # <<>>
           /\ \A i \in 1 .. Len(m.menu) : m.dir * m.menu[i] > 0
           /\ \A i, j \in 1 .. Len(m.menu) : i < j => m.dir * m.menu[i] < m.dir * m.menu[j]
           /\ m.swing.low \in Int /\ m.swing.high \in Int
    /\ Sizes \subseteq Nat \ {0} /\ Splits \subseteq [1 .. 3 -> Nat \ {0}]
    /\ \A b \in BarShapes : {b.low, b.high, b.close} \subseteq Int
    /\ \A b \in Swings : {b.low, b.high} \subseteq Int
    /\ \A m \in SlModes \cup TpModes : m.mode \in {"fixed", "breakeven", "trailing"}
    /\ {BreakevenTrigger, BreakevenBuffer, SlBuffer, MaxTicks, MaxBars} \subseteq Nat

VARIABLES
    phase,  \* flat, hold, ticks, candle, ema, guards, closed or failed
    deal,   \* what was fixed at entry
    pos,    \* what the handlers change
    bar, nticks, filled,
    legs,   \* the exits: their slot, 0 for the whole rest, and their size
    nbars

vars == <<phase, deal, pos, bar, nticks, filled, legs, nbars>>

Ahead(dir, a, b) == dir * (a - b) > 0

(* The extremes of a bar for a position: what a target sees, and a stop. *)
Best(dir, b)  == IF dir = 1 THEN b.high ELSE b.low
Worst(dir, b) == IF dir = 1 THEN b.low ELSE b.high

-----------------------------------------------------------------------------
(* Entry *)

(* decode_tp_selections: s[i] is the menu entry chosen for a slot, 0 for   *)
(* none.  Of two slots in no order the nearer one is disabled.             *)
Disable(s, near, far) ==
    IF s[near] # 0 /\ s[far] # 0 /\ s[near] >= s[far] THEN [s EXCEPT ![near] = 0] ELSE s

Promoted(s) ==
    LET from == IF s[1] > s[2] THEN 1 ELSE 2
        kept == [s EXCEPT ![3] = s[from], ![from] = 0]
    IN  IF s = <<0, 0, 0>> THEN <<0, 0, 1>>
        ELSE IF s[3] # 0 THEN s ELSE Disable(kept, 3 - from, 3)

Decoded(s) == Disable(Disable(Disable(Promoted(s), 1, 2), 2, 3), 1, 3)

(* The targets of the slots that remain, and decode_tp_fractions: their    *)
(* weights, without the names of the slots.                                *)
Targets(menu, s) == [slot \in {i \in 1 .. 3 : s[i] # 0} |-> menu[s[slot]]]

Part(w, s, slot) == IF s[slot] # 0 THEN <<w[slot]>> ELSE <<>>
Fractions(w, s)  == Part(w, s, 1) \o Part(w, s, 2) \o Part(w, s, 3)

NoBar  == [low |-> 0, high |-> 0, close |-> 0]
NoDeal == [dir |-> 1]
NoPos  == [left |-> 0]

Init ==
    /\ phase = "flat" /\ deal = NoDeal /\ pos = NoPos /\ bar = NoBar
    /\ nticks = 0 /\ filled = FALSE /\ legs = <<>> /\ nbars = 0

(* _initialize_open_position.  An EMA-21 exit has a stop and no target.    *)
Open(m, tp, lots, size, ema) ==
    /\ \E sl \in SlModes, tpm \in TpModes, e \in Evidence :
        /\ deal' = [dir |-> m.dir, stop |-> m.stop, tp |-> tp, lots |-> lots, size |-> size,
                    ema |-> ema, swing |-> m.swing, slExplicit |-> sl.explicit,
                    tpExplicit |-> tpm.explicit, evidence |-> e]
        /\ pos' = [sl |-> m.stop, tp |-> tp, left |-> size, hit |-> {}, best |-> 0,
                   slMode |-> sl.mode, tpMode |-> tpm.mode, tpDone |-> FALSE,
                   beDone |-> FALSE]
    /\ phase' = "hold"
    /\ UNCHANGED <<bar, nticks, filled, legs, nbars>>

EnterStructural ==
    /\ phase = "flat"
    /\ \E m \in Markets, w \in Splits, size \in Sizes :
        \E s \in {Decoded(raw) : raw \in [1 .. 3 -> 0 .. Len(m.menu)]} :
            Open(m, Targets(m.menu, s), Fractions(w, s), size, FALSE)

EnterEma ==
    /\ phase = "flat"
    /\ \E m \in Markets, size \in Sizes : Open(m, <<>>, <<>>, size, TRUE)

-----------------------------------------------------------------------------
(* Exits *)

Dir == deal.dir
Risk == - Dir * deal.stop

(* Everything that is left is closed, by a target or, as slot 0, otherwise. *)
CloseAll ==
    /\ legs' = Append(legs, [slot |-> 0, size |-> pos.left, left |-> 0])
    /\ pos' = NoPos /\ phase' = "closed"

StopReached(p, price)         == ~Ahead(Dir, price, p.sl)
TargetReached(p, slot, price) == slot \in DOMAIN p.tp /\ ~Ahead(Dir, p.tp[slot], price)

(* Mutation: the buffer lies on the losing side of the entry. *)
ToBreakevenLosing(p) ==
    IF Ahead(Dir, - Dir * BreakevenBuffer, p.sl)
    THEN [p EXCEPT !.sl = - Dir * BreakevenBuffer, !.beDone = TRUE] ELSE p

(* The stop goes to the entry and a buffer, if that is tighter. *)
ToBreakeven(p) ==
    IF Ahead(Dir, Dir * BreakevenBuffer, p.sl)
    THEN [p EXCEPT !.sl = Dir * BreakevenBuffer, !.beDone = TRUE] ELSE p

(* Mutation: a slot that has been hit is forgotten. *)
ActiveUnfilled(p) == DOMAIN p.tp

(* The weights belong to the slots that were active at entry: those that   *)
(* have a price or have been hit.                                          *)
Active(p) == p.hit \cup DOMAIN p.tp

Rounded(a, b) == (2 * a + b) \div (2 * b)

(* The share of a slot that is not the last one: its part of the initial   *)
(* size, rounded, and all that is left if nothing remains of it.           *)
Total(lots) == (IF Len(lots) > 0 THEN lots[1] ELSE 0) + (IF Len(lots) > 1 THEN lots[2] ELSE 0)
                   + (IF Len(lots) > 2 THEN lots[3] ELSE 0)

ShareOf(active, slot) ==
    LET at == Cardinality({i \in active : i <= slot})
    IN  IF at <= Len(deal.lots) THEN Rounded(deal.lots[at] * deal.size, Total(deal.lots))
        ELSE Rounded(deal.size, Cardinality(active))

CloseSize(p, slot) ==
    LET share == ShareOf(Active(p), slot)
    IN  IF \A i \in DOMAIN p.tp : i <= slot \/ share = 0 THEN p.left
        ELSE IF share < p.left THEN share ELSE p.left

(* One slot of a bar or a tick: st holds the position and its exits. *)
FillSlot(st, slot, price) ==
    LET p    == st.pos
        size == CloseSize(p, slot)
        left == p.left - size
        rest == [p EXCEPT !.left = left, !.hit = @ \cup {slot},
                          !.tp = Restrict(@, DOMAIN @ \ {slot})]
    IN  IF p.left = 0 \/ ~TargetReached(p, slot, price) THEN st
        ELSE [pos  |-> IF BreakevenTrigger > 0 /\ left > 0 THEN ToBreakeven(rest) ELSE rest,
              legs |-> Append(st.legs, [slot |-> slot, size |-> size, left |-> left])]

(* The slots in their order, then the phase that follows. *)
FillTargets(price, next) ==
    LET st == FillSlot(FillSlot(FillSlot([pos |-> pos, legs |-> legs], 1, price), 2, price),
                       3, price)
    IN  /\ legs' = st.legs
        /\ pos' = IF st.pos.left = 0 THEN NoPos ELSE st.pos
        /\ phase' = IF st.pos.left = 0 THEN "closed" ELSE next

NextBar ==
    /\ phase = "hold" /\ nbars < MaxBars
    /\ bar' \in BarShapes
    /\ nbars' = nbars + 1 /\ nticks' = 0 /\ filled' = FALSE
    /\ phase' = IF deal.evidence = "candles" THEN "candle" ELSE "ticks"
    /\ UNCHANGED <<deal, pos, legs>>

(* _check_multi_tp_ticks: one tick, the stop before the targets. *)
Tick ==
    /\ phase = "ticks" /\ nticks < MaxTicks
    /\ nticks' = nticks + 1
    /\ \E price \in bar.low .. bar.high :
        \/ /\ StopReached(pos, price)
           /\ CloseAll
           /\ filled' = TRUE
        \/ /\ ~StopReached(pos, price)
           /\ FillTargets(price, "ticks")
           /\ filled' = (filled \/ legs' # legs)
    /\ UNCHANGED <<deal, bar, nbars>>

(* After a fill on a tick neither the range of the bar nor the EMA counts. *)
TicksFilled ==
    /\ phase = "ticks" /\ filled
    /\ phase' = "guards"
    /\ UNCHANGED <<deal, pos, bar, nticks, filled, legs, nbars>>

NoTickFill ==
    /\ phase = "ticks" /\ ~filled /\ deal.evidence = "ticks"
    /\ phase' = "candle"
    /\ UNCHANGED <<deal, pos, bar, nticks, filled, legs, nbars>>

(* TickExecutionUnavailable: a level was reached in a bar without ticks. *)
StrictTicks ==
    /\ phase = "ticks" /\ ~filled /\ deal.evidence = "strict"
    /\ phase' = IF nticks = 0 /\ (\/ StopReached(pos, Worst(Dir, bar))
                                  \/ \E slot \in DOMAIN pos.tp :
                                        TargetReached(pos, slot, Best(Dir, bar)))
                THEN "failed" ELSE "ema"
    /\ UNCHANGED <<deal, pos, bar, nticks, filled, legs, nbars>>

(* The bar alone: if its range holds the stop and a target, the stop wins. *)
StopOnCandle ==
    /\ phase = "candle" /\ StopReached(pos, Worst(Dir, bar))
    /\ CloseAll
    /\ UNCHANGED <<deal, bar, nticks, filled, nbars>>

TargetsOnCandle ==
    /\ phase = "candle" /\ ~StopReached(pos, Worst(Dir, bar))
    /\ FillTargets(Best(Dir, bar), "ema")
    /\ UNCHANGED <<deal, bar, nticks, filled, nbars>>

BestSoFar ==
    LET favorable == Dir * Best(Dir, bar)
    IN  IF favorable > pos.best THEN favorable ELSE pos.best

(* _maybe_ema_exit; the average itself is not modelled. *)
EmaExit ==
    /\ phase = "ema" /\ deal.ema /\ BestSoFar >= Risk
    /\ CloseAll
    /\ UNCHANGED <<deal, bar, nticks, filled, nbars>>

NoEmaExit ==
    /\ phase = "ema"
    /\ pos' = IF deal.ema THEN [pos EXCEPT !.best = BestSoFar] ELSE pos
    /\ phase' = "guards"
    /\ UNCHANGED <<deal, bar, nticks, filled, legs, nbars>>

-----------------------------------------------------------------------------
(* Guards *)

Rank == [fixed |-> 0, breakeven |-> 1, trailing |-> 2]

Advanced(mode, default) == IF Rank[default] > Rank[mode] THEN default ELSE mode

NewSwing(swing) ==
    IF Dir = 1 THEN swing.high > deal.swing.high ELSE swing.low < deal.swing.low

(* _default_sl_mode; whether the reference of the stop is taken, and the   *)
(* target beyond the swing, is left open.                                  *)
DefaultSlModes(swing) ==
    {"fixed", "breakeven"} \cup {mode \in {"trailing"} : NewSwing(swing)}

DefaultTpMode(p, swing) ==
    IF 2 * p.best < Risk THEN "fixed" ELSE IF NewSwing(swing) THEN "trailing" ELSE "breakeven"

(* _apply_breakeven *)
EarnedBreakeven(p) ==
    IF BreakevenTrigger > 0 /\ ~p.beDone /\ p.best >= BreakevenTrigger * Risk
    THEN ToBreakeven(p) ELSE p

(* Mutation: the newest swing, also where it is looser than the stop. *)
TrailedStopLoose(p, swing) ==
    LET sl == Worst(Dir, swing) - Dir * SlBuffer
    IN  IF p.slMode = "trailing" /\ Ahead(Dir, bar.close, sl)
        THEN [p EXCEPT !.sl = sl] ELSE p

(* _apply_trailing_stop *)
TrailedStop(p, swing) ==
    LET sl == Worst(Dir, swing) - Dir * SlBuffer
    IN  IF p.slMode = "trailing" /\ Ahead(Dir, bar.close, sl) /\ Ahead(Dir, sl, p.sl)
        THEN [p EXCEPT !.sl = sl] ELSE p

Nearest(p) == Min(DOMAIN p.tp)

(* _apply_tp_breakeven: the nearest target comes back to half the risk.    *)
PulledTarget(p) ==
    LET tp == Dir * (Risk \div 2)
    IN  IF p.tpDone \/ DOMAIN p.tp = {} THEN p
        ELSE IF Ahead(Dir, p.tp[Nearest(p)], tp) /\ Ahead(Dir, tp, bar.close)
        THEN [p EXCEPT !.tpDone = TRUE, !.tp[Nearest(p)] = tp]
        ELSE [p EXCEPT !.tpDone = TRUE]

(* reorder_remaining_targets: a slot is dropped that is not ahead of the   *)
(* entry and of the slots kept before it.                                  *)
Keep(p, kept, slot) ==
    IF /\ slot \in DOMAIN p.tp /\ Ahead(Dir, p.tp[slot], 0)
       /\ \A earlier \in kept : Ahead(Dir, p.tp[slot], p.tp[earlier])
    THEN kept \cup {slot} ELSE kept

Reordered(p) == [p EXCEPT !.tp = Restrict(@, Keep(p, Keep(p, Keep(p, {}, 1), 2), 3))]

(* Mutation: the later slots are not looked at. *)
OvertakesNone(p, price) == FALSE

Overtakes(p, price) ==
    \E slot \in DOMAIN p.tp \ {Nearest(p)} : ~Ahead(Dir, p.tp[slot], price)

(* _apply_tp_trailing *)
TrailedTarget(p, swing) ==
    LET tp == Best(Dir, swing)
    IN  IF p.tpMode # "trailing" \/ ~Ahead(Dir, tp, bar.close) THEN p
        ELSE IF DOMAIN p.tp = {} \/ ~Ahead(Dir, tp, p.tp[Nearest(p)]) THEN Reordered(p)
        ELSE IF Overtakes(p, tp) THEN p
        ELSE Reordered([p EXCEPT !.tp[Nearest(p)] = tp])

(* _apply_position_guards, when it does not close the position *)
Guarded(swing, slMode) ==
    LET seen  == [pos EXCEPT !.best = BestSoFar,
                             !.slMode = IF deal.slExplicit THEN @ ELSE Advanced(@, slMode)]
        tight == TrailedStop(IF seen.slMode # "fixed" THEN EarnedBreakeven(seen) ELSE seen, swing)
        aimed == [tight EXCEPT !.tpMode = IF deal.tpExplicit THEN @
                                          ELSE Advanced(@, DefaultTpMode(tight, swing))]
    IN  TrailedTarget(IF aimed.tpMode # "fixed" THEN PulledTarget(aimed) ELSE aimed, swing)

Guards ==
    /\ phase = "guards"
    /\ \E swing \in Swings : \E slMode \in DefaultSlModes(swing) : pos' = Guarded(swing, slMode)
    /\ phase' = "hold"
    /\ UNCHANGED <<deal, bar, nticks, filled, legs, nbars>>

(* _force_close_guard: too old, too far adrift or stale. *)
GuardClose ==
    /\ phase = "guards"
    /\ CloseAll
    /\ UNCHANGED <<deal, bar, nticks, filled, nbars>>

(* The rest of the step closes the position: the end of a session, a       *)
(* breach of the account, the agent.                                       *)
StepClose ==
    /\ phase = "hold"
    /\ CloseAll
    /\ UNCHANGED <<deal, bar, nticks, filled, nbars>>

Next ==
    \/ EnterStructural \/ EnterEma \/ NextBar
    \/ Tick \/ TicksFilled \/ NoTickFill \/ StrictTicks
    \/ StopOnCandle \/ TargetsOnCandle \/ EmaExit \/ NoEmaExit
    \/ Guards \/ GuardClose \/ StepClose

Spec == Init /\ [][Next]_vars

-----------------------------------------------------------------------------
(* Properties *)

InPosition == phase \notin {"flat", "closed"}

(* No slot is lost: as long as the position is open every target of the    *)
(* entry is filled or still works, the working ones stand in the order of  *)
(* their slots ahead of the entry however often they have been moved, and  *)
(* a position that was opened with targets has one left to close its rest  *)
(* (_apply_tp_trailing: "would silently discard its allocated quantity";   *)
(* docs/distributional_methodology.md: targets "retain their slot          *)
(* identities, allocated quantities").                                     *)
NothingDiscarded ==
    InPosition =>
        /\ DOMAIN pos.tp = DOMAIN deal.tp \ pos.hit
        /\ deal.ema \/ DOMAIN pos.tp # {}
        /\ \A i, j \in DOMAIN pos.tp : i < j => Ahead(Dir, pos.tp[j], pos.tp[i])
        /\ \A i \in DOMAIN pos.tp : Ahead(Dir, pos.tp[i], 0)

(* A target closes what was allocated to its own slot at entry, whatever   *)
(* was filled or moved before it; only the last one, or one whose share is *)
(* too small to be traded, closes the rest.  The slots are filled in their *)
(* order, each once, and the exits add up to the size at entry             *)
(* (tests/test_envs/test_tp_execution.py: "bar crossing multiple targets   *)
(* preserves slot quantities").                                            *)
SharesAsAllocated ==
    /\ \A leg \in {legs[i] : i \in 1 .. Len(legs)} : leg.slot # 0 =>
           LET share  == ShareOf(DOMAIN deal.tp, leg.slot)
               before == leg.size + leg.left
           IN  leg.size = IF leg.slot = Max(DOMAIN deal.tp) \/ share = 0 THEN before
                          ELSE Min({share, before})
    /\ \A i \in 2 .. Len(legs) : legs[i].slot = 0 \/ legs[i - 1].slot < legs[i].slot
    /\ phase = "closed" => FoldFunction(LAMBDA leg, sum : leg.size + sum, 0, legs) = deal.size

(* Once a target has been filled the rest of the position does not risk a  *)
(* loss any more: its stop stands at the entry and the buffer or beyond,   *)
(* through all later ticks, bars and moves.                                *)
RunnerProtected ==
    InPosition /\ BreakevenTrigger > 0 /\ pos.hit # {} =>
        ~Ahead(Dir, Dir * BreakevenBuffer, pos.sl)

(* No step of an open position moves its stop away from the price          *)
(* (_apply_breakeven: "Only ever tightens toward entry: never widens a     *)
(* stop"), although three handlers set it from three references.           *)
StopNeverWidens ==
    [][InPosition /\ InPosition' => ~Ahead(Dir, pos.sl, pos'.sl)]_vars
=============================================================================
