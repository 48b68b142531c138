----------------------------- MODULE MCBacktest -----------------------------
(***************************************************************************)
(* A small frame for Backtest: two days with bars before and after their   *)
(* New York sessions, and a gap between the days.                          *)
(***************************************************************************)
EXTENDS Backtest

At(session, ny, gap) == [session |-> session, ny |-> ny, gap |-> gap]

TwoDays ==
    <<At(1, TRUE, FALSE), At(1, TRUE, FALSE), At(1, TRUE, FALSE), At(1, FALSE, TRUE),
      At(2, FALSE, FALSE), At(2, TRUE, FALSE), At(2, TRUE, FALSE), At(2, FALSE, FALSE)>>

SomeSettings ==
    {s \in [mode : {"bars", "ticks", "strict"}, use_structure_sl_tp : BOOLEAN,
            exits : {TRUE}, block_overnight : BOOLEAN] :
        s.use_structure_sl_tp \/ s.block_overnight}
=============================================================================
