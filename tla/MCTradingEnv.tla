---------------------------- MODULE MCTradingEnv ----------------------------
(***************************************************************************)
(* Small calendars for TradingEnv: two sessions with a night of one bar    *)
(* between them, and one bar after the last NY bar.                        *)
(***************************************************************************)
EXTENDS TradingEnv

ThreeAndThree   == <<0, 1, 2, 4, 5, 6>>
ThreeAndThreeOf == [i \in 0 .. 7 |-> IF i < 4 THEN 1 ELSE 2]
EightAndThree   == <<0, 1, 2, 3, 4, 5, 6, 7, 9, 10, 11>>
EightAndThreeOf == [i \in 0 .. 12 |-> IF i < 9 THEN 1 ELSE 2]

ASSUME CalendarAssumption == SessionsAreDates
=============================================================================
