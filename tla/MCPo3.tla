------------------------------- MODULE MCPo3 --------------------------------
(***************************************************************************)
(* Bars that leave gaps up and down, sweep both references near and far,   *)
(* close through gaps from both sides and touch a zone without filling it; *)
(* the shipped modes, the historical one over more bars because its        *)
(* levels are swings of the bars themselves.                               *)
(***************************************************************************)
EXTENDS Po3

Bar(l, h, c, r) == [low |-> l, high |-> h, close |-> c, reach |-> r]

SomeBars == {Bar(0, 1, 1, 2), Bar(2, 3, 3, 2), Bar(4, 5, 4, 2), Bar(0, 5, 2, 2), Bar(3, 5, 5, 1)}

SomeReferences == {[dir |-> 1, tf |-> 3, level |-> 2], [dir |-> 1, tf |-> 5, level |-> 1],
                   [dir |-> -1, tf |-> 5, level |-> 3]}

SomeHigher == {[dir |-> 1, back |-> 2, low |-> 1, high |-> 2]}

Shipped == {[phases |-> "legacy", opposing |-> FALSE, threshold |-> 50, bars |-> 7],
            [phases |-> "revised", opposing |-> TRUE, threshold |-> 0, bars |-> 5]}
=============================================================================
