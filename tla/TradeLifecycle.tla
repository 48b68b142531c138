--------------------------- MODULE TradeLifecycle ---------------------------
(***************************************************************************)
(* What the environment promises about a trade when the entry machine is   *)
(* on: a position comes from an opportunity that was detected and armed    *)
(* first, keeps its direction until it is closed, and is never flipped or  *)
(* reopened without a new opportunity.                                     *)
(***************************************************************************)
EXTENDS Integers

VARIABLES phase, dir

Init == phase = "FLAT" /\ dir = 0

Detect(d) == /\ phase = "FLAT"
             /\ phase' = "CANDIDATE" /\ dir' = d
Arm       == /\ phase = "CANDIDATE"
             /\ phase' = "ARMED" /\ dir' = dir
Enter     == /\ phase = "ARMED"
             /\ phase' = "IN_POSITION" /\ dir' = dir
(* an opportunity is dropped, a position closed, an episode reset *)
Clear     == phase' = "FLAT" /\ dir' = 0

Next == Arm \/ Enter \/ Clear \/ \E d \in {1, -1} : Detect(d)

Spec == Init /\ [][Next]_<<phase, dir>>
=============================================================================
