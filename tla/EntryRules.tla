----------------------------- MODULE EntryRules -----------------------------
(***************************************************************************)
(* simulation/environment/entry_state.py: the lifecycle of one entry       *)
(* opportunity, as operators on the machine's record.  dir and origin are  *)
(* the EntryCandidate (0 when there is none); setup types and levels are   *)
(* carried along by the code and never decide anything.                    *)
(***************************************************************************)
EXTENDS Integers

CONSTANTS
    CandidateMaxAge,    \* candidate_max_age_bars
    ArmRequiresRetest   \* arm_requires_retest

ASSUME EntryAssumption ==
    /\ CandidateMaxAge \in Nat
    /\ ArmRequiresRetest \in BOOLEAN

EntryStates == {"FLAT", "CANDIDATE", "ARMED", "IN_POSITION"}

EntryMachine == [state : EntryStates, dir : {-1, 0, 1}, origin : Nat]

(* EntryEvidence of one bar *)
Evidence == [detected : BOOLEAN, invalidated : BOOLEAN, arm : BOOLEAN,
             retest : BOOLEAN, dir : {-1, 0, 1}]

Cleared == [state |-> "FLAT", dir |-> 0, origin |-> 0]

Creates(m, ev) ==
    /\ m.state = "FLAT"
    /\ ev.detected /\ ~ev.invalidated /\ ev.dir # 0

Drops(m, ev) ==
    /\ m.state \in {"CANDIDATE", "ARMED"}
    /\ ev.invalidated \/ (ev.dir = -m.dir /\ (ev.detected \/ ev.retest))

Expires(m, ev, bar) ==
    /\ m.state = "CANDIDATE" /\ ~Drops(m, ev)
    /\ bar - m.origin > CandidateMaxAge

Arms(m, ev, bar) ==
    /\ m.state = "CANDIDATE" /\ ~Drops(m, ev) /\ ~Expires(m, ev, bar)
    /\ ev.arm
    /\ ArmRequiresRetest => (ev.retest /\ ev.dir = m.dir)

(* observe: one bar of evidence.  Only a CANDIDATE ages; an executed       *)
(* opportunity ignores evidence.                                           *)
Observe(m, ev, bar) ==
    IF Creates(m, ev)
    THEN [state |-> "CANDIDATE", dir |-> ev.dir, origin |-> bar]
    ELSE IF Drops(m, ev) \/ Expires(m, ev, bar) THEN Cleared
    ELSE IF Arms(m, ev, bar) THEN [m EXCEPT !.state = "ARMED"]
    ELSE m

(* Mutation: a closed opportunity can be traded again. *)
MarkClosedRearms(m) ==
    IF m.state = "IN_POSITION" THEN [m EXCEPT !.state = "ARMED"] ELSE m

(* mark_entered and mark_closed raise RuntimeError outside their state. *)
CanMarkEntered(m) == m.state = "ARMED"
MarkEntered(m)    == [m EXCEPT !.state = "IN_POSITION"]
MarkClosed(m)     == IF m.state = "IN_POSITION" THEN Cleared ELSE m
=============================================================================
