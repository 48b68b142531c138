---------------------------- MODULE RequestBoard ----------------------------
(***************************************************************************)
(* What the dispatch of campaign workers promises, whatever files and      *)
(* processes carry it: a request is started at most once, it is answered   *)
(* with what its process returned (or with the refusal to start it), the   *)
(* answer never changes, and it is the only thing the client can receive.  *)
(***************************************************************************)
CONSTANTS Clients, Codes, Refused, None

VARIABLES status, outcome, got

vars == <<status, outcome, got>>

Init ==
    /\ status  = [c \in Clients |-> "new"]
    /\ outcome = [c \in Clients |-> None]
    /\ got     = [c \in Clients |-> None]

Move(c, from, to) == status[c] = from /\ status' = [status EXCEPT ![c] = to]

Ask(c)    == Move(c, "new", "asked")     /\ UNCHANGED <<outcome, got>>
Start(c)  == Move(c, "asked", "started") /\ UNCHANGED <<outcome, got>>
Answer(c) == Move(c, "ended", "answered") /\ UNCHANGED <<outcome, got>>

Refuse(c) ==
    /\ Move(c, "asked", "answered")
    /\ outcome' = [outcome EXCEPT ![c] = Refused]
    /\ UNCHANGED got

End(c) ==
    /\ Move(c, "started", "ended")
    /\ \E code \in Codes : outcome' = [outcome EXCEPT ![c] = code]
    /\ UNCHANGED got

Receive(c) ==
    /\ status[c] = "answered" /\ got[c] = None
    /\ got' = [got EXCEPT ![c] = outcome[c]]
    /\ UNCHANGED <<status, outcome>>

Next == \E c \in Clients :
    Ask(c) \/ Start(c) \/ Refuse(c) \/ End(c) \/ Answer(c) \/ Receive(c)

Spec == Init /\ [][Next]_vars
=============================================================================
