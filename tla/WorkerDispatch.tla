--------------------------- MODULE WorkerDispatch ---------------------------
(***************************************************************************)
(* compute/slurm/worker_dispatch.py on one node of an allocation: clients  *)
(* (the srun the controller spawns for each worker) publish a request as a *)
(* file and wait for a result file; the node's manager claims requests,    *)
(* launches them in sessions of their own, kills the cancelled ones and    *)
(* leaves once the controller's exit marker is there.  The marker is       *)
(* written by the allocation script when the controller is gone, however   *)
(* it ended.  The manager itself may die at any step.                      *)
(***************************************************************************)
CONSTANT Clients    \* each makes one request, under an id of its own

Codes   == {"zero", "nonzero"}    \* what a process returns
Refused == "127"                  \* written when it could not be launched
None    == "none"

ASSUME DispatchAssumption == None \notin Clients

VARIABLES
    campaign,  \* the controller: "off", "open", "over" or "crashed"
    done,      \* CAMPAIGN_ALLOCATION_DONE_MARKER exists
    client,    \* where each client is
    got,       \* what _request returned
    file,      \* the request: in pending/, claimed/ or completed/
    cancel,    \* requests with a file in cancelled/
    result,    \* results/<request>.json
    proc,      \* the launched process: "none", "live", then its exit code
    mgr,       \* where the manager is
    at,        \* the request it is working on
    todo,      \* what its current pass over pending/ or `running` has left
    launched,  \* keys of the manager's `running`
    sent       \* cancel_sent_at: "no", "sent", and "overdue" after 60 s

dispatchVars == <<campaign, done, client, got, file, cancel, result, proc,
                  mgr, at, todo, launched, sent>>

controller == <<campaign, done>>
clients    == <<client, got, cancel>>
manager    == <<mgr, at, todo, launched, sent>>

Over(c)    == client[c] \in {"idle", "returned", "cancelled", "dead"}
Live(c)    == proc[c] = "live"
Pending    == {c \in Clients : file[c] = "pending"}
Working    == mgr \notin {"off", "exited", "dead"}

DispatchInit ==
    /\ campaign = "off" /\ done = FALSE
    /\ client = [c \in Clients |-> "idle"]
    /\ got    = [c \in Clients |-> None]
    /\ file   = [c \in Clients |-> "none"]
    /\ cancel = {}
    /\ result = [c \in Clients |-> None]
    /\ proc   = [c \in Clients |-> "none"]
    /\ mgr = "off" /\ at = None /\ todo = {} /\ launched = {}
    /\ sent   = [c \in Clients |-> "no"]

-----------------------------------------------------------------------------
(* The allocation and the controller *)

(* The managers are ready before the controller is started. *)
OpenController ==
    /\ campaign = "off" /\ mgr # "off"
    /\ campaign' = "open"
    /\ UNCHANGED <<done, clients, file, result, proc, manager>>

(* The controller returns when it has reaped every worker, or dies at any  *)
(* moment (timeout --kill-after among others) and leaves its clients.      *)
ControllerReturns ==
    /\ campaign = "open" /\ \A c \in Clients : Over(c)
    /\ campaign' = "over"
    /\ UNCHANGED <<done, clients, file, result, proc, manager>>

ControllerDies ==
    /\ campaign = "open"
    /\ campaign' = "crashed"
    /\ UNCHANGED <<done, clients, file, result, proc, manager>>

(* finish_allocation, the EXIT trap; it then waits for the manager. *)
MarkDone ==
    /\ campaign \in {"over", "crashed"} /\ ~done
    /\ done' = TRUE
    /\ UNCHANGED <<campaign, clients, file, result, proc, manager>>

-----------------------------------------------------------------------------
(* A client *)

Move(c, from, to) == client[c] = from /\ client' = [client EXCEPT ![c] = to]

SpawnClient(c) ==
    /\ campaign = "open" /\ Move(c, "idle", "starting")
    /\ UNCHANGED <<controller, got, cancel, file, result, proc, manager>>

(* The ready file is there (nothing removes it): install the handlers. *)
Arm(c) ==
    /\ mgr # "off" /\ Move(c, "starting", "armed")
    /\ UNCHANGED <<controller, got, cancel, file, result, proc, manager>>

Publish(c) ==
    /\ Move(c, "armed", "asked")
    /\ file' = [file EXCEPT ![c] = "pending"]
    /\ UNCHANGED <<controller, got, cancel, result, proc, manager>>

Receive(c) ==
    /\ Move(c, "asked", "returned") /\ result[c] # None
    /\ got' = [got EXCEPT ![c] = result[c]]
    /\ UNCHANGED <<controller, cancel, file, result, proc, manager>>

(* SIGTERM or SIGINT: cancel_request once the handlers are installed, the  *)
(* default action before.                                                  *)
Cancel(c) ==
    /\ \/ Move(c, "starting", "dead") /\ UNCHANGED cancel
       \/ /\ Move(c, "armed", "cancelled") \/ Move(c, "asked", "cancelled")
          /\ cancel' = cancel \cup {c}
    /\ UNCHANGED <<controller, got, file, result, proc, manager>>

(* SIGKILL leaves no cancel file. *)
ClientKilled(c) ==
    /\ ~Over(c)
    /\ client' = [client EXCEPT ![c] = "dead"]
    /\ UNCHANGED <<controller, got, cancel, file, result, proc, manager>>

-----------------------------------------------------------------------------
(* A worker process: it ends by itself, or through the signals it gets;    *)
(* SIGTERM may be ignored.                                                 *)

Exit(c) ==
    /\ Live(c)
    /\ \E code \in Codes : proc' = [proc EXCEPT ![c] = code]
    /\ UNCHANGED <<controller, clients, file, result, manager>>

-----------------------------------------------------------------------------
(* The manager *)

(* _manager up to its loop: the directories and the ready file. *)
StartManager ==
    /\ mgr = "off" /\ mgr' = "list"
    /\ UNCHANGED <<controller, clients, file, result, proc, at, todo, launched,
                   sent>>

ListPending ==
    /\ mgr = "list" /\ mgr' = "batch" /\ todo' = Pending
    /\ UNCHANGED <<controller, clients, file, result, proc, at, launched, sent>>

(* Mutation: the request is copied and stays in pending/. *)
ClaimedByCopy(c) == file

(* os.replace of the request into claimed/. *)
Claimed(c) == [file EXCEPT ![c] = "claimed"]

Claim(c) ==
    /\ mgr = "batch" /\ c \in todo
    /\ mgr' = "launch" /\ at' = c /\ todo' = todo \ {c}
    /\ file' = Claimed(c)
    /\ UNCHANGED <<controller, clients, result, proc, launched, sent>>

LaunchSucceeds ==
    /\ mgr = "launch" /\ mgr' = "batch" /\ at' = None
    /\ proc' = [proc EXCEPT ![at] = "live"]
    /\ launched' = launched \cup {at}
    /\ sent' = [sent EXCEPT ![at] = "no"]
    /\ UNCHANGED <<controller, clients, file, result, todo>>

(* Mutation: a failed launch is logged and nothing else. *)
WriteExitCode(c, code) ==
    IF code = Refused THEN UNCHANGED result
    ELSE result' = [result EXCEPT ![c] = code]

WriteResult(c, code) == result' = [result EXCEPT ![c] = code]

LaunchFails ==
    /\ mgr = "launch" /\ mgr' = "file-refused"
    /\ WriteResult(at, Refused)
    /\ UNCHANGED <<controller, clients, file, proc, at, todo, launched, sent>>

(* The claimed file goes to completed/ after the result is written. *)
File ==
    /\ \/ mgr = "file-refused" /\ mgr' = "batch" /\ UNCHANGED launched
       \/ mgr = "file-exited" /\ mgr' = "reap" /\ launched' = launched \ {at}
    /\ at' = None
    /\ file' = [file EXCEPT ![at] = "completed"]
    /\ UNCHANGED <<controller, clients, result, proc, todo, sent>>

ListRunning ==
    /\ mgr = "batch" /\ todo = {}
    /\ mgr' = "reap" /\ todo' = launched
    /\ UNCHANGED <<controller, clients, file, result, proc, at, launched, sent>>

(* Mutation: every round signals again and restarts the minute. *)
TerminateAgain(c) == c \in cancel /\ Live(c)

Terminate(c) == c \in cancel /\ sent[c] = "no" /\ Live(c)

(* SIGTERM for a cancelled worker, which it may ignore; SIGKILL 60 s later. *)
SignalWorker(c) ==
    /\ mgr = "reap" /\ c \in todo
    /\ mgr' = "poll" /\ at' = c /\ todo' = todo \ {c}
    /\ IF Terminate(c)
       THEN sent' = [sent EXCEPT ![c] = "sent"] /\ UNCHANGED proc
       ELSE UNCHANGED sent /\ IF sent[c] = "overdue" /\ Live(c)
                              THEN \E code \in Codes :
                                     proc' = [proc EXCEPT ![c] = code]
                              ELSE UNCHANGED proc
    /\ UNCHANGED <<controller, clients, file, result, launched>>

Poll ==
    /\ mgr = "poll"
    /\ IF Live(at)
       THEN mgr' = "reap" /\ at' = None /\ UNCHANGED result
       ELSE mgr' = "file-exited" /\ WriteResult(at, proc[at]) /\ UNCHANGED at
    /\ UNCHANGED <<controller, clients, file, proc, todo, launched, sent>>

(* Mutations: the manager leaves over a running worker, or over a request. *)
LeavesRunning == done /\ Pending = {}
LeavesPending == done /\ launched = {}

(* The end of a round: leave, or sleep and list pending/ again. *)
MayLeave == done /\ launched = {} /\ Pending = {}

EndRound ==
    /\ mgr = "reap" /\ todo = {}
    /\ mgr' = IF MayLeave THEN "exited" ELSE "list"
    /\ UNCHANGED <<controller, clients, file, result, proc, at, todo, launched,
                   sent>>

(* Sixty seconds pass after the first signal. *)
GraceOver(c) ==
    /\ Working /\ sent[c] = "sent"
    /\ sent' = [sent EXCEPT ![c] = "overdue"]
    /\ UNCHANGED <<controller, clients, file, result, proc, mgr, at, todo,
                   launched>>

(* Killed, or ended by an exception the launch does not catch (an error in *)
(* preexec_fn is a SubprocessError); the processes it started go on.       *)
ManagerDies ==
    /\ Working /\ mgr' = "dead"
    /\ UNCHANGED <<controller, clients, file, result, proc, at, todo, launched,
                   sent>>

-----------------------------------------------------------------------------
ClientStep(c)  == Arm(c) \/ Publish(c) \/ Receive(c)
ManagerStep ==
    \/ StartManager \/ ListPending \/ LaunchSucceeds \/ LaunchFails \/ File
    \/ ListRunning \/ Poll \/ EndRound
    \/ \E c \in Clients : Claim(c) \/ SignalWorker(c)
ScriptStep == OpenController \/ ControllerReturns \/ MarkDone

Finished == mgr \in {"exited", "dead"} /\ UNCHANGED dispatchVars

DispatchNext ==
    \/ ScriptStep \/ ControllerDies \/ ManagerStep \/ ManagerDies \/ Finished
    \/ \E c \in Clients : \/ SpawnClient(c) \/ ClientStep(c) \/ Cancel(c)
                          \/ ClientKilled(c) \/ Exit(c) \/ GraceOver(c)

(* Managers and clients poll in endless loops and time passes; a worker    *)
(* nobody cancelled ends its training.  A cancelled one may hang.          *)
Fairness ==
    /\ WF_dispatchVars(ManagerStep) /\ WF_dispatchVars(ScriptStep)
    /\ \A c \in Clients : /\ WF_dispatchVars(ClientStep(c))
                          /\ WF_dispatchVars(GraceOver(c))
                          /\ WF_dispatchVars(c \notin cancel /\ Exit(c))

DispatchSpec == DispatchInit /\ [][DispatchNext]_dispatchVars /\ Fairness
-----------------------------------------------------------------------------
(* Properties *)

(* Types. *)
DispatchTypeOK ==
    /\ campaign \in {"off", "open", "over", "crashed"} /\ done \in BOOLEAN
    /\ client \in [Clients -> {"idle", "starting", "armed", "asked",
                               "returned", "cancelled", "dead"}]
    /\ got \in [Clients -> Codes \cup {Refused, None}]
    /\ file \in [Clients -> {"none", "pending", "claimed", "completed"}]
    /\ cancel \subseteq Clients
    /\ result \in [Clients -> Codes \cup {Refused, None}]
    /\ proc \in [Clients -> Codes \cup {"none", "live"}]
    /\ mgr \in {"off", "list", "batch", "launch", "file-refused", "reap",
                "poll", "file-exited", "exited", "dead"}
    /\ at \in Clients \cup {None}
    /\ todo \subseteq Clients /\ launched \subseteq Clients
    /\ sent \in [Clients -> {"no", "sent", "overdue"}]

(* A manager that leaves has answered and filed every request it claimed,  *)
(* and none of the processes it launched is alive: the allocation script,  *)
(* which waits for it, cannot give the node back under a running worker.   *)
LeavesNothing ==
    mgr = "exited" => \A c \in Clients :
        /\ ~Live(c)
        /\ file[c] \in {"none", "pending", "completed"}
        /\ file[c] = "completed" => result[c] # None

(* If the controller ended by itself, the manager leaves no request behind *)
(* that nobody will look at.  (A controller that dies leaves clients which *)
(* may still publish after the manager's last look.)                       *)
NobodyStranded ==
    campaign = "over" /\ mgr = "exited" =>
        \A c \in Clients : Over(c) /\ file[c] # "pending"

(* The dispatch through files and processes is a RequestBoard: one launch  *)
(* for a request, one answer, and it reaches the client that asked.        *)
BoardStatus(c) ==
    IF result[c] # None THEN "answered"
    ELSE IF proc[c] \in Codes THEN "ended"
    ELSE IF Live(c) THEN "started"
    ELSE IF file[c] # "none" THEN "asked"
    ELSE "new"

Board == INSTANCE RequestBoard WITH
    status  <- [c \in Clients |-> BoardStatus(c)],
    outcome <- [c \in Clients |-> IF proc[c] \in Codes THEN proc[c]
                                  ELSE result[c]],
    got     <- got

ImplementsBoard == Board!Init /\ [][Board!Next]_(Board!vars)

(* A cancelled worker does not outlive its client for ever, even if it     *)
(* ignores SIGTERM, unless the manager has died.                           *)
CancelledStops ==
    \A c \in Clients : c \in cancel /\ Live(c) ~> ~Live(c) \/ mgr = "dead"

(* A client gets its answer, unless it is told to go, the manager dies or  *)
(* the controller does.                                                    *)
Answered ==
    \A c \in Clients :
        client[c] = "asked" ~> Over(c) \/ mgr = "dead" \/ campaign = "crashed"

=============================================================================
