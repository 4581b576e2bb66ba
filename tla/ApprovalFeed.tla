---------------------------- MODULE ApprovalFeed ----------------------------
(***************************************************************************)
(* What Studio hears of runs that wait for a person: the engine and the    *)
(* approval worker behind the event bus (src/runtime/agent), the telemetry *)
(* server that sends what the bus dispatches, and the socket, which loses  *)
(* what it had not delivered.  Every run has one step, the approval.       *)
(*                                                                         *)
(* The state of the runs is asked for through the bus, and the snapshots   *)
(* go through it too: what is queued in between overtakes them.            *)
(***************************************************************************)
EXTENDS Projection

CONSTANTS
    Runs,
    MaxFaults        \* bound: losses of the connection, and pauses, resumptions and kills
ASSUME FeedBounds == MaxFaults \in Nat

VARIABLES
    bus,             \* events queued for dispatch, oldest first
    engine,          \* run |-> [status, node], "absent" before it is submitted
    worker,          \* run |-> "idle", "waiting", "resumed" or "ended"
    cancelled,       \* the runs whose context is cancelled
    decisions,       \* run |-> what the document beside its request holds
    link,            \* the socket is open
    wire,            \* events on their way to Studio
    raced,           \* a command was queued when the last state was taken: a history
    faults
feedVars == <<bus, engine, worker, cancelled, decisions, link, wire, raced, faults>>

Step == "approval"
NoDecision == "none"
Empty == "empty"     \* the document is created, and nothing is written in it yet
Decisions == {"APPROVED", "REJECTED"}

FeedInit ==
    /\ bus = <<>> /\ wire = <<>>
    /\ engine = [r \in Runs |-> [status |-> "absent", node |-> "pending"]]
    /\ worker = [r \in Runs |-> "idle"]
    /\ cancelled = {}
    /\ decisions = [r \in Runs |-> NoDecision]
    /\ link = FALSE /\ raced = FALSE
    /\ faults = 0

(* Events.  Time and numbers are abstracted; a node's task names its run.   *)
Event(type, payload, val) ==
    [id |-> 1, session |-> 1, type |-> type, payload |-> payload, val |-> val]
OfRun(type, r) == Event(type, Payload(r, None, None, None), None)
OfStep(type, r, val) == Event(type, Payload(None, <<r, Step>>, None, "hitl-agent"), val)
Log(r, signal, path) ==
    OfStep("WorkerLog", r, [signal |-> signal, path |-> path, mocked |-> FALSE])
StateRequested == Event("WorkflowStateRequested", NoPayload, None)
Snapshot(r) ==
    Event("WorkflowSnapshot", Payload(r, None, None, None),
          [status |-> engine[r].status, nodes |-> Step :> engine[r].node, edges |-> {}])
Started(r) ==
    Event("WorkflowStarted", Payload(r, None, None, None), [nodes |-> <<>>, edges |-> {}])
RunOfEvent(e) == IdentifyExecution(e.payload)

-----------------------------------------------------------------------------
(* A run is submitted: its step is dispatched, and the approval worker      *)
(* writes the request, names its file and says that it waits.               *)
Submit(r) ==
    /\ engine[r].status = "absent"
    /\ engine' = [engine EXCEPT ![r] = [status |-> "running", node |-> "running"]]
    /\ worker' = [worker EXCEPT ![r] = "waiting"]
    /\ bus' = bus \o <<Started(r), OfStep("WorkerStarted", r, None), Log(r, None, r),
                       Log(r, "human", None)>>
    /\ UNCHANGED <<cancelled, decisions, link, wire, raced, faults>>

(* The worker finds the document, whoever is still writing it: one that is  *)
(* empty is an invalid decision.  It may find it although its context is    *)
(* cancelled: the two are ready at once.                                    *)
Poll(r) ==
    /\ worker[r] = "waiting" /\ decisions[r] # NoDecision
    /\ IF decisions[r] = "APPROVED"
       THEN worker' = [worker EXCEPT ![r] = "resumed"] /\ bus' = Append(bus, Log(r, "RESUMED", None))
       ELSE worker' = [worker EXCEPT ![r] = "ended"]
            /\ bus' = Append(bus, OfStep("WorkerFailed", r,
                                 IF decisions[r] = Empty THEN "invalid" ELSE "rejected"))
    /\ UNCHANGED <<engine, cancelled, decisions, link, wire, raced, faults>>

(* The attempt ends, with the worker or because its context is cancelled.   *)
EndAttempt(r) ==
    /\ worker[r] = "resumed" \/ (worker[r] = "waiting" /\ r \in cancelled)
    /\ worker' = [worker EXCEPT ![r] = "ended"]
    /\ bus' = Append(bus, IF r \in cancelled THEN OfStep("WorkerFailed", r, "killed")
                          ELSE OfStep("WorkerCompleted", r, None))
    /\ UNCHANGED <<engine, cancelled, decisions, link, wire, raced, faults>>

Fault == faults < MaxFaults /\ faults' = faults + 1
Commands == {"ExecutionPaused", "ExecutionResumed", "ExecutionKilled"}
Command(r) ==
    /\ engine[r].status # "absent"
    /\ Fault
    /\ \E type \in Commands : bus' = Append(bus, OfRun(type, r))
    /\ UNCHANGED <<engine, worker, cancelled, decisions, link, wire, raced>>

-----------------------------------------------------------------------------
(* The dispatch goroutine takes one event: the engine handles it, what that *)
(* publishes goes to the end of the queue, and Studio is sent the event.    *)
(* The snapshots come in the order in which a map is walked.                *)
Going == {"running", "paused"}
Handled(e) ==
    LET r == RunOfEvent(e)
        s == engine[r].status
        to(status, node) == [engine EXCEPT ![r] = [status |-> status, node |-> node]]
    IN  CASE e.type = "WorkerCompleted" /\ s \in Going -> to("completed", "done")
          [] e.type = "WorkerFailed" /\ s \in Going -> to("failed", "failed")
          [] e.type = "ExecutionKilled" /\ s \in Going -> to("cancelled", engine[r].node)
          [] e.type = "ExecutionPaused" /\ s = "running" -> to("paused", engine[r].node)
          [] e.type = "ExecutionResumed" /\ s = "paused" -> to("running", engine[r].node)
          [] OTHER -> engine
Submitted == {r \in Runs : engine[r].status # "absent"}
Consequences(e, order) ==
    LET r == RunOfEvent(e)
    IN  CASE e.type = "WorkflowStateRequested" -> [i \in DOMAIN order |-> Snapshot(order[i])]
          [] e.type = "WorkerCompleted" /\ engine[r].status \in Going ->
                <<OfRun("WorkflowCompleted", r)>>
          [] e.type = "WorkerFailed" /\ engine[r].status \in Going ->
                <<OfRun("ExecutionKilled", r), OfStep("TaskFailed", r, None),
                  OfRun("WorkflowFailed", r)>>
          [] OTHER -> <<>>

Dispatch ==
    /\ bus # <<>>
    /\ LET e == Head(bus)
       IN  /\ engine' = Handled(e)
           /\ \E order \in SetToSeqs(Submitted) : bus' = Tail(bus) \o Consequences(e, order)
           /\ wire' = IF link THEN Append(wire, e) ELSE wire
           /\ cancelled' = IF e.type = "ExecutionKilled" THEN cancelled \cup {RunOfEvent(e)}
                           ELSE cancelled
           /\ raced' = IF e.type # "WorkflowStateRequested" THEN raced
                       ELSE \E i \in DOMAIN Tail(bus) : Tail(bus)[i].type \in Commands
    /\ UNCHANGED <<worker, decisions, link, faults>>

(* A client that connects is registered first, and then the state is asked. *)
Connect ==
    /\ ~link
    /\ link' = TRUE
    /\ bus' = Append(bus, StateRequested)
    /\ UNCHANGED <<engine, worker, cancelled, decisions, wire, raced, faults>>

Disconnect ==
    /\ link
    /\ Fault
    /\ link' = FALSE
    /\ wire' = <<>>
    /\ UNCHANGED <<bus, engine, worker, cancelled, decisions, raced>>
=============================================================================
