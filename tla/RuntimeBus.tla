----------------------------- MODULE RuntimeBus -----------------------------
(***************************************************************************)
(* What the graph engine and the dispatcher share: the execution, node and *)
(* attempt identities, the lifecycle events, and the bus that carries them *)
(* in one first-in first-out queue.                                        *)
(*                                                                         *)
(* Nodes are numbered.  A workflow of k nodes uses 1..k, parents before    *)
(* children, and a delegated node gets the next number: the engine names   *)
(* it dyn-<agent>-<len(Nodes)+1>.  Attempts of a node are numbered in the  *)
(* order their random identities are drawn.                                *)
(***************************************************************************)
EXTENDS BusQueue

CONSTANTS
    Execs,              \* execution identities
    NoExec,             \* "no execution": the empty identity
    CompileOf,          \* CompileOf[e]: the identity compile-e, or NoExec
    MaxNodes,           \* the node budget of an execution (exec.MaxNodes)
    MaxAttempts         \* bound on the attempts of one node

ASSUME BusAssumption ==
    /\ NoExec \notin Execs
    /\ CompileOf \in [Execs -> Execs \cup {NoExec}]
    /\ \A e \in Execs : CompileOf[e] # e
    /\ MaxNodes \in Nat \ {0}
    /\ MaxAttempts \in Nat \ {0}

Node == 1..MaxNodes
Attempt == 1..MaxAttempts

EventType ==
    {"TaskCreated", "AttemptStarted", "TaskResultCommitRequested",
     "ArtifactStored", "GraphMutationRequested", "AttemptFinished",
     "WorkerCompleted", "WorkerFailed", "ExecutionKilled", "ExecutionPaused",
     "ExecutionResumed", "ExecutionReconciled", "RuntimePersistenceFailed",
     "RuntimeOverloaded", "WorkflowCompleted", "WorkflowFailed"}

EventArg ==
    {"none", "succeeded", "failed", "retry", "fail", "cancel", "once", "return"}

EventRecord == [type: EventType, exec: Execs \cup {NoExec}, node: 0..MaxNodes,
                attempt: 0..MaxAttempts, arg: EventArg]

(***************************************************************************)
(* The payloads: an event about the runtime names no execution, an event   *)
(* about a task names its node, one about an attempt its attempt.          *)
(***************************************************************************)
RuntimeType == {"RuntimePersistenceFailed", "RuntimeOverloaded"}
TaskType == {"TaskCreated", "WorkerFailed"}
AttemptType == {"AttemptStarted", "TaskResultCommitRequested", "ArtifactStored",
                "GraphMutationRequested", "AttemptFinished", "WorkerCompleted"}

Event ==
    {ev \in EventRecord :
        /\ ev.type \notin RuntimeType => ev.exec \in Execs
        /\ ev.type \in TaskType \cup AttemptType => ev.node \in Node
        /\ ev.type \in AttemptType => ev.attempt \in Attempt
        /\ ev.type = "AttemptFinished" => ev.arg \in {"succeeded", "failed"}}

TaskEvent(t, e, n, a, x) ==
    [type |-> t, exec |-> e, node |-> n, attempt |-> a, arg |-> x]

ExecEvent(t, e, x) == TaskEvent(t, e, 0, 0, x)

RuntimeOverloaded == ExecEvent("RuntimeOverloaded", NoExec, "none")
RuntimePersistenceFailed == ExecEvent("RuntimePersistenceFailed", NoExec, "none")

VARIABLE
    bus                 \* a BusValue(Event)

(***************************************************************************)
(* Publish, as every publisher of these events calls it: none of them is   *)
(* a log line or the shutdown event.                                       *)
(***************************************************************************)
Publish(b, ev) == Enqueue(b, ev, RuntimeOverloaded, FALSE, FALSE)

HeadEvent == Head(bus.queue)
Remaining == [bus EXCEPT !.queue = Tail(@)]
Delivers(t) == bus.queue # <<>> /\ HeadEvent.type = t
=============================================================================
