----------------------------- MODULE GraphEngine -----------------------------
(***************************************************************************)
(* The workflow engine (runtime/agent/workflow_engine.go): executions,     *)
(* their nodes and attempts, the handlers the engine subscribes to the     *)
(* bus, workflow submission, and the durable snapshot.                     *)
(*                                                                         *)
(* A handler runs under the engine's mutex on the bus goroutine and ends   *)
(* with a save of the whole state.  A handler that dispatches several      *)
(* nodes saves once per node; `loop' is the part of such a handler, or of  *)
(* SubmitWorkflow on its own goroutine, that still holds the mutex.        *)
(***************************************************************************)
EXTENDS RuntimeBus, FiniteSets

CONSTANTS
    StaticCount,        \* StaticCount[e]: nodes of the workflow submitted as e
    StaticParents,      \* StaticParents[e][n]: the nodes n depends on
    MaxFaults           \* bound on the saves that fail

ASSUME EngineAssumption ==
    /\ StaticCount \in [Execs -> 1..MaxNodes]
    /\ StaticParents \in [Execs -> [Node -> SUBSET Node]]
    /\ \A e \in Execs : \A n \in Node :
          StaticParents[e][n] \subseteq 1..(n - 1)
    /\ MaxFaults \in Nat

ExecStatus == {"absent", "running", "paused", "completed", "failed",
               "cancelled", "interrupted"}
Terminal == {"completed", "failed", "cancelled"}
Live == {"running", "paused"}
NodeState == {"absent", "pending", "running", "done", "failed", "blocked",
              "interrupted"}
AttemptState == {"absent", "running", "succeeded", "failed", "interrupted"}

VARIABLES
    eng,                \* the engine's memory: executions, cancelled, paused
    disk,               \* the snapshot the execution store holds
    loop,               \* the dispatch loop that holds the mutex, or Idle
    cur,                \* the event whose later subscriber (the dispatcher) has yet to run
    faults,             \* saves that failed so far
    restartRequired     \* has this process announced that a save failed?

engineVars == <<eng, disk, loop, cur, faults, restartRequired>>

EngineState ==
    [status: [Execs -> ExecStatus],
     node: [Execs -> [Node -> NodeState]],
     artifact: [Execs -> SUBSET Node],
     attempt: [Execs -> [Node -> [Attempt -> AttemptState]]],
     active: [Execs -> [Node -> 0..MaxAttempts]],
     count: [Execs -> 0..MaxNodes],
     parents: [Execs -> [Node -> SUBSET Node]],
     cancelled: SUBSET Execs,
     paused: SUBSET Execs]

EmptyEngine ==
    [status    |-> [e \in Execs |-> "absent"],
     node      |-> [e \in Execs |-> [n \in Node |-> "absent"]],
     artifact  |-> [e \in Execs |-> {}],
     attempt   |-> [e \in Execs |-> [n \in Node |-> [a \in Attempt |-> "absent"]]],
     active    |-> [e \in Execs |-> [n \in Node |-> 0]],
     count     |-> [e \in Execs |-> 0],
     parents   |-> [e \in Execs |-> [n \in Node |-> {}]],
     cancelled |-> {},
     paused    |-> {}]

NoEvent == ExecEvent("none", NoExec, "none")
Idle == [owner |-> "none", exec |-> NoExec, todo |-> {}, node |-> 0]

LoopState == {Idle} \cup [owner: {"bus", "submit"}, exec: Execs,
                          todo: SUBSET Node, node: 0..MaxNodes]

StateTypeOK ==
    /\ eng \in EngineState
    /\ disk \in EngineState
    /\ faults \in 0..MaxFaults
    /\ restartRequired \in BOOLEAN

MutexTypeOK ==
    /\ loop \in LoopState
    /\ cur \in Event \cup {NoEvent}

EngineInit ==
    /\ eng = EmptyEngine
    /\ disk = EmptyEngine
    /\ loop = Idle
    /\ cur = NoEvent
    /\ faults = 0
    /\ restartRequired = FALSE

(***************************************************************************)
(* The graph of execution e in state s.                                    *)
(***************************************************************************)
NodesOf(s, e) == {n \in Node : n <= s.count[e]}
Roots(s, e) == {n \in NodesOf(s, e) : s.parents[e][n] = {}}
(* Wrong: the children a delegation added are left out. *)
StaticChildren(s, e, m) ==
    {n \in Node : n <= StaticCount[e] /\ m \in s.parents[e][n]}

Children(s, e, m) == {n \in NodesOf(s, e) : m \in s.parents[e][n]}

ParentsDone(s, e, n) == \A p \in s.parents[e][n] : s.node[e][p] = "done"

(***************************************************************************)
(* Loading the snapshot: nothing is running any more.  The status of a     *)
(* paused execution is kept.                                               *)
(***************************************************************************)
Recover(s) ==
    [s EXCEPT
       !.status = [e \in Execs |-> IF s.status[e] = "running" THEN "interrupted"
                                   ELSE s.status[e]],
       !.node = [e \in Execs |-> [n \in Node |->
                    IF s.node[e][n] = "running" THEN "interrupted"
                    ELSE s.node[e][n]]],
       !.attempt = [e \in Execs |-> [n \in Node |-> [a \in Attempt |->
                      IF s.active[e][n] = a /\ s.attempt[e][n][a] = "running"
                      THEN "interrupted" ELSE s.attempt[e][n][a]]]]]

(***************************************************************************)
(* reportPersistenceFailure: every running or paused execution, and the    *)
(* execution x the failed transition was about whatever its status, is     *)
(* interrupted; so are the running nodes and the node m of that transition.*)
(***************************************************************************)
Affected(s, x, e) == s.status[e] \in Live \/ (e = x /\ s.status[e] # "absent")

Report(s, x, m) ==
    [s EXCEPT
       !.status = [e \in Execs |-> IF Affected(s, x, e) THEN "interrupted"
                                   ELSE s.status[e]],
       !.cancelled = @ \cup {e \in Execs : Affected(s, x, e)},
       !.node = [e \in Execs |-> [n \in Node |->
                    IF /\ Affected(s, x, e)
                       /\ \/ s.node[e][n] = "running"
                          \/ e = x /\ n = m /\ s.node[e][n] # "absent"
                    THEN "interrupted" ELSE s.node[e][n]]],
       !.attempt = [e \in Execs |-> [n \in Node |-> [a \in Attempt |->
                      IF /\ Affected(s, x, e)
                         /\ s.active[e][n] = a
                         /\ s.attempt[e][n][a] = "running"
                      THEN "interrupted" ELSE s.attempt[e][n][a]]]]]

(***************************************************************************)
(* A save of state s either succeeds, and the handler goes on with bus b,  *)
(* or fails: the handler reports the failure of state s and stops.         *)
(***************************************************************************)
Saved(s, b) ==
    /\ eng' = s
    /\ disk' = s
    /\ bus' = b
    /\ UNCHANGED <<faults, restartRequired>>

SaveFailed(s, x, m, b) ==
    /\ faults < MaxFaults
    /\ faults' = faults + 1
    /\ restartRequired' = TRUE
    /\ eng' = Report(s, x, m)
    /\ disk' = disk
    /\ bus' = Publish(b, RuntimePersistenceFailed)

(***************************************************************************)
(* The bus goroutine hands the head event to the engine when it has        *)
(* finished with the previous event and the mutex is free.                 *)
(***************************************************************************)
Handling(t) ==
    /\ Delivers(t)
    /\ cur = NoEvent
    /\ loop.owner = "none"

Finished == loop' = Idle /\ cur' = NoEvent
ForDispatcher == loop' = Idle /\ cur' = HeadEvent
Unsaved == UNCHANGED <<disk, faults, restartRequired>>
Dropped == bus' = Remaining /\ Unsaved /\ UNCHANGED eng /\ Finished

Loops(e, S, n) ==
    /\ loop' = [owner |-> "bus", exec |-> e, todo |-> S, node |-> n]
    /\ cur' = NoEvent

-----------------------------------------------------------------------------
(* The handlers, in the order Start subscribes them. *)

HandleOverloaded ==
    LET hit == {e \in Execs : eng.status[e] \in Live}
        s == [eng EXCEPT
                !.status = [e \in Execs |-> IF e \in hit THEN "failed" ELSE @[e]],
                !.cancelled = @ \cup hit,
                !.node = [e \in Execs |-> [n \in Node |->
                            IF e \in hit /\ @[e][n] \notin {"done", "absent"}
                            THEN "failed" ELSE @[e][n]]]]
    IN  /\ Handling("RuntimeOverloaded")
        /\ \/ Saved(s, Remaining)
           \/ SaveFailed(s, NoExec, 0, Remaining)
        /\ ForDispatcher

HandleAttemptStarted ==
    LET e == HeadEvent.exec  n == HeadEvent.node  a == HeadEvent.attempt
        s == [eng EXCEPT !.attempt[e][n][a] = "running", !.active[e][n] = a]
    IN  /\ Handling("AttemptStarted")
        /\ IF eng.status[e] # "running" THEN Dropped
           ELSE /\ \/ Saved(s, Remaining)
                   \/ SaveFailed(s, NoExec, 0, Remaining)
                /\ Finished

(* Wrong: the record of a paused execution's attempt is not closed. *)
AttemptFinishedOnlyRunning ==
    LET e == HeadEvent.exec  n == HeadEvent.node  a == HeadEvent.attempt
        s == [eng EXCEPT !.attempt[e][n][a] =
                 IF @ = "running" THEN HeadEvent.arg ELSE @]
    IN  /\ Handling("AttemptFinished")
        /\ IF eng.status[e] # "running" THEN Dropped
           ELSE /\ Saved(s, Remaining)
                /\ Finished

HandleAttemptFinished ==
    LET e == HeadEvent.exec  n == HeadEvent.node  a == HeadEvent.attempt
        s == [eng EXCEPT !.attempt[e][n][a] =
                 IF @ = "running" THEN HeadEvent.arg ELSE @]
    IN  /\ Handling("AttemptFinished")
        /\ IF eng.status[e] = "absent" THEN Dropped
           ELSE /\ \/ Saved(s, Remaining)
                   \/ SaveFailed(s, NoExec, 0, Remaining)
                /\ Finished

(***************************************************************************)
(* A delegation adds one node below the supervisor, and with "return" a    *)
(* second one below it.  `authorized' stands for the registry and grant    *)
(* checks (workerExists, canDelegate).                                     *)
(***************************************************************************)
Grown(s, e, m, k) ==
    LET c == s.count[e]
    IN  [s EXCEPT
           !.count[e] = c + k,
           !.node[e] = [n \in Node |-> IF n \in (c + 1)..(c + k) THEN "pending"
                                       ELSE @[n]],
           !.parents[e] = [n \in Node |->
                             IF n = c + 1 THEN {m}
                             ELSE IF n = c + 2 /\ k = 2 THEN {c + 1}
                             ELSE @[n]]]

WithinBudgetOffByOne(e, k) == eng.count[e] + k <= MaxNodes + 1
WithinBudget(e, k) == eng.count[e] + k <= MaxNodes

HandleGraphMutation ==
    LET e == HeadEvent.exec  n == HeadEvent.node  a == HeadEvent.attempt
        k == IF HeadEvent.arg = "return" THEN 2 ELSE 1
    IN  /\ Handling("GraphMutationRequested")
        /\ \E authorized \in BOOLEAN :
              IF /\ eng.status[e] = "running"
                 /\ eng.active[e][n] = a
                 /\ WithinBudget(e, k)
                 /\ authorized
              THEN /\ \/ Saved(Grown(eng, e, n, k), Remaining)
                      \/ SaveFailed(eng, e, n, Remaining)
                   /\ Finished
              ELSE Dropped

HandleArtifact ==
    LET e == HeadEvent.exec  n == HeadEvent.node
        s == [eng EXCEPT !.artifact[e] = @ \cup {n}]
    IN  /\ Handling("ArtifactStored")
        /\ IF eng.status[e] \notin Live THEN Dropped
           ELSE /\ \/ Saved(s, Remaining)
                   \/ SaveFailed(s, e, n, Remaining)
                /\ Finished

(***************************************************************************)
(* A completion counts when it is the active attempt's.  Its handler goes  *)
(* on in the loop: dispatch the children, then see whether all is done.    *)
(* A failed save puts the active attempt back before it is reported.       *)
(***************************************************************************)
HandleWorkerCompleted ==
    LET e == HeadEvent.exec  n == HeadEvent.node  a == HeadEvent.attempt
        done == [eng EXCEPT !.node[e][n] = "done"]
        s == [done EXCEPT !.active[e][n] = 0]
    IN  /\ Handling("WorkerCompleted")
        /\ IF \/ eng.status[e] \notin Live
              \/ eng.node[e][n] # "running"
              \/ eng.active[e][n] # a
           THEN Dropped
           ELSE \/ Saved(s, Remaining) /\ Loops(e, Children(s, e, n), n)
                \/ SaveFailed(done, e, n, Remaining) /\ Finished

HandleWorkerFailed ==
    LET e == HeadEvent.exec  n == HeadEvent.node
        s == [eng EXCEPT
                !.status[e] = "failed",
                !.active[e][n] = 0,
                !.node[e] = [m \in Node |-> IF m = n THEN "failed"
                                            ELSE IF @[m] = "pending" THEN "blocked"
                                            ELSE @[m]]]
        b == Publish(Remaining, ExecEvent("ExecutionKilled", e, "none"))
    IN  /\ Handling("WorkerFailed")
        /\ IF eng.status[e] \notin Live THEN Dropped
           ELSE /\ \/ Saved(s, Publish(b, ExecEvent("WorkflowFailed", e, "none")))
                   \/ SaveFailed(s, e, n, b)
                /\ Finished

(***************************************************************************)
(* Kill, pause and resume of e are published again for compile-e, before   *)
(* the handler changes the state of e.                                     *)
(***************************************************************************)
Propagated(t, e) ==
    IF CompileOf[e] = NoExec THEN Remaining
    ELSE Publish(Remaining, ExecEvent(t, CompileOf[e], "none"))

Blocked(nodes) ==
    [n \in Node |-> IF nodes[n] \in {"pending", "interrupted"} THEN "blocked"
                    ELSE nodes[n]]

HandleKilled ==
    LET e == HeadEvent.exec
        s == [eng EXCEPT
                !.cancelled = @ \cup ({e, CompileOf[e]} \ {NoExec}),
                !.status[e] = IF @ \in Live THEN "cancelled" ELSE @,
                !.node[e] = Blocked(@)]
        b == Propagated("ExecutionKilled", e)
    IN  /\ Handling("ExecutionKilled")
        /\ \/ Saved(s, b)
           \/ SaveFailed(s, e, 0, b)
        /\ ForDispatcher

HandlePaused ==
    LET e == HeadEvent.exec
        s == [eng EXCEPT !.paused = @ \cup {e},
                         !.status[e] = IF @ = "running" THEN "paused" ELSE @]
        b == Propagated("ExecutionPaused", e)
    IN  /\ Handling("ExecutionPaused")
        /\ \/ Saved(s, b)
           \/ SaveFailed(s, e, 0, b)
        /\ Finished

(***************************************************************************)
(* Resume clears the pause flag; only a paused execution is saved and set  *)
(* going again, from its roots and the children of its done nodes.         *)
(***************************************************************************)
HandleResumed ==
    LET e == HeadEvent.exec
        cleared == [eng EXCEPT !.paused = @ \ {e}]
        s == [cleared EXCEPT !.status[e] = "running"]
        b == Propagated("ExecutionResumed", e)
        ready == Roots(s, e) \cup
                 UNION {Children(s, e, n) :
                          n \in {m \in NodesOf(s, e) : s.node[e][m] = "done"}}
    IN  /\ Handling("ExecutionResumed")
        /\ IF eng.status[e] # "paused"
           THEN /\ eng' = cleared
                /\ bus' = b
                /\ Unsaved
                /\ Finished
           ELSE \/ Saved(s, b) /\ Loops(e, ready, 0)
                \/ SaveFailed(cleared, e, 0, b) /\ Finished

(***************************************************************************)
(* The operator's decision about an interrupted execution.                 *)
(***************************************************************************)
HandleReconciled ==
    LET e == HeadEvent.exec
        again(n) == eng.node[e][n] = "interrupted"
        retry == [eng EXCEPT
                    !.status[e] = "running",
                    !.node[e] = [n \in Node |-> IF again(n) THEN "pending" ELSE @[n]],
                    !.active[e] = [n \in Node |-> IF again(n) THEN 0 ELSE @[n]]]
        final == [eng EXCEPT
                    !.status[e] = IF HeadEvent.arg = "cancel" THEN "cancelled"
                                  ELSE "failed",
                    !.node[e] = Blocked(@)]
        ready == {n \in Node : retry.node[e][n] = "pending"}
    IN  /\ Handling("ExecutionReconciled")
        /\ IF eng.status[e] # "interrupted" THEN Dropped
           ELSE IF HeadEvent.arg = "retry"
           THEN \/ Saved(retry, Remaining) /\ Loops(e, ready, 0)
                \/ SaveFailed(eng, e, 0, Remaining) /\ Finished
           ELSE /\ \/ Saved(final, Remaining)
                   \/ SaveFailed(final, e, 0, Remaining)
                /\ Finished

-----------------------------------------------------------------------------
(***************************************************************************)
(* SubmitWorkflow runs on a goroutine of the waitlist.  A refused or       *)
(* unsaved submission leaves no trace.                                     *)
(***************************************************************************)
NewExecution(s, e) ==
    [s EXCEPT
       !.status[e] = IF e \in s.paused THEN "paused" ELSE "running",
       !.count[e] = StaticCount[e],
       !.parents[e] = [n \in Node |-> IF n <= StaticCount[e]
                                      THEN StaticParents[e][n] ELSE {}],
       !.node[e] = [n \in Node |-> IF n <= StaticCount[e] THEN "pending"
                                   ELSE "absent"]]

(* Wrong: a kill that came first is forgotten. *)
MaySubmitKilled(e) == eng.status[e] = "absent"
MaySubmit(e) == e \notin eng.cancelled /\ eng.status[e] = "absent"

SubmitWorkflow(e) ==
    LET s == NewExecution(eng, e)
    IN  /\ loop.owner = "none"
        /\ Accepting(bus)
        /\ MaySubmit(e)
        /\ \/ /\ Saved(s, bus)
              /\ loop' = [owner |-> "submit", exec |-> e, todo |-> Roots(s, e),
                          node |-> 0]
           \/ /\ faults < MaxFaults
              /\ faults' = faults + 1
              /\ UNCHANGED <<eng, disk, bus, loop, restartRequired>>
        /\ UNCHANGED cur

(***************************************************************************)
(* One dispatch of the loop.  A handler's loop goes through                *)
(* checkAndDispatch; SubmitWorkflow calls dispatchNode for every root.     *)
(***************************************************************************)
(* Wrong: a node that is already running is dispatched again. *)
MayDispatchTwice(n) ==
    \/ loop.owner = "submit"
    \/ /\ eng.status[loop.exec] = "running"
       /\ eng.node[loop.exec][n] \in {"pending", "running"}
       /\ ParentsDone(eng, loop.exec, n)

(* Wrong: a pending node is dispatched before its parents are done. *)
MayDispatchEarly(n) ==
    \/ loop.owner = "submit"
    \/ /\ eng.status[loop.exec] = "running"
       /\ eng.node[loop.exec][n] = "pending"

MayDispatch(n) ==
    \/ loop.owner = "submit"
    \/ /\ eng.status[loop.exec] = "running"
       /\ eng.node[loop.exec][n] = "pending"
       /\ ParentsDone(eng, loop.exec, n)

(* Wrong: the task is handed out although the node could not be recorded. *)
DispatchUnrecorded(n) ==
    LET e == loop.exec
        s == [eng EXCEPT !.node[e][n] = "running"]
        b == Publish(bus, TaskEvent("TaskCreated", e, n, 0, "none"))
    IN  /\ loop.owner # "none"
        /\ n \in loop.todo
        /\ MayDispatch(n)
        /\ \/ Saved(s, b)
           \/ SaveFailed(s, e, n, b)
        /\ loop' = [loop EXCEPT !.todo = @ \ {n}]
        /\ UNCHANGED cur

DispatchNode(n) ==
    LET e == loop.exec
        s == [eng EXCEPT !.node[e][n] = "running"]
    IN  /\ loop.owner # "none"
        /\ n \in loop.todo
        /\ MayDispatch(n)
        /\ \/ Saved(s, Publish(bus, TaskEvent("TaskCreated", e, n, 0, "none")))
           \/ SaveFailed(s, e, n, bus)
        /\ loop' = [loop EXCEPT !.todo = @ \ {n}]
        /\ UNCHANGED cur

(***************************************************************************)
(* The end of the loop.  The handler of a completion (loop.node # 0) sees  *)
(* whether the whole execution is done.                                    *)
(***************************************************************************)
AllStaticDone(e) == \A n \in 1..StaticCount[e] : eng.node[e][n] = "done"
AllDone(e) == \A n \in NodesOf(eng, e) : eng.node[e][n] = "done"

(* Wrong: completion is announced, and saved only with a later event. *)
EndLoopUnsaved ==
    LET e == loop.exec
    IN  /\ loop.owner # "none"
        /\ \A n \in loop.todo : ~MayDispatch(n)
        /\ IF loop.node # 0 /\ AllDone(e)
           THEN /\ eng' = [eng EXCEPT !.status[e] = "completed"]
                /\ bus' = Publish(bus, ExecEvent("WorkflowCompleted", e, "none"))
                /\ Unsaved
           ELSE Unsaved /\ UNCHANGED <<eng, bus>>
        /\ loop' = Idle
        /\ UNCHANGED cur

EndLoop ==
    LET e == loop.exec
        s == [eng EXCEPT !.status[e] = "completed"]
    IN  /\ loop.owner # "none"
        /\ \A n \in loop.todo : ~MayDispatch(n)
        /\ IF loop.node # 0 /\ AllDone(e)
           THEN \/ Saved(s, Publish(bus, ExecEvent("WorkflowCompleted", e, "none")))
                \/ SaveFailed(s, e, loop.node, bus)
           ELSE Unsaved /\ UNCHANGED <<eng, bus>>
        /\ loop' = Idle
        /\ UNCHANGED cur

EngineHandler ==
    \/ HandleOverloaded
    \/ HandleAttemptStarted
    \/ HandleAttemptFinished
    \/ HandleGraphMutation
    \/ HandleArtifact
    \/ HandleWorkerCompleted
    \/ HandleWorkerFailed
    \/ HandleKilled
    \/ HandlePaused
    \/ HandleResumed
    \/ HandleReconciled

EngineLoop == EndLoop \/ \E n \in Node : DispatchNode(n)
=============================================================================
