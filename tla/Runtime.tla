------------------------------- MODULE Runtime -------------------------------
(***************************************************************************)
(* The graph engine and the dispatcher on one bus, with the operators who  *)
(* submit, kill, pause, resume and reconcile executions, and the process   *)
(* crashing and restarting from the engine's snapshot.                     *)
(***************************************************************************)
EXTENDS GraphEngine, Dispatcher

CONSTANTS
    Controls,           \* the control events operators use here
    MaxControls,        \* bound on the control events published
    MaxCrashes          \* bound on the crashes

ASSUME RuntimeAssumption ==
    /\ Controls \subseteq {"ExecutionKilled", "ExecutionPaused",
                           "ExecutionResumed", "ExecutionReconciled"}
    /\ MaxControls \in Nat
    /\ MaxCrashes \in Nat

VARIABLES
    controls,           \* control events published so far
    crashes             \* crashes so far

vars == <<bus, engineVars, dispatcherVars, controls, crashes>>

Init ==
    /\ bus = EmptyBus
    /\ EngineInit
    /\ DispatcherInit
    /\ controls = 0
    /\ crashes = 0

-----------------------------------------------------------------------------
(***************************************************************************)
(* The bus goroutine.  The engine's handlers run before the dispatcher's,  *)
(* which subscribes later; an event neither of them handles is consumed.   *)
(***************************************************************************)
EngineHandles ==
    EngineHandler /\ UNCHANGED <<dispatcherVars, controls, crashes>>

DispatcherFollows ==
    /\ cur # NoEvent
    /\ IF cur.type = "ExecutionKilled" THEN StopExecution(cur.exec)
       ELSE StopOnRuntimeFailure
    /\ cur' = NoEvent
    /\ UNCHANGED <<bus, eng, disk, loop, faults, restartRequired, controls, crashes>>

BusFree == cur = NoEvent /\ loop.owner # "bus"

DispatcherHandles ==
    /\ BusFree
    /\ \/ /\ Delivers("TaskCreated")
          /\ DispatchTask(HeadEvent.exec, HeadEvent.node)
       \/ /\ Delivers("RuntimePersistenceFailed")
          /\ bus' = Remaining
          /\ StopOnRuntimeFailure
       \/ /\ Delivers("TaskResultCommitRequested")
          /\ CommitResult
    /\ UNCHANGED <<engineVars, controls, crashes>>

Observed ==
    /\ BusFree
    /\ Delivers("WorkflowCompleted") \/ Delivers("WorkflowFailed")
    /\ bus' = Remaining
    /\ UNCHANGED <<engineVars, dispatcherVars, controls, crashes>>

BusStep == EngineHandles \/ DispatcherFollows \/ DispatcherHandles \/ Observed

LoopStep == EngineLoop /\ UNCHANGED <<dispatcherVars, controls, crashes>>

TaskSteps(e, n) == TaskStep(e, n) /\ UNCHANGED <<engineVars, controls, crashes>>

DeadlinePasses(e, n) == Deadline(e, n) /\ UNCHANGED <<engineVars, controls, crashes>>

Submit(e) ==
    SubmitWorkflow(e) /\ UNCHANGED <<dispatcherVars, controls, crashes>>

(***************************************************************************)
(* An operator's control event for execution e.  Reconciliation answers an *)
(* execution seen interrupted, by a restart or by a failed save; the other *)
(* events may come at any time, also before the execution is submitted or  *)
(* after it has ended.                                                     *)
(***************************************************************************)
Control(t, e) ==
    /\ t \in Controls
    /\ t = "ExecutionReconciled" => eng.status[e] = "interrupted"
    /\ controls < MaxControls
    /\ controls' = controls + 1
    /\ \E x \in IF t = "ExecutionReconciled" THEN {"retry", "fail", "cancel"}
                ELSE {"none"} :
          bus' = Publish(bus, ExecEvent(t, e, x))
    /\ UNCHANGED <<engineVars, dispatcherVars, crashes>>

(***************************************************************************)
(* The process dies and is started again: queue, goroutines and memory are *)
(* gone, the engine recovers what the snapshot holds.                      *)
(***************************************************************************)
Crash ==
    /\ crashes < MaxCrashes
    /\ crashes' = crashes + 1
    /\ bus' = EmptyBus
    /\ eng' = Recover(disk)
    /\ disk' = Recover(disk)
    /\ loop' = Idle
    /\ cur' = NoEvent
    /\ restartRequired' = FALSE
    /\ stopped' = {}
    /\ activeTasks' = {}
    /\ task' = [e \in Execs |-> [n \in Node |-> NoTask]]
    /\ UNCHANGED <<faults, issued, controls>>

Next ==
    \/ BusStep
    \/ LoopStep
    \/ \E e \in Execs : Submit(e)
    \/ \E e \in Execs, n \in Node : TaskSteps(e, n) \/ DeadlinePasses(e, n)
    \/ \E t \in Controls, e \in Execs : Control(t, e)
    \/ Crash

Spec == Init /\ [][Next]_vars

(***************************************************************************)
(* The bus goroutine and every task goroutine keep running; a worker that  *)
(* runs returns, fails or meets its attempt's time limit, except one that  *)
(* waits for a person.  Nobody has to submit, control or crash anything.   *)
(***************************************************************************)
Fairness ==
    /\ WF_vars(BusStep)
    /\ WF_vars(LoopStep)
    /\ \A e \in Execs, n \in Node :
          WF_vars(~AwaitsPerson(e, n) /\ TaskSteps(e, n))

LiveSpec == Spec /\ Fairness
-----------------------------------------------------------------------------
(***************************************************************************)
(* Every variable keeps its type: no handler indexes an event, a node or   *)
(* an attempt that does not exist, and no delegation grows a graph past    *)
(* its budget (exec.MaxNodes).                                             *)
(***************************************************************************)
TypeOK ==
    /\ bus \in BusValue(Event)
    /\ StateTypeOK
    /\ MutexTypeOK
    /\ DispatcherTypeOK
    /\ controls \in 0..MaxControls
    /\ crashes \in 0..MaxCrashes

(***************************************************************************)
(* A node of a live or interrupted execution runs only while every node it *)
(* depends on is done: whatever the order in which completions, failures,  *)
(* delegations, pauses and retries are handled (checkAndDispatch).         *)
(***************************************************************************)
DepsDone(s) ==
    \A e \in Execs : \A n \in Node :
        (s.status[e] \in Live \cup {"interrupted"} /\ s.node[e][n] = "running")
            => \A p \in s.parents[e][n] : s.node[e][p] = "done"

DependenciesDone == DepsDone(eng)

(***************************************************************************)
(* An execution is completed, in memory and in the snapshot, only with     *)
(* every node of its graph done, nodes added by delegation included.       *)
(***************************************************************************)
CompletedMeansAllDone ==
    \A s \in {eng, disk} : \A e \in Execs :
        s.status[e] = "completed" => \A n \in NodesOf(s, e) : s.node[e][n] = "done"

(***************************************************************************)
(* A node that is done and whose worker returns an artifact has that       *)
(* artifact recorded: a result is committed before dependents can read it. *)
(***************************************************************************)
DoneHasArtifact ==
    \A e \in Execs : \A n \in Producers :
        eng.node[e][n] = "done" => n \in eng.artifact[e]

(* The places of the TaskCreated events of a node in a queue. *)
Queued(q, e, n) == {i \in 1..Len(q) : /\ q[i].type = "TaskCreated"
                                      /\ q[i].exec = e
                                      /\ q[i].node = n}

(***************************************************************************)
(* A node is handed out once: it never has a goroutine and a TaskCreated,  *)
(* or two of either, at the same time, however pauses, resumes, kills and  *)
(* retries after a restart are ordered.  Only in a process whose save has  *)
(* failed may a reconciliation that was queued hand a node out again.      *)
(***************************************************************************)
SingleDispatch ==
    restartRequired \/
        \A e \in Execs : \A n \in Node :
            Cardinality(Queued(bus.queue, e, n))
                + (IF task[e][n].pc = "none" THEN 0 ELSE 1) <= 1

(***************************************************************************)
(* As long as every save succeeds, an attempt recorded as running is the   *)
(* node's active attempt, so that recovery, which looks only at the active *)
(* one, leaves no attempt running in the record for ever.                  *)
(***************************************************************************)
RunningAttemptIsActive ==
    faults = 0 => \A s \in {eng, disk} : \A e \in Execs : \A n \in Node : \A a \in Attempt :
        s.attempt[e][n][a] = "running" => s.active[e][n] = a

(***************************************************************************)
(* Work is recorded before it is handed out, also when saves fail: a step  *)
(* that queues TaskCreated leaves the node running in the snapshot         *)
(* (dispatchNode, SubmitWorkflow).                                         *)
(***************************************************************************)
RecordedBeforeDispatch ==
    [][\A e \in Execs : \A n \in Node :
          Cardinality(Queued(bus'.queue, e, n)) > Cardinality(Queued(bus.queue, e, n))
              => disk'.node[e][n] = "running"]_vars

(***************************************************************************)
(* An outcome that is announced and that the engine still holds is durable.*)
(***************************************************************************)
AnnouncedIsDurable ==
    \A i \in 1..Len(bus.queue) :
        LET ev == bus.queue[i]
        IN  /\ ev.type = "WorkflowCompleted" /\ eng.status[ev.exec] = "completed"
                  => disk.status[ev.exec] = "completed"
            /\ ev.type = "WorkflowFailed" /\ eng.status[ev.exec] = "failed"
                  => disk.status[ev.exec] = "failed"

(***************************************************************************)
(* A killed execution stays dead: while nobody reconciles it, it is live   *)
(* only as long as its own kill (or the overload that replaced it) is      *)
(* still queued.  A kill reaches the compile execution, and a submission   *)
(* that comes after the kill is refused.                                   *)
(***************************************************************************)
KilledStaysDead ==
    \A e \in eng.cancelled : eng.status[e] \in Live =>
        \E i \in 1..Len(bus.queue) :
            \/ bus.queue[i] = ExecEvent("ExecutionKilled", e, "none")
            \/ bus.queue[i] = RuntimeOverloaded

(***************************************************************************)
(* At most Slots attempts execute at once.                                 *)
(***************************************************************************)
SlotsRespected == Cardinality(Executing) <= Slots

(***************************************************************************)
(* What is over is really over: an execution with all its nodes, a node    *)
(* with its artifact (the end loop, the ArtifactRecorded handler).         *)
(***************************************************************************)
DoneIsDone == CompletedMeansAllDone /\ DoneHasArtifact

(***************************************************************************)
(* One attempt at a time: a node is handed out once, and no attempt but    *)
(* the active one is recorded as running (dispatchNode, AttemptStarted,    *)
(* AttemptFinished).                                                       *)
(***************************************************************************)
OneAttemptAtATime == SingleDispatch /\ RunningAttemptIsActive

(***************************************************************************)
(* Once the dispatcher has stopped an execution, all its goroutines end,   *)
(* those that wait for a person included.                                  *)
(***************************************************************************)
KillEndsWork ==
    \A e \in Execs : (e \in stopped) ~> (\A n \in Node : task[e][n].pc = "none")

(* Some worker of e is with a person, where no deadline passes. *)
WaitsForPerson(e) == \E n \in Node : AwaitsPerson(e, n)

(***************************************************************************)
(* An execution that runs comes to an end, unless it is paused, interrupted*)
(* by a failure, or waits for a person: no completion, retry or delegation *)
(* leaves a node behind (checkAndDispatch, the attempt loop).              *)
(***************************************************************************)
ExecutionEnds ==
    \A e \in Execs : (eng.status[e] = "running") ~>
        (eng.status[e] # "running" \/ WaitsForPerson(e))

-----------------------------------------------------------------------------
(* What a document of the repository says and the code does not keep.      *)

(***************************************************************************)
(* "Pause stops new graph dispatch but does not suspend already-running    *)
(* work": work that comes back while its execution is paused is recorded,  *)
(* its node does not stay running for ever.                                *)
(***************************************************************************)
PausedWorkIsRecorded ==
    \A e \in Execs : \A n \in Node :
        (eng.status[e] = "paused" /\ task[e][n].pc = "returned")
            ~> (eng.node[e][n] # "running")
=============================================================================
