----------------------------- MODULE Dispatcher -----------------------------
(***************************************************************************)
(* The dispatcher (runtime/agent/dispatcher.go): it turns TaskCreated into *)
(* a goroutine per node, which runs attempts until one succeeds, the       *)
(* budget is spent or its context ends, and it cancels goroutines when an  *)
(* execution is killed or the runtime fails.                               *)
(*                                                                         *)
(* The worker process and the memory manager are seen through what their   *)
(* callers observe: an attempt succeeds or fails, and a result commit is   *)
(* acknowledged after the artifact has been announced.                     *)
(***************************************************************************)
EXTENDS RuntimeBus, FiniteSets

CONSTANTS
    MaxRetries,         \* attempts of one task (max_retries, clamped to 1..15)
    Slots,              \* 16 in the code: attempts that execute at once
    Producers,          \* nodes whose worker returns an artifact
    Delegators,         \* nodes whose worker may ask for a delegation
    Approvals,          \* nodes that wait for a person (hitl-agent)
    Deadlines           \* may a task's own deadline expire?

ASSUME DispatcherAssumption ==
    /\ MaxRetries \in 1..15
    /\ Slots \in Nat \ {0}
    /\ Producers \subseteq Node
    /\ Delegators \subseteq Node
    /\ Approvals \subseteq Node
    /\ Deadlines \in BOOLEAN

VARIABLES
    stopped,            \* d.cancelled: executions whose tasks are refused
    activeTasks,        \* d.activeTasks: the registered <<execution, node>>
    task,               \* task[e][n]: the goroutine of node n, if any
    issued              \* issued[e][n]: attempt identities drawn so far

dispatcherVars == <<stopped, activeTasks, task, issued>>

(***************************************************************************)
(* Where a task goroutine is: at the top of its attempt loop, waiting for  *)
(* a slot, executing the worker, waiting for the acknowledgement of the    *)
(* result, able to read it, back from the worker, or at its cleanup.       *)
(***************************************************************************)
TaskPc == {"none", "select", "slot", "execute", "commit", "acked", "returned",
           "exit"}

Attempting == {"slot", "execute", "commit", "acked", "returned"}

Task == {t \in [pc: TaskPc, tries: 0..MaxRetries, attempt: 0..MaxAttempts,
                done: BOOLEAN] :          \* done: ctx.Done() is closed
           t.pc \in Attempting => t.attempt \in Attempt}

NoTask == [pc |-> "none", tries |-> 0, attempt |-> 0, done |-> FALSE]

DispatcherTypeOK ==
    /\ stopped \subseteq Execs
    /\ activeTasks \subseteq Execs \X Node
    /\ task \in [Execs -> [Node -> Task]]
    /\ issued \in [Execs -> [Node -> 0..MaxAttempts]]

DispatcherInit ==
    /\ stopped = {}
    /\ activeTasks = {}
    /\ task = [e \in Execs |-> [n \in Node |-> NoTask]]
    /\ issued = [e \in Execs |-> [n \in Node |-> 0]]

Executing == {x \in Execs \X Node :
                task[x[1]][x[2]].pc \in {"execute", "commit", "acked", "returned"}}

Cancel(T) == [e \in Execs |-> [n \in Node |->
                 IF <<e, n>> \in T THEN [task[e][n] EXCEPT !.done = TRUE]
                 ELSE task[e][n]]]

-----------------------------------------------------------------------------
(* The handlers of the bus goroutine. *)

(***************************************************************************)
(* The runtime failed: every execution with a registered task is stopped.  *)
(***************************************************************************)
StopOnRuntimeFailure ==
    /\ stopped' = stopped \cup {x[1] : x \in activeTasks}
    /\ task' = Cancel(activeTasks)
    /\ UNCHANGED <<activeTasks, issued>>

(* Wrong: the contexts of the execution's goroutines are left open. *)
StopExecutionNoCancel(e) ==
    LET own == {x \in activeTasks : x[1] = e}
    IN  /\ stopped' = stopped \cup ({e, CompileOf[e]} \ {NoExec})
        /\ activeTasks' = activeTasks \ own
        /\ UNCHANGED <<task, issued>>

StopExecution(e) ==
    LET compile == {x \in activeTasks : x[1] = CompileOf[e]}
        own == {x \in activeTasks : x[1] = e}
    IN  /\ stopped' = stopped \cup ({e, CompileOf[e]} \ {NoExec})
        /\ task' = Cancel(compile \cup own)
        /\ activeTasks' = activeTasks \ own
        /\ UNCHANGED issued

Startable(e, n) == e \notin stopped /\ <<e, n>> \notin activeTasks

(***************************************************************************)
(* TaskCreated: an unknown worker fails the task at once; a stopped        *)
(* execution or a registered task drops it; otherwise a goroutine starts.  *)
(***************************************************************************)
DispatchTask(e, n) ==
    \/ /\ bus' = Publish(Remaining, TaskEvent("WorkerFailed", e, n, 0, "none"))
       /\ UNCHANGED dispatcherVars
    \/ /\ ~Startable(e, n)
       /\ bus' = Remaining
       /\ UNCHANGED dispatcherVars
    \/ /\ Startable(e, n)
       /\ bus' = Remaining
       /\ activeTasks' = activeTasks \cup {<<e, n>>}
       /\ task' = [task EXCEPT ![e][n] = [NoTask EXCEPT !.pc = "select"]]
       /\ UNCHANGED <<stopped, issued>>

-----------------------------------------------------------------------------
(* The goroutine of a task. *)

Move(e, n, pc) == task' = [task EXCEPT ![e][n].pc = pc]

AttemptFinished(b, e, n, outcome) ==
    Publish(b, TaskEvent("AttemptFinished", e, n, task[e][n].attempt, outcome))

WorkerFailed(b, e, n) == Publish(b, TaskEvent("WorkerFailed", e, n, 0, "none"))

(***************************************************************************)
(* The task gives up before an attempt: its context ended, its budget is   *)
(* spent, no device or no model route could be had.                        *)
(***************************************************************************)
GiveUp(e, n) ==
    /\ task[e][n].pc = "select"
    /\ bus' = WorkerFailed(bus, e, n)
    /\ Move(e, n, "exit")
    /\ UNCHANGED <<stopped, activeTasks, issued>>

(***************************************************************************)
(* A new attempt is announced.  The tool broker may refuse to open its     *)
(* session, which ends the task.                                           *)
(***************************************************************************)
StartAttempt(e, n) ==
    LET a == issued[e][n] + 1
        b == Publish(bus, TaskEvent("AttemptStarted", e, n, a, "none"))
        t == [task[e][n] EXCEPT !.tries = @ + 1, !.attempt = a]
    IN  /\ task[e][n].pc = "select"
        /\ ~task[e][n].done
        /\ task[e][n].tries < MaxRetries
        /\ a <= MaxAttempts
        /\ issued' = [issued EXCEPT ![e][n] = a]
        /\ \/ /\ bus' = b
              /\ task' = [task EXCEPT ![e][n] = [t EXCEPT !.pc = "slot"]]
           \/ /\ bus' = WorkerFailed(
                   Publish(b, TaskEvent("AttemptFinished", e, n, a, "failed")), e, n)
              /\ task' = [task EXCEPT ![e][n] = [t EXCEPT !.pc = "exit"]]
        /\ UNCHANGED <<stopped, activeTasks>>

AcquireSlot(e, n) ==
    /\ task[e][n].pc = "slot"
    /\ Cardinality(Executing) < Slots
    /\ Move(e, n, "execute")
    /\ UNCHANGED <<bus, stopped, activeTasks, issued>>

(***************************************************************************)
(* The context ended while waiting for a slot or during the attempt, even  *)
(* if the worker has succeeded: the task fails.                            *)
(***************************************************************************)
Abandon(e, n) ==
    /\ task[e][n].pc \in Attempting
    /\ task[e][n].done
    /\ bus' = WorkerFailed(AttemptFinished(bus, e, n, "failed"), e, n)
    /\ Move(e, n, "exit")
    /\ UNCHANGED <<stopped, activeTasks, issued>>

(***************************************************************************)
(* The worker fails, or the attempt's own time limit passes (while it      *)
(* waits for the acknowledgement, or just as that arrives).  A retryable   *)
(* failure goes back to the top of the loop, any other ends the task.      *)
(***************************************************************************)
FailAttempt(e, n) ==
    /\ task[e][n].pc \in {"execute", "commit", "acked"}
    /\ ~task[e][n].done
    /\ \/ /\ bus' = AttemptFinished(bus, e, n, "failed")
          /\ Move(e, n, "select")
       \/ /\ bus' = WorkerFailed(AttemptFinished(bus, e, n, "failed"), e, n)
          /\ Move(e, n, "exit")
    /\ UNCHANGED <<stopped, activeTasks, issued>>

(***************************************************************************)
(* The worker returns a valid response with an artifact: the commit of the *)
(* result is requested and awaited.                                        *)
(***************************************************************************)
RequestCommit(e, n) ==
    /\ task[e][n].pc = "execute"
    /\ n \in Producers
    /\ bus' = Publish(bus, TaskEvent("TaskResultCommitRequested", e, n,
                                     task[e][n].attempt, "none"))
    /\ Move(e, n, "commit")
    /\ UNCHANGED <<stopped, activeTasks, issued>>

(***************************************************************************)
(* The memory manager's handler commits the result, announces the artifact *)
(* and acknowledges the commit to the attempt, if it still waits.          *)
(***************************************************************************)
CommitResult ==
    LET e == HeadEvent.exec  n == HeadEvent.node  a == HeadEvent.attempt
        waits == task[e][n].pc = "commit" /\ task[e][n].attempt = a
    IN  /\ bus' = Publish(Remaining, TaskEvent("ArtifactStored", e, n, a, "none"))
        /\ task' = [task EXCEPT ![e][n].pc = IF waits THEN "acked" ELSE @]
        /\ UNCHANGED <<stopped, activeTasks, issued>>

(***************************************************************************)
(* The worker call returns: its result, if any, is committed, and the      *)
(* delegation it asks for, if any, is requested.                           *)
(***************************************************************************)
(* Wrong: the worker call returns before its commit is acknowledged. *)
ReturnUnacknowledged(e, n) ==
    /\ task[e][n].pc \in {"execute", "commit", "acked"}
    /\ UNCHANGED bus
    /\ Move(e, n, "returned")
    /\ UNCHANGED <<stopped, activeTasks, issued>>

ReturnResult(e, n) ==
    LET asks == IF n \in Delegators THEN {"none", "once", "return"} ELSE {"none"}
    IN  /\ task[e][n].pc = IF n \in Producers THEN "acked" ELSE "execute"
        /\ \E x \in asks :
             bus' = IF x = "none" THEN bus
                    ELSE Publish(bus, TaskEvent("GraphMutationRequested", e, n,
                                                task[e][n].attempt, x))
        /\ Move(e, n, "returned")
        /\ UNCHANGED <<stopped, activeTasks, issued>>

SucceedAttempt(e, n) ==
    /\ task[e][n].pc = "returned"
    /\ ~task[e][n].done
    /\ bus' = Publish(AttemptFinished(bus, e, n, "succeeded"),
                      TaskEvent("WorkerCompleted", e, n, task[e][n].attempt, "none"))
    /\ Move(e, n, "exit")
    /\ UNCHANGED <<stopped, activeTasks, issued>>

(***************************************************************************)
(* The deferred cleanup of the goroutine.                                  *)
(***************************************************************************)
Cleanup(e, n) ==
    /\ task[e][n].pc = "exit"
    /\ task' = [task EXCEPT ![e][n] = NoTask]
    /\ activeTasks' = activeTasks \ {<<e, n>>}
    /\ UNCHANGED <<bus, stopped, issued>>

(***************************************************************************)
(* The deadline of the whole task passes.  An approval has none.           *)
(***************************************************************************)
Deadline(e, n) ==
    /\ Deadlines
    /\ n \notin Approvals
    /\ task[e][n].pc \notin {"none", "exit"}
    /\ ~task[e][n].done
    /\ task' = [task EXCEPT ![e][n].done = TRUE]
    /\ UNCHANGED <<bus, stopped, activeTasks, issued>>

TaskStep(e, n) ==
    \/ GiveUp(e, n)
    \/ StartAttempt(e, n)
    \/ AcquireSlot(e, n)
    \/ Abandon(e, n)
    \/ FailAttempt(e, n)
    \/ RequestCommit(e, n)
    \/ ReturnResult(e, n)
    \/ SucceedAttempt(e, n)
    \/ Cleanup(e, n)

(***************************************************************************)
(* Waiting for a person may last for ever; only a kill ends it.            *)
(***************************************************************************)
AwaitsPerson(e, n) ==
    n \in Approvals /\ task[e][n].pc = "execute" /\ ~task[e][n].done
=============================================================================
