------------------------- MODULE RuntimeSafetyProofs -------------------------
(***************************************************************************)
(* Types and safety of Runtime, for every set of executions, every         *)
(* workflow and every bound: dependencies, completion, the durability of   *)
(* what is announced, the record that precedes a dispatch, the slots, that *)
(* a killed execution does not come back, and one attempt at a time.       *)
(***************************************************************************)
EXTENDS Runtime, FiniteSetTheorems, SequenceTheorems, TLAPS

(***************************************************************************)
(* Publishing an event keeps a bus value a bus value.                      *)
(***************************************************************************)
LEMMA PublishType ==
    ASSUME NEW b \in BusValue(Event), NEW ev \in Event
    PROVE  Publish(b, ev) \in BusValue(Event)
<1>1. RuntimeOverloaded \in Event
  BY BusAssumption DEF BusAssumption, RuntimeOverloaded, ExecEvent, TaskEvent, Event, EventRecord,
     EventType, EventArg, RuntimeType, TaskType, AttemptType
<1>2. b.queue \in Seq(Event)
  BY DEF BusValue
<1>3. <<RuntimeOverloaded>> \in Seq(Event) /\ Append(b.queue, ev) \in Seq(Event)
  BY <1>1, <1>2
<1> QED
  BY <1>2, <1>3 DEF Publish, Enqueue, Refused, BusValue

LEMMA RemainingType ==
    ASSUME bus \in BusValue(Event), bus.queue # <<>>
    PROVE  HeadEvent \in Event /\ Remaining \in BusValue(Event)
  BY DEF BusValue, HeadEvent, Remaining

(***************************************************************************)
(* The events the runtime publishes are well formed.                       *)
(***************************************************************************)
LEMMA RuntimeEventType ==
    RuntimePersistenceFailed \in Event
  BY BusAssumption DEF BusAssumption, RuntimePersistenceFailed, ExecEvent, TaskEvent, Event,
     EventRecord, EventType, EventArg, RuntimeType, TaskType, AttemptType

LEMMA ExecEventType ==
    ASSUME NEW t \in EventType \ (TaskType \cup AttemptType), NEW e \in Execs,
           NEW x \in EventArg
    PROVE  ExecEvent(t, e, x) \in Event
  BY BusAssumption DEF BusAssumption, ExecEvent, TaskEvent, Event, EventRecord, EventType, EventArg,
     RuntimeType, TaskType, AttemptType

LEMMA TaskEventType ==
    ASSUME NEW e \in Execs, NEW n \in Node
    PROVE  /\ TaskEvent("TaskCreated", e, n, 0, "none") \in Event
           /\ TaskEvent("WorkerFailed", e, n, 0, "none") \in Event
  BY BusAssumption DEF BusAssumption, TaskEvent, Event, EventRecord, EventType, EventArg,
     RuntimeType, TaskType, AttemptType, Node

LEMMA AttemptEventType ==
    ASSUME NEW e \in Execs, NEW n \in Node, NEW a \in Attempt
    PROVE  /\ TaskEvent("AttemptStarted", e, n, a, "none") \in Event
           /\ TaskEvent("TaskResultCommitRequested", e, n, a, "none") \in Event
           /\ TaskEvent("ArtifactStored", e, n, a, "none") \in Event
           /\ TaskEvent("WorkerCompleted", e, n, a, "none") \in Event
           /\ \A x \in {"once", "return"} :
                 TaskEvent("GraphMutationRequested", e, n, a, x) \in Event
           /\ \A x \in {"succeeded", "failed"} :
                 TaskEvent("AttemptFinished", e, n, a, x) \in Event
  BY BusAssumption DEF BusAssumption, TaskEvent, Event, EventRecord, EventType, EventArg,
     RuntimeType, TaskType, AttemptType, Node, Attempt

-----------------------------------------------------------------------------
(***************************************************************************)
(* The transformations of the engine's state yield engine states.          *)
(***************************************************************************)
LEMMA RecoverType ==
    ASSUME NEW s \in EngineState
    PROVE  Recover(s) \in EngineState
<1> DEFINE status == [e \in Execs |-> IF s.status[e] = "running" THEN "interrupted"
                                      ELSE s.status[e]]
           node == [e \in Execs |-> [n \in Node |->
                      IF s.node[e][n] = "running" THEN "interrupted"
                      ELSE s.node[e][n]]]
           attempt == [e \in Execs |-> [n \in Node |-> [a \in Attempt |->
                         IF s.active[e][n] = a /\ s.attempt[e][n][a] = "running"
                         THEN "interrupted" ELSE s.attempt[e][n][a]]]]
<1>1. status \in [Execs -> ExecStatus]
  BY DEF EngineState, ExecStatus
<1>2. node \in [Execs -> [Node -> NodeState]]
  BY DEF EngineState, NodeState
<1>3. attempt \in [Execs -> [Node -> [Attempt -> AttemptState]]]
  BY DEF EngineState, AttemptState
<1>4. Recover(s) = [s EXCEPT !.status = status, !.node = node, !.attempt = attempt]
  BY DEF Recover
<1> HIDE DEF status, node, attempt
<1> QED
  BY <1>1, <1>2, <1>3, <1>4 DEF EngineState

LEMMA ReportType ==
    ASSUME NEW s \in EngineState, NEW x, NEW m
    PROVE  Report(s, x, m) \in EngineState
<1> DEFINE status == [e \in Execs |-> IF Affected(s, x, e) THEN "interrupted"
                                      ELSE s.status[e]]
           cancelled == s.cancelled \cup {e \in Execs : Affected(s, x, e)}
           node == [e \in Execs |-> [n \in Node |->
                      IF /\ Affected(s, x, e)
                         /\ \/ s.node[e][n] = "running"
                            \/ e = x /\ n = m /\ s.node[e][n] # "absent"
                      THEN "interrupted" ELSE s.node[e][n]]]
           attempt == [e \in Execs |-> [n \in Node |-> [a \in Attempt |->
                         IF /\ Affected(s, x, e)
                            /\ s.active[e][n] = a
                            /\ s.attempt[e][n][a] = "running"
                         THEN "interrupted" ELSE s.attempt[e][n][a]]]]
<1>1. status \in [Execs -> ExecStatus]
  BY DEF EngineState, ExecStatus
<1>2. node \in [Execs -> [Node -> NodeState]]
  BY DEF EngineState, NodeState
<1>3. attempt \in [Execs -> [Node -> [Attempt -> AttemptState]]]
  BY DEF EngineState, AttemptState
<1>4. cancelled \in SUBSET Execs
  BY DEF EngineState
<1>5. Report(s, x, m) = [s EXCEPT !.status = status, !.cancelled = cancelled,
                                  !.node = node, !.attempt = attempt]
  BY DEF Report
<1> HIDE DEF status, node, attempt, cancelled
<1> QED
  BY <1>1, <1>2, <1>3, <1>4, <1>5 DEF EngineState

LEMMA GrownType ==
    ASSUME NEW s \in EngineState, NEW e \in Execs, NEW m \in Node,
           NEW k \in {1, 2}, s.count[e] + k <= MaxNodes
    PROVE  Grown(s, e, m, k) \in EngineState
<1> DEFINE c == s.count[e]
           count == [s.count EXCEPT ![e] = c + k]
           node == [s.node EXCEPT ![e] = [n \in Node |->
                      IF n \in (c + 1)..(c + k) THEN "pending" ELSE @[n]]]
           parents == [s.parents EXCEPT ![e] = [n \in Node |->
                         IF n = c + 1 THEN {m}
                         ELSE IF n = c + 2 /\ k = 2 THEN {c + 1}
                         ELSE @[n]]]
<1>1. c \in Nat /\ c + k \in 0..MaxNodes /\ c + 1 \in Node
  BY BusAssumption DEF BusAssumption, EngineState, Node
<1>2. count \in [Execs -> 0..MaxNodes]
  BY <1>1 DEF EngineState
<1>3. node \in [Execs -> [Node -> NodeState]]
  BY DEF EngineState, NodeState
<1>4. parents \in [Execs -> [Node -> SUBSET Node]]
  BY <1>1 DEF EngineState
<1>5. Grown(s, e, m, k) = [s EXCEPT !.count = count, !.node = node, !.parents = parents]
  BY DEF Grown
<1> HIDE DEF c, count, node, parents
<1> QED
  BY <1>2, <1>3, <1>4, <1>5 DEF EngineState

LEMMA NewExecutionType ==
    ASSUME NEW s \in EngineState, NEW e \in Execs
    PROVE  NewExecution(s, e) \in EngineState
<1> DEFINE status == [s.status EXCEPT ![e] = IF e \in s.paused THEN "paused"
                                            ELSE "running"]
           count == [s.count EXCEPT ![e] = StaticCount[e]]
           node == [s.node EXCEPT ![e] = [n \in Node |->
                      IF n <= StaticCount[e] THEN "pending" ELSE "absent"]]
           parents == [s.parents EXCEPT ![e] = [n \in Node |->
                         IF n <= StaticCount[e] THEN StaticParents[e][n] ELSE {}]]
<1>1. count \in [Execs -> 0..MaxNodes]
  BY EngineAssumption, BusAssumption DEF EngineAssumption, BusAssumption, EngineState
<1>2. node \in [Execs -> [Node -> NodeState]]
  BY DEF EngineState, NodeState
<1>3. parents \in [Execs -> [Node -> SUBSET Node]]
  BY EngineAssumption DEF EngineAssumption, EngineState
<1>4. status \in [Execs -> ExecStatus]
  BY DEF EngineState, ExecStatus
<1>5. NewExecution(s, e) = [s EXCEPT !.status = status, !.count = count,
                                     !.parents = parents, !.node = node]
  BY DEF NewExecution
<1> HIDE DEF status, count, node, parents
<1> QED
  BY <1>1, <1>2, <1>3, <1>4, <1>5 DEF EngineState

LEMMA EmptyEngineType == EmptyEngine \in EngineState
  BY BusAssumption
     DEF BusAssumption, EngineState, EmptyEngine, ExecStatus, NodeState, AttemptState

-----------------------------------------------------------------------------
(***************************************************************************)
(* What an event at the head of the queue names.                           *)
(***************************************************************************)
LEMMA HeadExec ==
    ASSUME bus \in BusValue(Event), NEW t \in EventType \ RuntimeType, Delivers(t)
    PROVE  HeadEvent \in Event /\ HeadEvent.exec \in Execs
<1>1. HeadEvent \in Event /\ HeadEvent.type = t
  BY RemainingType DEF Delivers
<1> HIDE DEF HeadEvent
<1> QED
  BY <1>1 DEF Event

LEMMA HeadTask ==
    ASSUME bus \in BusValue(Event), NEW t \in TaskType \cup AttemptType, Delivers(t)
    PROVE  HeadEvent.exec \in Execs /\ HeadEvent.node \in Node
<1>1. HeadEvent \in Event /\ HeadEvent.type = t
  BY RemainingType DEF Delivers
<1> HIDE DEF HeadEvent
<1> QED
  BY <1>1 DEF Event, EventType, RuntimeType, TaskType, AttemptType

LEMMA HeadAttempt ==
    ASSUME bus \in BusValue(Event), NEW t \in AttemptType, Delivers(t)
    PROVE  HeadEvent.attempt \in Attempt
<1>1. HeadEvent \in Event /\ HeadEvent.type = t
  BY RemainingType DEF Delivers
<1> HIDE DEF HeadEvent
<1> QED
  BY <1>1 DEF Event

(***************************************************************************)
(* The ways a handler ends keep the types.                                 *)
(***************************************************************************)
LEMMA SavedType ==
    ASSUME StateTypeOK, NEW s \in EngineState, NEW b \in BusValue(Event), Saved(s, b)
    PROVE  bus' \in BusValue(Event) /\ StateTypeOK'
  BY DEF StateTypeOK, Saved

LEMMA SaveFailedType ==
    ASSUME StateTypeOK, NEW s \in EngineState, NEW b \in BusValue(Event),
           NEW x, NEW m, SaveFailed(s, x, m, b)
    PROVE  bus' \in BusValue(Event) /\ StateTypeOK'
<1>1. eng' \in EngineState
  BY ReportType DEF SaveFailed
<1>2. bus' \in BusValue(Event)
  BY PublishType, RuntimeEventType DEF SaveFailed
<1>3. faults' \in 0..MaxFaults
  BY EngineAssumption DEF EngineAssumption, SaveFailed, StateTypeOK
<1> QED
  BY <1>1, <1>2, <1>3 DEF SaveFailed, StateTypeOK

LEMMA FinishedType ==
    ASSUME Finished
    PROVE  MutexTypeOK'
  BY DEF Finished, MutexTypeOK, LoopState

LEMMA ForDispatcherType ==
    ASSUME bus \in BusValue(Event), bus.queue # <<>>, ForDispatcher
    PROVE  MutexTypeOK'
<1>1. HeadEvent \in Event
  BY RemainingType
<1> QED
  BY <1>1 DEF ForDispatcher, MutexTypeOK, LoopState

LEMMA DroppedType ==
    ASSUME StateTypeOK, bus \in BusValue(Event), bus.queue # <<>>, Dropped
    PROVE  bus' \in BusValue(Event) /\ StateTypeOK' /\ MutexTypeOK'
<1>1. bus' \in BusValue(Event)
  BY RemainingType DEF Dropped
<1>2. StateTypeOK'
  BY DEF Dropped, Unsaved, StateTypeOK
<1> QED
  BY <1>1, <1>2, FinishedType DEF Dropped

LEMMA LoopsType ==
    ASSUME NEW e \in Execs, NEW S \in SUBSET Node, NEW n \in 0..MaxNodes,
           Loops(e, S, n)
    PROVE  MutexTypeOK'
  BY DEF Loops, MutexTypeOK, LoopState

-----------------------------------------------------------------------------
(***************************************************************************)
(* Every handler of the engine keeps the types of what it may change.      *)
(***************************************************************************)
EngineTypeOK == bus \in BusValue(Event) /\ StateTypeOK /\ MutexTypeOK

LEMMA OverloadedType ==
    ASSUME EngineTypeOK, HandleOverloaded
    PROVE  EngineTypeOK'
<1> DEFINE hit == {e \in Execs : eng.status[e] \in Live}
           status == [e \in Execs |-> IF e \in hit THEN "failed" ELSE eng.status[e]]
           cancelled == eng.cancelled \cup hit
           node == [e \in Execs |-> [n \in Node |->
                      IF e \in hit /\ eng.node[e][n] \notin {"done", "absent"}
                      THEN "failed" ELSE eng.node[e][n]]]
           s == [eng EXCEPT !.status = status, !.cancelled = cancelled, !.node = node]
<1>1. /\ status \in [Execs -> ExecStatus]
      /\ cancelled \in SUBSET Execs
      /\ node \in [Execs -> [Node -> NodeState]]
  BY DEF EngineTypeOK, StateTypeOK, EngineState, ExecStatus, NodeState
<1>2. /\ Saved(s, Remaining) \/ SaveFailed(s, NoExec, 0, Remaining)
      /\ Handling("RuntimeOverloaded")
      /\ ForDispatcher
  BY DEF HandleOverloaded
<1> HIDE DEF status, cancelled, node
<1>3. s \in EngineState
  BY <1>1 DEF EngineTypeOK, StateTypeOK, EngineState
<1> HIDE DEF s
<1>4. bus.queue # <<>> /\ Remaining \in BusValue(Event)
  BY <1>2, RemainingType DEF Handling, Delivers, EngineTypeOK
<1> QED
  BY <1>2, <1>3, <1>4, SavedType, SaveFailedType, ForDispatcherType DEF EngineTypeOK

LEMMA AttemptStartedType ==
    ASSUME EngineTypeOK, HandleAttemptStarted
    PROVE  EngineTypeOK'
<1> DEFINE e == HeadEvent.exec
           n == HeadEvent.node
           a == HeadEvent.attempt
           attempt == [eng.attempt EXCEPT ![e][n][a] = "running"]
           active == [eng.active EXCEPT ![e][n] = a]
           s == [eng EXCEPT !.attempt = attempt, !.active = active]
<1>1. /\ Handling("AttemptStarted")
      /\ \/ Dropped
         \/ (Saved(s, Remaining) \/ SaveFailed(s, NoExec, 0, Remaining)) /\ Finished
  BY DEF HandleAttemptStarted
<1>2. e \in Execs /\ n \in Node /\ a \in Attempt
  BY <1>1, HeadTask, HeadAttempt DEF Handling, EngineTypeOK, AttemptType
<1>3. bus.queue # <<>> /\ Remaining \in BusValue(Event)
  BY <1>1, RemainingType DEF Handling, Delivers, EngineTypeOK
<1> HIDE DEF e, n, a
<1>4. attempt \in [Execs -> [Node -> [Attempt -> AttemptState]]]
  BY <1>2 DEF EngineTypeOK, StateTypeOK, EngineState, AttemptState
<1>5. active \in [Execs -> [Node -> 0..MaxAttempts]]
  BY <1>2, BusAssumption
     DEF BusAssumption, EngineTypeOK, StateTypeOK, EngineState, Attempt
<1> HIDE DEF attempt, active
<1>6. s \in EngineState
  BY <1>4, <1>5 DEF EngineTypeOK, StateTypeOK, EngineState
<1> HIDE DEF s
<1> QED
  BY <1>1, <1>3, <1>6, SavedType, SaveFailedType, FinishedType, DroppedType
     DEF EngineTypeOK

LEMMA AttemptFinishedType ==
    ASSUME EngineTypeOK, HandleAttemptFinished
    PROVE  EngineTypeOK'
<1> DEFINE e == HeadEvent.exec
           n == HeadEvent.node
           a == HeadEvent.attempt
           attempt == [eng.attempt EXCEPT ![e][n][a] =
                         IF @ = "running" THEN HeadEvent.arg ELSE @]
           s == [eng EXCEPT !.attempt = attempt]
<1>1. /\ Handling("AttemptFinished")
      /\ \/ Dropped
         \/ (Saved(s, Remaining) \/ SaveFailed(s, NoExec, 0, Remaining)) /\ Finished
  BY DEF HandleAttemptFinished
<1>2. e \in Execs /\ n \in Node /\ a \in Attempt
  BY <1>1, HeadTask, HeadAttempt DEF Handling, EngineTypeOK, AttemptType
<1>3. HeadEvent.arg \in {"succeeded", "failed"}
  BY <1>1, RemainingType DEF Handling, Delivers, EngineTypeOK, Event
<1>4. bus.queue # <<>> /\ Remaining \in BusValue(Event)
  BY <1>1, RemainingType DEF Handling, Delivers, EngineTypeOK
<1> HIDE DEF e, n, a
<1>5. attempt \in [Execs -> [Node -> [Attempt -> AttemptState]]]
  BY <1>2, <1>3 DEF EngineTypeOK, StateTypeOK, EngineState, AttemptState
<1> HIDE DEF attempt
<1>6. s \in EngineState
  BY <1>5 DEF EngineTypeOK, StateTypeOK, EngineState
<1> HIDE DEF s
<1> QED
  BY <1>1, <1>4, <1>6, SavedType, SaveFailedType, FinishedType, DroppedType
     DEF EngineTypeOK

LEMMA GraphMutationType ==
    ASSUME EngineTypeOK, HandleGraphMutation
    PROVE  EngineTypeOK'
<1> DEFINE e == HeadEvent.exec
           n == HeadEvent.node
           k == IF HeadEvent.arg = "return" THEN 2 ELSE 1
<1>1. /\ Handling("GraphMutationRequested")
      /\ \/ Dropped
         \/ /\ WithinBudget(e, k)
            /\ \/ Saved(Grown(eng, e, n, k), Remaining)
               \/ SaveFailed(eng, e, n, Remaining)
            /\ Finished
  BY DEF HandleGraphMutation
<1>2. e \in Execs /\ n \in Node
  BY <1>1, HeadTask DEF Handling, EngineTypeOK, AttemptType
<1>3. bus.queue # <<>> /\ Remaining \in BusValue(Event)
  BY <1>1, RemainingType DEF Handling, Delivers, EngineTypeOK
<1>4. CASE Dropped
  BY <1>3, <1>4, DroppedType DEF EngineTypeOK
<1>5. k \in {1, 2}
  OBVIOUS
<1> HIDE DEF e, n, k
<1>6. CASE WithinBudget(e, k) /\ Saved(Grown(eng, e, n, k), Remaining) /\ Finished
  <2>1. Grown(eng, e, n, k) \in EngineState
    BY <1>2, <1>5, <1>6, GrownType DEF WithinBudget, EngineTypeOK, StateTypeOK
  <2> QED
    BY <1>3, <1>6, <2>1, SavedType, FinishedType DEF EngineTypeOK
<1>7. CASE SaveFailed(eng, e, n, Remaining) /\ Finished
  BY <1>3, <1>7, SaveFailedType, FinishedType DEF EngineTypeOK, StateTypeOK
<1> QED
  BY <1>1, <1>4, <1>6, <1>7

LEMMA ArtifactType ==
    ASSUME EngineTypeOK, HandleArtifact
    PROVE  EngineTypeOK'
<1> DEFINE e == HeadEvent.exec
           n == HeadEvent.node
           artifact == [eng.artifact EXCEPT ![e] = @ \cup {n}]
           s == [eng EXCEPT !.artifact = artifact]
<1>1. /\ Handling("ArtifactStored")
      /\ \/ Dropped
         \/ (Saved(s, Remaining) \/ SaveFailed(s, e, n, Remaining)) /\ Finished
  BY DEF HandleArtifact
<1>2. e \in Execs /\ n \in Node
  BY <1>1, HeadTask DEF Handling, EngineTypeOK, AttemptType
<1>3. bus.queue # <<>> /\ Remaining \in BusValue(Event)
  BY <1>1, RemainingType DEF Handling, Delivers, EngineTypeOK
<1> HIDE DEF e, n
<1>4. artifact \in [Execs -> SUBSET Node]
  BY <1>2 DEF EngineTypeOK, StateTypeOK, EngineState
<1> HIDE DEF artifact
<1>9. s \in EngineState
  BY <1>4 DEF EngineTypeOK, StateTypeOK, EngineState
<1> HIDE DEF s
<1> QED
  BY <1>1, <1>3, <1>9, SavedType, SaveFailedType, FinishedType, DroppedType
     DEF EngineTypeOK

LEMMA WorkerCompletedType ==
    ASSUME EngineTypeOK, HandleWorkerCompleted
    PROVE  EngineTypeOK'
<1> DEFINE e == HeadEvent.exec
           n == HeadEvent.node
           node == [eng.node EXCEPT ![e][n] = "done"]
           active == [eng.active EXCEPT ![e][n] = 0]
           done == [eng EXCEPT !.node = node]
           s == [done EXCEPT !.active = active]
<1>1. /\ Handling("WorkerCompleted")
      /\ \/ Dropped
         \/ Saved(s, Remaining) /\ Loops(e, Children(s, e, n), n)
         \/ SaveFailed(done, e, n, Remaining) /\ Finished
  BY DEF HandleWorkerCompleted
<1>2. e \in Execs /\ n \in Node
  BY <1>1, HeadTask DEF Handling, EngineTypeOK, AttemptType
<1>3. bus.queue # <<>> /\ Remaining \in BusValue(Event)
  BY <1>1, RemainingType DEF Handling, Delivers, EngineTypeOK
<1> HIDE DEF e, n
<1>4. node \in [Execs -> [Node -> NodeState]]
  BY <1>2 DEF EngineTypeOK, StateTypeOK, EngineState, NodeState
<1>5. active \in [Execs -> [Node -> 0..MaxAttempts]]
  BY <1>2, BusAssumption DEF BusAssumption, EngineTypeOK, StateTypeOK, EngineState
<1> HIDE DEF node, active
<1>6. done \in EngineState
  BY <1>4 DEF EngineTypeOK, StateTypeOK, EngineState
<1>7. s \in EngineState
  BY <1>4, <1>5 DEF EngineTypeOK, StateTypeOK, EngineState
<1> HIDE DEF s, done
<1>8. Children(s, e, n) \in SUBSET Node /\ n \in 0..MaxNodes
  BY <1>2, BusAssumption DEF BusAssumption, Children, NodesOf, Node
<1> QED
  BY <1>1, <1>2, <1>3, <1>6, <1>7, <1>8, SavedType, SaveFailedType, FinishedType,
     DroppedType, LoopsType DEF EngineTypeOK

LEMMA WorkerFailedType ==
    ASSUME EngineTypeOK, HandleWorkerFailed
    PROVE  EngineTypeOK'
<1> DEFINE e == HeadEvent.exec
           n == HeadEvent.node
           status == [eng.status EXCEPT ![e] = "failed"]
           active == [eng.active EXCEPT ![e][n] = 0]
           node == [eng.node EXCEPT ![e] = [m \in Node |->
                      IF m = n THEN "failed"
                      ELSE IF @[m] = "pending" THEN "blocked" ELSE @[m]]]
           s == [eng EXCEPT !.status = status, !.active = active, !.node = node]
           b == Publish(Remaining, ExecEvent("ExecutionKilled", e, "none"))
           c == Publish(b, ExecEvent("WorkflowFailed", e, "none"))
<1>1. /\ Handling("WorkerFailed")
      /\ \/ Dropped
         \/ (Saved(s, c) \/ SaveFailed(s, e, n, b)) /\ Finished
  BY DEF HandleWorkerFailed
<1>2. e \in Execs /\ n \in Node
  BY <1>1, HeadTask DEF Handling, EngineTypeOK, TaskType
<1>3. bus.queue # <<>> /\ Remaining \in BusValue(Event)
  BY <1>1, RemainingType DEF Handling, Delivers, EngineTypeOK
<1> HIDE DEF e, n
<1>4. b \in BusValue(Event)
  <2>1. ExecEvent("ExecutionKilled", e, "none") \in Event
    BY <1>2, ExecEventType DEF EventType, TaskType, AttemptType, EventArg
  <2> QED
    BY <1>3, <2>1, PublishType
<1>5. c \in BusValue(Event)
  <2>1. ExecEvent("WorkflowFailed", e, "none") \in Event
    BY <1>2, ExecEventType DEF EventType, TaskType, AttemptType, EventArg
  <2> HIDE DEF b
  <2> QED
    BY <1>4, <2>1, PublishType
<1>6. node \in [Execs -> [Node -> NodeState]]
  BY <1>2 DEF EngineTypeOK, StateTypeOK, EngineState, NodeState
<1>7. active \in [Execs -> [Node -> 0..MaxAttempts]]
  BY <1>2, BusAssumption DEF BusAssumption, EngineTypeOK, StateTypeOK, EngineState
<1>8. status \in [Execs -> ExecStatus]
  BY <1>2 DEF EngineTypeOK, StateTypeOK, EngineState, ExecStatus
<1> HIDE DEF status, node, active, b, c
<1>9. s \in EngineState
  BY <1>6, <1>7, <1>8 DEF EngineTypeOK, StateTypeOK, EngineState
<1> HIDE DEF s
<1> QED
  BY <1>1, <1>3, <1>4, <1>5, <1>9, SavedType, SaveFailedType, FinishedType, DroppedType
     DEF EngineTypeOK

LEMMA PropagatedType ==
    ASSUME NEW t \in EventType \ (RuntimeType \cup TaskType \cup AttemptType),
           NEW e \in Execs, Remaining \in BusValue(Event)
    PROVE  Propagated(t, e) \in BusValue(Event)
<1>1. CASE CompileOf[e] = NoExec
  BY <1>1 DEF Propagated
<1>2. CASE CompileOf[e] # NoExec
  <2>1. CompileOf[e] \in Execs
    BY <1>2, BusAssumption DEF BusAssumption
  <2>2. ExecEvent(t, CompileOf[e], "none") \in Event
    BY <2>1, ExecEventType DEF EventArg
  <2> QED
    BY <1>2, <2>2, PublishType DEF Propagated
<1> QED
  BY <1>1, <1>2

LEMMA BlockedType ==
    ASSUME NEW f \in [Node -> NodeState]
    PROVE  Blocked(f) \in [Node -> NodeState]
  BY DEF Blocked, NodeState

LEMMA KilledType ==
    ASSUME EngineTypeOK, HandleKilled
    PROVE  EngineTypeOK'
<1> DEFINE e == HeadEvent.exec
           cancelled == eng.cancelled \cup ({e, CompileOf[e]} \ {NoExec})
           status == [eng.status EXCEPT ![e] = IF @ \in Live THEN "cancelled" ELSE @]
           node == [eng.node EXCEPT ![e] = Blocked(@)]
           s == [eng EXCEPT !.cancelled = cancelled, !.status = status, !.node = node]
           b == Propagated("ExecutionKilled", e)
<1>1. /\ Handling("ExecutionKilled")
      /\ Saved(s, b) \/ SaveFailed(s, e, 0, b)
      /\ ForDispatcher
  BY DEF HandleKilled
<1>2. e \in Execs
  BY <1>1, HeadExec DEF Handling, EngineTypeOK, EventType, RuntimeType
<1>3. bus.queue # <<>> /\ Remaining \in BusValue(Event)
  BY <1>1, RemainingType DEF Handling, Delivers, EngineTypeOK
<1> HIDE DEF e
<1>4. Propagated("ExecutionKilled", e) \in BusValue(Event)
  BY <1>2, <1>3, PropagatedType DEF EventType, RuntimeType, TaskType, AttemptType
<1>5. cancelled \in SUBSET Execs
  BY <1>2, BusAssumption DEF BusAssumption, EngineTypeOK, StateTypeOK, EngineState
<1>6. status \in [Execs -> ExecStatus]
  BY <1>2 DEF EngineTypeOK, StateTypeOK, EngineState, ExecStatus
<1>7. node \in [Execs -> [Node -> NodeState]]
  BY <1>2, BlockedType DEF EngineTypeOK, StateTypeOK, EngineState
<1> HIDE DEF cancelled, status, node, b
<1>8. s \in EngineState
  BY <1>5, <1>6, <1>7 DEF EngineTypeOK, StateTypeOK, EngineState
<1> HIDE DEF s
<1> QED
  BY <1>1, <1>3, <1>4, <1>8, SavedType, SaveFailedType, ForDispatcherType
     DEF EngineTypeOK, b

LEMMA PausedType ==
    ASSUME EngineTypeOK, HandlePaused
    PROVE  EngineTypeOK'
<1> DEFINE e == HeadEvent.exec
           paused == eng.paused \cup {e}
           status == [eng.status EXCEPT ![e] = IF @ = "running" THEN "paused" ELSE @]
           s == [eng EXCEPT !.paused = paused, !.status = status]
           b == Propagated("ExecutionPaused", e)
<1>1. /\ Handling("ExecutionPaused")
      /\ Saved(s, b) \/ SaveFailed(s, e, 0, b)
      /\ Finished
  BY DEF HandlePaused
<1>2. e \in Execs
  BY <1>1, HeadExec DEF Handling, EngineTypeOK, EventType, RuntimeType
<1>3. bus.queue # <<>> /\ Remaining \in BusValue(Event)
  BY <1>1, RemainingType DEF Handling, Delivers, EngineTypeOK
<1> HIDE DEF e
<1>4. Propagated("ExecutionPaused", e) \in BusValue(Event)
  BY <1>2, <1>3, PropagatedType DEF EventType, RuntimeType, TaskType, AttemptType
<1>5. paused \in SUBSET Execs
  BY <1>2 DEF EngineTypeOK, StateTypeOK, EngineState
<1>6. status \in [Execs -> ExecStatus]
  BY <1>2 DEF EngineTypeOK, StateTypeOK, EngineState, ExecStatus
<1> HIDE DEF paused, status, b
<1>7. s \in EngineState
  BY <1>5, <1>6 DEF EngineTypeOK, StateTypeOK, EngineState
<1> HIDE DEF s
<1> QED
  BY <1>1, <1>3, <1>4, <1>7, SavedType, SaveFailedType, FinishedType
     DEF EngineTypeOK, b

LEMMA ResumedType ==
    ASSUME EngineTypeOK, HandleResumed
    PROVE  EngineTypeOK'
<1> DEFINE e == HeadEvent.exec
           paused == eng.paused \ {e}
           status == [eng.status EXCEPT ![e] = "running"]
           cleared == [eng EXCEPT !.paused = paused]
           s == [cleared EXCEPT !.status = status]
           b == Propagated("ExecutionResumed", e)
           ready == Roots(s, e) \cup
                    UNION {Children(s, e, n) :
                             n \in {m \in NodesOf(s, e) : s.node[e][m] = "done"}}
<1>1. /\ Handling("ExecutionResumed")
      /\ \/ eng' = cleared /\ bus' = b /\ Unsaved /\ Finished
         \/ Saved(s, b) /\ Loops(e, ready, 0)
         \/ SaveFailed(cleared, e, 0, b) /\ Finished
  BY DEF HandleResumed
<1>2. e \in Execs
  BY <1>1, HeadExec DEF Handling, EngineTypeOK, EventType, RuntimeType
<1>3. bus.queue # <<>> /\ Remaining \in BusValue(Event)
  BY <1>1, RemainingType DEF Handling, Delivers, EngineTypeOK
<1> HIDE DEF e
<1>4. Propagated("ExecutionResumed", e) \in BusValue(Event)
  BY <1>2, <1>3, PropagatedType DEF EventType, RuntimeType, TaskType, AttemptType
<1>5. paused \in SUBSET Execs
  BY <1>2 DEF EngineTypeOK, StateTypeOK, EngineState
<1>6. status \in [Execs -> ExecStatus]
  BY <1>2 DEF EngineTypeOK, StateTypeOK, EngineState, ExecStatus
<1> HIDE DEF paused, status
<1>7. cleared \in EngineState
  BY <1>5 DEF EngineTypeOK, StateTypeOK, EngineState
<1>8. s \in EngineState
  BY <1>5, <1>6 DEF EngineTypeOK, StateTypeOK, EngineState
<1> HIDE DEF s, cleared
<1>9. ready \in SUBSET Node /\ 0 \in 0..MaxNodes
  BY BusAssumption DEF BusAssumption, Roots, Children, NodesOf
<1> HIDE DEF ready, b
<1>10. CASE eng' = cleared /\ bus' = b /\ Unsaved /\ Finished
  <2>1. StateTypeOK'
    BY <1>7, <1>10 DEF EngineTypeOK, StateTypeOK, Unsaved
  <2> QED
    BY <1>4, <1>10, <2>1, FinishedType DEF EngineTypeOK, b
<1>11. CASE Saved(s, b) /\ Loops(e, ready, 0)
  BY <1>2, <1>4, <1>8, <1>9, <1>11, SavedType, LoopsType DEF EngineTypeOK, b
<1>12. CASE SaveFailed(cleared, e, 0, b) /\ Finished
  BY <1>4, <1>7, <1>12, SaveFailedType, FinishedType DEF EngineTypeOK, b
<1> QED
  BY <1>1, <1>10, <1>11, <1>12

LEMMA ReconciledType ==
    ASSUME EngineTypeOK, HandleReconciled
    PROVE  EngineTypeOK'
<1> DEFINE e == HeadEvent.exec
           again(n) == eng.node[e][n] = "interrupted"
           status == [eng.status EXCEPT ![e] = "running"]
           node == [eng.node EXCEPT ![e] = [n \in Node |->
                      IF again(n) THEN "pending" ELSE @[n]]]
           active == [eng.active EXCEPT ![e] = [n \in Node |->
                        IF again(n) THEN 0 ELSE @[n]]]
           retry == [eng EXCEPT !.status = status, !.node = node, !.active = active]
           ended == [eng.status EXCEPT ![e] = IF HeadEvent.arg = "cancel" THEN "cancelled"
                                              ELSE "failed"]
           blocked == [eng.node EXCEPT ![e] = Blocked(@)]
           final == [eng EXCEPT !.status = ended, !.node = blocked]
           ready == {n \in Node : retry.node[e][n] = "pending"}
<1>1. /\ Handling("ExecutionReconciled")
      /\ \/ Dropped
         \/ Saved(retry, Remaining) /\ Loops(e, ready, 0)
         \/ SaveFailed(eng, e, 0, Remaining) /\ Finished
         \/ Saved(final, Remaining) /\ Finished
         \/ SaveFailed(final, e, 0, Remaining) /\ Finished
  BY DEF HandleReconciled
<1>2. e \in Execs
  BY <1>1, HeadExec DEF Handling, EngineTypeOK, EventType, RuntimeType
<1>3. bus.queue # <<>> /\ Remaining \in BusValue(Event)
  BY <1>1, RemainingType DEF Handling, Delivers, EngineTypeOK
<1>4. status \in [Execs -> ExecStatus] /\ ended \in [Execs -> ExecStatus]
  BY <1>2 DEF EngineTypeOK, StateTypeOK, EngineState, ExecStatus
<1> HIDE DEF e
<1>5. node \in [Execs -> [Node -> NodeState]]
  BY <1>2 DEF EngineTypeOK, StateTypeOK, EngineState, NodeState
<1>6. blocked \in [Execs -> [Node -> NodeState]]
  BY <1>2, BlockedType DEF EngineTypeOK, StateTypeOK, EngineState
<1>7. active \in [Execs -> [Node -> 0..MaxAttempts]]
  BY <1>2, BusAssumption DEF BusAssumption, EngineTypeOK, StateTypeOK, EngineState
<1> HIDE DEF status, ended, node, blocked, active
<1>8. retry \in EngineState
  BY <1>4, <1>5, <1>7 DEF EngineTypeOK, StateTypeOK, EngineState
<1>9. final \in EngineState
  BY <1>4, <1>6 DEF EngineTypeOK, StateTypeOK, EngineState
<1>10. ready \in SUBSET Node /\ 0 \in 0..MaxNodes
  BY BusAssumption DEF BusAssumption
<1> HIDE DEF retry, final, ready
<1>11. CASE Saved(retry, Remaining) /\ Loops(e, ready, 0)
  BY <1>2, <1>3, <1>8, <1>10, <1>11, SavedType, LoopsType DEF EngineTypeOK
<1>12. CASE SaveFailed(eng, e, 0, Remaining) /\ Finished
  BY <1>3, <1>12, SaveFailedType, FinishedType DEF EngineTypeOK, StateTypeOK
<1> QED
  BY <1>1, <1>3, <1>9, <1>11, <1>12, SavedType, SaveFailedType, FinishedType, DroppedType
     DEF EngineTypeOK

(***************************************************************************)
(* Submission, and the dispatch loop that holds the mutex.                 *)
(***************************************************************************)
LEMMA SubmitType ==
    ASSUME EngineTypeOK, NEW e \in Execs, SubmitWorkflow(e)
    PROVE  EngineTypeOK'
<1> DEFINE s == NewExecution(eng, e)
<1>1. s \in EngineState
  BY NewExecutionType DEF EngineTypeOK, StateTypeOK
<1>2. Roots(s, e) \in SUBSET Node /\ 0 \in 0..MaxNodes
  BY BusAssumption DEF BusAssumption, Roots, NodesOf
<1>3. CASE /\ Saved(s, bus)
           /\ loop' = [owner |-> "submit", exec |-> e, todo |-> Roots(s, e), node |-> 0]
           /\ cur' = cur
  <2>1. bus' \in BusValue(Event) /\ StateTypeOK'
    BY <1>1, <1>3, SavedType DEF EngineTypeOK
  <2> HIDE DEF s
  <2>2. MutexTypeOK'
    BY <1>2, <1>3 DEF EngineTypeOK, MutexTypeOK, LoopState
  <2> QED
    BY <2>1, <2>2 DEF EngineTypeOK
<1>4. CASE /\ faults < MaxFaults
           /\ faults' = faults + 1
           /\ UNCHANGED <<eng, disk, bus, loop, restartRequired, cur>>
  BY <1>4, EngineAssumption
     DEF EngineAssumption, EngineTypeOK, StateTypeOK, MutexTypeOK
<1> QED
  BY <1>3, <1>4 DEF SubmitWorkflow

LEMMA LoopExec ==
    ASSUME loop \in LoopState, loop.owner # "none"
    PROVE  /\ loop.owner \in {"bus", "submit"}
           /\ loop.exec \in Execs
           /\ loop.todo \in SUBSET Node
           /\ loop.node \in 0..MaxNodes
           /\ loop \in [owner: {"bus", "submit"}, exec: Execs,
                        todo: SUBSET Node, node: 0..MaxNodes]
  BY DEF LoopState, Idle

LEMMA DispatchType ==
    ASSUME EngineTypeOK, NEW n \in Node, DispatchNode(n)
    PROVE  EngineTypeOK'
<1> DEFINE e == loop.exec
           node == [eng.node EXCEPT ![e][n] = "running"]
           s == [eng EXCEPT !.node = node]
           b == Publish(bus, TaskEvent("TaskCreated", e, n, 0, "none"))
<1>1. /\ loop.owner # "none"
      /\ Saved(s, b) \/ SaveFailed(s, e, n, bus)
      /\ loop' = [loop EXCEPT !.todo = @ \ {n}]
      /\ cur' = cur
  BY DEF DispatchNode
<1>2. e \in Execs
  BY <1>1, LoopExec DEF EngineTypeOK, MutexTypeOK
<1>3. MutexTypeOK'
  BY <1>1, LoopExec DEF EngineTypeOK, MutexTypeOK, LoopState
<1> HIDE DEF e
<1>4. b \in BusValue(Event)
  BY <1>2, TaskEventType, PublishType DEF EngineTypeOK
<1>5. node \in [Execs -> [Node -> NodeState]]
  BY <1>2 DEF EngineTypeOK, StateTypeOK, EngineState, NodeState
<1> HIDE DEF node, b
<1>6. s \in EngineState
  BY <1>5 DEF EngineTypeOK, StateTypeOK, EngineState
<1> HIDE DEF s
<1> QED
  BY <1>1, <1>3, <1>4, <1>6, SavedType, SaveFailedType DEF EngineTypeOK

LEMMA EndLoopType ==
    ASSUME EngineTypeOK, EndLoop
    PROVE  EngineTypeOK'
<1> DEFINE e == loop.exec
           status == [eng.status EXCEPT ![e] = "completed"]
           s == [eng EXCEPT !.status = status]
           b == Publish(bus, ExecEvent("WorkflowCompleted", e, "none"))
<1>1. /\ loop.owner # "none"
      /\ \/ Saved(s, b)
         \/ SaveFailed(s, e, loop.node, bus)
         \/ Unsaved /\ UNCHANGED <<eng, bus>>
      /\ loop' = Idle
      /\ cur' = cur
  BY DEF EndLoop
<1>2. e \in Execs
  BY <1>1, LoopExec DEF EngineTypeOK, MutexTypeOK
<1>3. MutexTypeOK'
  BY <1>1 DEF EngineTypeOK, MutexTypeOK, LoopState
<1> HIDE DEF e
<1>4. b \in BusValue(Event)
  BY <1>2, ExecEventType, PublishType
     DEF EngineTypeOK, EventType, TaskType, AttemptType, EventArg
<1>5. status \in [Execs -> ExecStatus]
  BY <1>2 DEF EngineTypeOK, StateTypeOK, EngineState, ExecStatus
<1> HIDE DEF status, b
<1>6. s \in EngineState
  BY <1>5 DEF EngineTypeOK, StateTypeOK, EngineState
<1> HIDE DEF s
<1>7. CASE Unsaved /\ UNCHANGED <<eng, bus>>
  BY <1>3, <1>7 DEF EngineTypeOK, StateTypeOK, Unsaved
<1> QED
  BY <1>1, <1>3, <1>4, <1>6, <1>7, SavedType, SaveFailedType DEF EngineTypeOK

-----------------------------------------------------------------------------
(***************************************************************************)
(* The dispatcher's handlers and the steps of its goroutines.              *)
(***************************************************************************)
DispatcherBusOK == bus \in BusValue(Event) /\ DispatcherTypeOK

LEMMA CancelType ==
    ASSUME DispatcherTypeOK, NEW T
    PROVE  Cancel(T) \in [Execs -> [Node -> Task]]
<1>1. \A e \in Execs, n \in Node : [task[e][n] EXCEPT !.done = TRUE] \in Task
  <2> TAKE e \in Execs, n \in Node
  <2>1. task[e][n] \in Task
    BY DEF DispatcherTypeOK
  <2> QED
    BY <2>1 DEF Task
<1> QED
  BY <1>1 DEF DispatcherTypeOK, Cancel

LEMMA StopType ==
    ASSUME DispatcherTypeOK,
           StopOnRuntimeFailure \/ \E e \in Execs : StopExecution(e)
    PROVE  DispatcherTypeOK'
<1>1. CASE StopOnRuntimeFailure
  <2>1. stopped' \subseteq Execs
    BY <1>1 DEF StopOnRuntimeFailure, DispatcherTypeOK
  <2>2. task' \in [Execs -> [Node -> Task]]
    BY <1>1, CancelType DEF StopOnRuntimeFailure
  <2> QED
    BY <1>1, <2>1, <2>2 DEF StopOnRuntimeFailure, DispatcherTypeOK
<1>2. ASSUME NEW e \in Execs, StopExecution(e)
      PROVE  DispatcherTypeOK'
  <2>1. stopped' \subseteq Execs
    BY <1>2, BusAssumption DEF BusAssumption, StopExecution, DispatcherTypeOK
  <2>2. task' \in [Execs -> [Node -> Task]]
    BY <1>2, CancelType DEF StopExecution
  <2> QED
    BY <1>2, <2>1, <2>2 DEF StopExecution, DispatcherTypeOK
<1> QED
  BY <1>1, <1>2

LEMMA TaskFields ==
    ASSUME DispatcherTypeOK, NEW e \in Execs, NEW n \in Node
    PROVE  /\ task[e][n] \in [pc: TaskPc, tries: 0..MaxRetries,
                              attempt: 0..MaxAttempts, done: BOOLEAN]
           /\ task[e][n].pc \in Attempting => task[e][n].attempt \in Attempt
<1>1. task[e][n] \in Task
  BY DEF DispatcherTypeOK
<1> QED
  BY <1>1 DEF Task

LEMMA MoveType ==
    ASSUME DispatcherTypeOK, NEW e \in Execs, NEW n \in Node, NEW pc \in TaskPc,
           pc \in Attempting => task[e][n].attempt \in Attempt,
           Move(e, n, pc)
    PROVE  task' \in [Execs -> [Node -> Task]]
<1> DEFINE t == [task[e][n] EXCEPT !.pc = pc]
<1>1. t \in Task
  BY TaskFields DEF Task
<1>2. task' = [task EXCEPT ![e][n] = t]
  BY DEF Move
<1> HIDE DEF t
<1> QED
  BY <1>1, <1>2 DEF DispatcherTypeOK

LEMMA FailureType ==
    ASSUME NEW b \in BusValue(Event), NEW e \in Execs, NEW n \in Node
    PROVE  WorkerFailed(b, e, n) \in BusValue(Event)
  BY TaskEventType, PublishType DEF WorkerFailed

LEMMA FinishType ==
    ASSUME NEW b \in BusValue(Event), NEW e \in Execs, NEW n \in Node,
           task[e][n].attempt \in Attempt, NEW x \in {"succeeded", "failed"}
    PROVE  AttemptFinished(b, e, n, x) \in BusValue(Event)
  BY AttemptEventType, PublishType DEF AttemptFinished

LEMMA TaskStepType ==
    ASSUME DispatcherBusOK, NEW e \in Execs, NEW n \in Node, TaskStep(e, n)
    PROVE  DispatcherBusOK'
<1> USE DEF DispatcherBusOK
<1>1. CASE GiveUp(e, n)
  <2>1. bus' \in BusValue(Event)
    BY <1>1, FailureType DEF GiveUp
  <2>2. task' \in [Execs -> [Node -> Task]]
    BY <1>1, MoveType DEF GiveUp, TaskPc, Attempting
  <2> QED
    BY <1>1, <2>1, <2>2 DEF GiveUp, DispatcherTypeOK
<1>2. CASE StartAttempt(e, n)
  <2> DEFINE a == issued[e][n] + 1
             b == Publish(bus, TaskEvent("AttemptStarted", e, n, a, "none"))
             c == Publish(b, TaskEvent("AttemptFinished", e, n, a, "failed"))
             t == [task[e][n] EXCEPT !.tries = @ + 1, !.attempt = a]
             slot == [t EXCEPT !.pc = "slot"]
             exit == [t EXCEPT !.pc = "exit"]
  <2>1. /\ task[e][n].tries < MaxRetries
        /\ a <= MaxAttempts
        /\ issued' = [issued EXCEPT ![e][n] = a]
        /\ \/ bus' = b /\ task' = [task EXCEPT ![e][n] = slot]
           \/ bus' = WorkerFailed(c, e, n) /\ task' = [task EXCEPT ![e][n] = exit]
        /\ UNCHANGED <<stopped, activeTasks>>
    BY <1>2 DEF StartAttempt
  <2>2. a \in Attempt
    <3>1. issued[e][n] \in 0..MaxAttempts
      BY DEF DispatcherTypeOK
    <3> QED
      BY <2>1, <3>1, BusAssumption DEF BusAssumption, Attempt
  <2>3. slot \in Task /\ exit \in Task
    <3>1. task[e][n].tries + 1 \in 0..MaxRetries
      <4>1. task[e][n].tries \in 0..MaxRetries
        BY TaskFields
      <4> QED
        BY <2>1, <4>1, DispatcherAssumption DEF DispatcherAssumption
    <3>2. a \in 0..MaxAttempts
      BY <2>2, BusAssumption DEF BusAssumption, Attempt
    <3> HIDE DEF a
    <3>3. slot = [task[e][n] EXCEPT !.tries = @ + 1, !.attempt = a, !.pc = "slot"]
      OBVIOUS
    <3>4. exit = [task[e][n] EXCEPT !.tries = @ + 1, !.attempt = a, !.pc = "exit"]
      OBVIOUS
    <3>5. task[e][n] \in [pc: TaskPc, tries: 0..MaxRetries,
                          attempt: 0..MaxAttempts, done: BOOLEAN]
      BY TaskFields
    <3> QED
      BY <2>2, <3>1, <3>2, <3>3, <3>4, <3>5 DEF Task, TaskPc, Attempting
  <2> HIDE DEF a, slot, exit
  <2>4. issued' \in [Execs -> [Node -> 0..MaxAttempts]]
    BY <2>1, <2>2, BusAssumption DEF BusAssumption, Attempt, DispatcherTypeOK
  <2>5. task' \in [Execs -> [Node -> Task]]
    <3>1. task \in [Execs -> [Node -> Task]]
      BY DEF DispatcherTypeOK
    <3>2. task' = [task EXCEPT ![e][n] = slot] \/ task' = [task EXCEPT ![e][n] = exit]
      BY <2>1
    <3> QED
      BY <2>3, <3>1, <3>2
  <2>6. b \in BusValue(Event)
    BY <2>2, AttemptEventType, PublishType
  <2> HIDE DEF b
  <2>7. c \in BusValue(Event)
    BY <2>2, <2>6, AttemptEventType, PublishType
  <2> HIDE DEF c
  <2>8. bus' \in BusValue(Event)
    BY <2>1, <2>6, <2>7, FailureType
  <2> QED
    BY <2>1, <2>4, <2>5, <2>8 DEF DispatcherTypeOK
<1>3. CASE AcquireSlot(e, n)
  <2>1. task' \in [Execs -> [Node -> Task]]
    BY <1>3, MoveType, TaskFields DEF AcquireSlot, TaskPc, Attempting
  <2> QED
    BY <1>3, <2>1 DEF AcquireSlot, DispatcherTypeOK
<1>4. CASE Abandon(e, n)
  <2>1. bus' \in BusValue(Event)
    BY <1>4, TaskFields, FinishType, FailureType DEF Abandon
  <2>2. task' \in [Execs -> [Node -> Task]]
    BY <1>4, MoveType DEF Abandon, TaskPc, Attempting
  <2> QED
    BY <1>4, <2>1, <2>2 DEF Abandon, DispatcherTypeOK
<1>5. CASE FailAttempt(e, n)
  <2>1. AttemptFinished(bus, e, n, "failed") \in BusValue(Event)
    BY <1>5, TaskFields, FinishType DEF FailAttempt, Attempting
  <2>2. bus' \in BusValue(Event)
    BY <1>5, <2>1, FailureType DEF FailAttempt
  <2>3. task' \in [Execs -> [Node -> Task]]
    BY <1>5, MoveType DEF FailAttempt, TaskPc, Attempting
  <2> QED
    BY <1>5, <2>2, <2>3 DEF FailAttempt, DispatcherTypeOK
<1>6. CASE RequestCommit(e, n)
  <2>1. task[e][n].attempt \in Attempt
    BY <1>6, TaskFields DEF RequestCommit, Attempting
  <2>2. bus' \in BusValue(Event)
    BY <1>6, <2>1, AttemptEventType, PublishType DEF RequestCommit
  <2>3. task' \in [Execs -> [Node -> Task]]
    BY <1>6, <2>1, MoveType DEF RequestCommit, TaskPc
  <2> QED
    BY <1>6, <2>2, <2>3 DEF RequestCommit, DispatcherTypeOK
<1>7. CASE ReturnResult(e, n)
  <2>1. task[e][n].attempt \in Attempt
    BY <1>7, TaskFields DEF ReturnResult, Attempting
  <2>2. PICK x \in {"none", "once", "return"} :
          bus' = IF x = "none" THEN bus
                 ELSE Publish(bus, TaskEvent("GraphMutationRequested", e, n,
                                             task[e][n].attempt, x))
    BY <1>7 DEF ReturnResult
  <2>3. bus' \in BusValue(Event)
    BY <2>1, <2>2, AttemptEventType, PublishType
  <2>4. task' \in [Execs -> [Node -> Task]]
    BY <1>7, <2>1, MoveType DEF ReturnResult, TaskPc
  <2> QED
    BY <1>7, <2>3, <2>4 DEF ReturnResult, DispatcherTypeOK
<1>8. CASE SucceedAttempt(e, n)
  <2>1. task[e][n].attempt \in Attempt
    BY <1>8, TaskFields DEF SucceedAttempt, Attempting
  <2>2. AttemptFinished(bus, e, n, "succeeded") \in BusValue(Event)
    BY <2>1, FinishType
  <2>3. bus' \in BusValue(Event)
    BY <1>8, <2>1, <2>2, AttemptEventType, PublishType DEF SucceedAttempt
  <2>4. task' \in [Execs -> [Node -> Task]]
    BY <1>8, MoveType DEF SucceedAttempt, TaskPc, Attempting
  <2> QED
    BY <1>8, <2>3, <2>4 DEF SucceedAttempt, DispatcherTypeOK
<1>9. CASE Cleanup(e, n)
  <2>1. NoTask \in Task
    BY BusAssumption, DispatcherAssumption
       DEF BusAssumption, DispatcherAssumption, NoTask, Task, TaskPc, Attempting
  <2> QED
    BY <1>9, <2>1 DEF Cleanup, DispatcherTypeOK
<1> QED
  BY <1>1, <1>2, <1>3, <1>4, <1>5, <1>6, <1>7, <1>8, <1>9 DEF TaskStep

LEMMA DeadlineType ==
    ASSUME DispatcherBusOK, NEW e \in Execs, NEW n \in Node, Deadline(e, n)
    PROVE  DispatcherBusOK'
<1> DEFINE t == [task[e][n] EXCEPT !.done = TRUE]
<1>1. t \in Task
  BY TaskFields DEF DispatcherBusOK, Task
<1>2. task' = [task EXCEPT ![e][n] = t] /\ UNCHANGED <<bus, stopped, activeTasks, issued>>
  BY DEF Deadline
<1> HIDE DEF t
<1> QED
  BY <1>1, <1>2 DEF DispatcherBusOK, DispatcherTypeOK

LEMMA DispatchTaskType ==
    ASSUME DispatcherBusOK, Delivers("TaskCreated"),
           DispatchTask(HeadEvent.exec, HeadEvent.node)
    PROVE  DispatcherBusOK'
<1> DEFINE e == HeadEvent.exec
           n == HeadEvent.node
           t == [NoTask EXCEPT !.pc = "select"]
<1>1. e \in Execs /\ n \in Node
  BY HeadTask DEF DispatcherBusOK, TaskType
<1>2. Remaining \in BusValue(Event)
  BY RemainingType DEF Delivers, DispatcherBusOK
<1>3. \/ /\ bus' = WorkerFailed(Remaining, e, n)
         /\ UNCHANGED dispatcherVars
      \/ bus' = Remaining /\ UNCHANGED dispatcherVars
      \/ /\ bus' = Remaining
         /\ activeTasks' = activeTasks \cup {<<e, n>>}
         /\ task' = [task EXCEPT ![e][n] = t]
         /\ UNCHANGED <<stopped, issued>>
  BY DEF DispatchTask, WorkerFailed
<1>4. t \in Task
  <2>1. NoTask \in [pc: TaskPc, tries: 0..MaxRetries, attempt: 0..MaxAttempts,
                    done: BOOLEAN]
    BY BusAssumption, DispatcherAssumption
       DEF BusAssumption, DispatcherAssumption, NoTask, TaskPc
  <2> QED
    BY <2>1 DEF Task, TaskPc, Attempting
<1> HIDE DEF e, n, t
<1>5. WorkerFailed(Remaining, e, n) \in BusValue(Event)
  BY <1>1, <1>2, FailureType
<1>6. bus' \in BusValue(Event)
  BY <1>2, <1>3, <1>5
<1>7. CASE UNCHANGED dispatcherVars
  BY <1>6, <1>7 DEF DispatcherBusOK, DispatcherTypeOK, dispatcherVars
<1>8. CASE /\ activeTasks' = activeTasks \cup {<<e, n>>}
           /\ task' = [task EXCEPT ![e][n] = t]
           /\ UNCHANGED <<stopped, issued>>
  BY <1>1, <1>4, <1>6, <1>8 DEF DispatcherBusOK, DispatcherTypeOK
<1> QED
  BY <1>3, <1>7, <1>8

LEMMA CommitResultType ==
    ASSUME DispatcherBusOK, Delivers("TaskResultCommitRequested"), CommitResult
    PROVE  DispatcherBusOK'
<1> DEFINE e == HeadEvent.exec
           n == HeadEvent.node
           a == HeadEvent.attempt
           pc == IF task[e][n].pc = "commit" /\ task[e][n].attempt = a THEN "acked"
                 ELSE task[e][n].pc
<1>1. e \in Execs /\ n \in Node /\ a \in Attempt
  BY HeadTask, HeadAttempt DEF DispatcherBusOK, AttemptType
<1>2. Remaining \in BusValue(Event)
  BY RemainingType DEF Delivers, DispatcherBusOK
<1>3. /\ bus' = Publish(Remaining, TaskEvent("ArtifactStored", e, n, a, "none"))
      /\ Move(e, n, pc)
      /\ UNCHANGED <<stopped, activeTasks, issued>>
  BY DEF CommitResult, Move
<1> HIDE DEF e, n, a
<1>4. bus' \in BusValue(Event)
  BY <1>1, <1>2, <1>3, AttemptEventType, PublishType
<1>5. pc \in TaskPc /\ (pc \in Attempting => task[e][n].attempt \in Attempt)
  BY <1>1, TaskFields DEF DispatcherBusOK, TaskPc, Attempting
<1> HIDE DEF pc
<1>6. task' \in [Execs -> [Node -> Task]]
  BY <1>1, <1>3, <1>5, MoveType DEF DispatcherBusOK
<1> QED
  BY <1>3, <1>4, <1>6 DEF DispatcherBusOK, DispatcherTypeOK

-----------------------------------------------------------------------------
LEMMA InitType == Init => TypeOK
<1> SUFFICES ASSUME Init PROVE TypeOK
  OBVIOUS
<1>1. bus \in BusValue(Event)
  BY DEF Init, EmptyBus, BusValue
<1>2. StateTypeOK
  <2>1. eng \in EngineState /\ disk \in EngineState
    BY EmptyEngineType DEF Init, EngineInit
  <2>2. faults \in 0..MaxFaults
    BY EngineAssumption DEF EngineAssumption, Init, EngineInit
  <2>3. restartRequired \in BOOLEAN
    BY DEF Init, EngineInit
  <2> QED
    BY <2>1, <2>2, <2>3 DEF StateTypeOK
<1>3. MutexTypeOK
  BY DEF Init, EngineInit, MutexTypeOK, LoopState
<1>4. NoTask \in Task
  BY BusAssumption, DispatcherAssumption
     DEF BusAssumption, DispatcherAssumption, NoTask, Task, TaskPc, Attempting
<1>5. DispatcherTypeOK
  BY <1>4, BusAssumption DEF BusAssumption, Init, DispatcherInit, DispatcherTypeOK
<1> QED
  BY <1>1, <1>2, <1>3, <1>5, RuntimeAssumption DEF RuntimeAssumption, Init, TypeOK

LEMMA NextType == TypeOK /\ [Next]_vars => TypeOK'
<1> SUFFICES ASSUME TypeOK, [Next]_vars PROVE TypeOK'
  OBVIOUS
<1> USE DEF TypeOK
<1>e. EngineTypeOK
  BY DEF EngineTypeOK
<1>d. DispatcherBusOK
  BY DEF DispatcherBusOK
<1>1. CASE EngineHandles
  <2>1. EngineTypeOK'
    BY <1>1, <1>e, OverloadedType, AttemptStartedType, AttemptFinishedType,
       GraphMutationType, ArtifactType, WorkerCompletedType, WorkerFailedType,
       KilledType, PausedType, ResumedType, ReconciledType
       DEF EngineHandles, EngineHandler
  <2>2. UNCHANGED <<dispatcherVars, controls, crashes>>
    BY <1>1 DEF EngineHandles
  <2> QED
    BY <2>1, <2>2 DEF EngineTypeOK, dispatcherVars, DispatcherTypeOK
<1>2. CASE DispatcherFollows
  <2>1. cur # NoEvent /\ cur \in Event
    BY <1>2 DEF DispatcherFollows, MutexTypeOK
  <2>2. cur.type = "ExecutionKilled" => cur.exec \in Execs
    BY <2>1 DEF Event, RuntimeType
  <2>3. StopOnRuntimeFailure \/ \E e \in Execs : StopExecution(e)
    BY <1>2, <2>2 DEF DispatcherFollows
  <2>4. DispatcherTypeOK'
    BY <2>3, StopType
  <2>5. /\ cur' = NoEvent
        /\ UNCHANGED <<bus, eng, disk, loop, faults, restartRequired, controls, crashes>>
    BY <1>2 DEF DispatcherFollows
  <2> QED
    BY <2>4, <2>5 DEF StateTypeOK, MutexTypeOK
<1>3. CASE DispatcherHandles
  <2>1. DispatcherBusOK'
    <3>1. CASE Delivers("TaskCreated") /\ DispatchTask(HeadEvent.exec, HeadEvent.node)
      BY <1>d, <3>1, DispatchTaskType
    <3>2. CASE /\ Delivers("RuntimePersistenceFailed")
               /\ bus' = Remaining
               /\ StopOnRuntimeFailure
      BY <1>d, <3>2, RemainingType, StopType DEF Delivers, DispatcherBusOK
    <3>3. CASE Delivers("TaskResultCommitRequested") /\ CommitResult
      BY <1>d, <3>3, CommitResultType
    <3> QED
      BY <1>3, <3>1, <3>2, <3>3 DEF DispatcherHandles
  <2>2. UNCHANGED <<engineVars, controls, crashes>>
    BY <1>3 DEF DispatcherHandles
  <2> QED
    BY <2>1, <2>2 DEF DispatcherBusOK, engineVars, StateTypeOK, MutexTypeOK
<1>4. CASE Observed
  <2>1. bus' \in BusValue(Event)
    BY <1>4, RemainingType DEF Observed, Delivers
  <2>2. UNCHANGED <<engineVars, dispatcherVars, controls, crashes>>
    BY <1>4 DEF Observed
  <2> QED
    BY <2>1, <2>2 DEF engineVars, dispatcherVars, StateTypeOK, MutexTypeOK,
       DispatcherTypeOK
<1>5. CASE LoopStep
  <2>1. EngineTypeOK'
    BY <1>5, <1>e, EndLoopType, DispatchType DEF LoopStep, EngineLoop
  <2>2. UNCHANGED <<dispatcherVars, controls, crashes>>
    BY <1>5 DEF LoopStep
  <2> QED
    BY <2>1, <2>2 DEF EngineTypeOK, dispatcherVars, DispatcherTypeOK
<1>6. ASSUME NEW e \in Execs, Submit(e)
      PROVE  TypeOK'
  <2>1. EngineTypeOK'
    BY <1>6, <1>e, SubmitType DEF Submit
  <2>2. UNCHANGED <<dispatcherVars, controls, crashes>>
    BY <1>6 DEF Submit
  <2> QED
    BY <2>1, <2>2 DEF EngineTypeOK, dispatcherVars, DispatcherTypeOK
<1>7. ASSUME NEW e \in Execs, NEW n \in Node, TaskSteps(e, n) \/ DeadlinePasses(e, n)
      PROVE  TypeOK'
  <2>1. DispatcherBusOK'
    BY <1>7, <1>d, TaskStepType, DeadlineType DEF TaskSteps, DeadlinePasses
  <2>2. UNCHANGED <<engineVars, controls, crashes>>
    BY <1>7 DEF TaskSteps, DeadlinePasses
  <2> QED
    BY <2>1, <2>2 DEF DispatcherBusOK, engineVars, StateTypeOK, MutexTypeOK
<1>8. ASSUME NEW t \in Controls, NEW e \in Execs, Control(t, e)
      PROVE  TypeOK'
  <2>1. t \in EventType \ (TaskType \cup AttemptType)
    BY RuntimeAssumption DEF RuntimeAssumption, EventType, TaskType, AttemptType
  <2>2. PICK x \in EventArg : bus' = Publish(bus, ExecEvent(t, e, x))
    BY <1>8 DEF Control, EventArg
  <2>3. bus' \in BusValue(Event)
    BY <2>1, <2>2, ExecEventType, PublishType
  <2>4. controls' \in 0..MaxControls
    BY <1>8, RuntimeAssumption DEF RuntimeAssumption, Control
  <2>5. UNCHANGED <<engineVars, dispatcherVars, crashes>>
    BY <1>8 DEF Control
  <2> QED
    BY <2>3, <2>4, <2>5 DEF engineVars, dispatcherVars, StateTypeOK, MutexTypeOK,
       DispatcherTypeOK
<1>9. CASE Crash
  <2>1. bus' \in BusValue(Event)
    BY <1>9 DEF Crash, EmptyBus, BusValue
  <2>2. StateTypeOK'
    BY <1>9, RecoverType DEF Crash, StateTypeOK
  <2>3. MutexTypeOK'
    BY <1>9 DEF Crash, MutexTypeOK, LoopState
  <2>4. NoTask \in Task
    BY BusAssumption, DispatcherAssumption
       DEF BusAssumption, DispatcherAssumption, NoTask, Task, TaskPc, Attempting
  <2>5. DispatcherTypeOK'
    BY <1>9, <2>4 DEF Crash, DispatcherTypeOK
  <2>6. controls' \in 0..MaxControls /\ crashes' \in 0..MaxCrashes
    BY <1>9, RuntimeAssumption DEF RuntimeAssumption, Crash
  <2> QED
    BY <2>1, <2>2, <2>3, <2>5, <2>6
<1>10. CASE UNCHANGED vars
  BY <1>10 DEF vars, engineVars, dispatcherVars, StateTypeOK, MutexTypeOK,
     DispatcherTypeOK
<1> QED
  BY <1>1, <1>2, <1>3, <1>4, <1>5, <1>6, <1>7, <1>8, <1>9, <1>10 DEF Next, BusStep

(***************************************************************************)
(* The type invariant holds for every set of executions, every workflow    *)
(* and every bound: in particular a delegation never grows a graph past    *)
(* its node budget, and no event, late or repeated, makes a handler touch  *)
(* a node or an attempt that does not exist.                               *)
(***************************************************************************)
THEOREM TypeCorrect == Spec => []TypeOK
<1>1. Init => TypeOK
  BY InitType
<1>2. TypeOK /\ [Next]_vars => TypeOK'
  BY NextType
<1> QED
  BY <1>1, <1>2, PTL DEF Spec


(***************************************************************************)
(* The inductive invariant.  A state of the engine is sound when nodes run *)
(* after their parents, completed executions are done and what its graph   *)
(* does not reach is absent; the snapshot has the outcomes that memory has,*)
(* except that an overload may have failed executions it could not record; *)
(* an overloaded bus holds nothing but the overload; every event, dispatch *)
(* and goroutine is about a node of the graph; a submission's loop holds   *)
(* roots of an execution that is not over.                                 *)
(***************************************************************************)
AllDoneIn(s) ==
    \A e \in Execs :
        s.status[e] = "completed" => \A n \in NodesOf(s, e) : s.node[e][n] = "done"

AbsentBeyond(s) ==
    \A e \in Execs :
        /\ s.status[e] = "absent" => s.count[e] = 0
        /\ \A n \in Node : n > s.count[e] => s.node[e][n] = "absent"

Sound(s) == DepsDone(s) /\ AllDoneIn(s) /\ AbsentBeyond(s)

Durable ==
    \A e \in Execs :
        /\ eng.status[e] = "completed" => disk.status[e] = "completed"
        /\ eng.status[e] = "failed" => disk.status[e] = "failed" \/ bus.overloaded

Clean(b) ==
    \A i \in 1..Len(b.queue) : b.queue[i].type = "RuntimeOverloaded" <=> b.overloaded

(* An event about a node is about a node of the graph that s holds. *)
About(s, ev) ==
    ev.type \in TaskType \cup AttemptType => ev.node <= s.count[ev.exec]

Known(s, b) == \A i \in 1..Len(b.queue) : About(s, b.queue[i])

KnownTasks ==
    \A e \in Execs : \A n \in Node : task[e][n].pc # "none" => n <= eng.count[e]

LoopInv ==
    /\ loop.owner # "none" => loop.todo \subseteq NodesOf(eng, loop.exec)
    /\ loop.owner = "submit" =>
          /\ eng.status[loop.exec] # "completed"
          /\ \A n \in loop.todo : /\ eng.parents[loop.exec][n] = {}
                                 /\ eng.node[loop.exec][n] # "done"

StateInv == Sound(eng) /\ Sound(disk) /\ Durable /\ Clean(bus) /\ Known(eng, bus)
SafetyInv == StateInv /\ KnownTasks /\ LoopInv

-----------------------------------------------------------------------------
(***************************************************************************)
(* The queue: what a handler that hands nothing out does to the bus.       *)
(***************************************************************************)
NotMore(b, c) ==
    \A e \in Execs : \A n \in Node :
        Cardinality(Queued(c.queue, e, n)) <= Cardinality(Queued(b.queue, e, n))

BusKept(b, c) ==
    /\ c \in BusValue(Event)
    /\ b.overloaded => c.overloaded
    /\ Clean(b) => Clean(c)
    /\ Known(eng, b) => Known(eng, c)

Quiet(b, c) == BusKept(b, c) /\ NotMore(b, c)

LEMMA QueuedCount ==
    ASSUME NEW q \in Seq(Event), NEW e, NEW n
    PROVE  /\ IsFiniteSet(Queued(q, e, n))
           /\ Cardinality(Queued(q, e, n)) \in Nat
<1>1. IsFiniteSet(1..Len(q))
  BY FS_Interval
<1>2. Queued(q, e, n) \in SUBSET (1..Len(q))
  BY DEF Queued
<1> HIDE DEF Queued
<1>3. IsFiniteSet(Queued(q, e, n))
  BY <1>1, <1>2, FS_Subset
<1> QED
  BY <1>3, FS_CardinalityType

LEMMA QuietSame ==
    ASSUME NEW b \in BusValue(Event)
    PROVE  Quiet(b, b)
<1>1. b.queue \in Seq(Event)
  BY DEF BusValue
<1>2. \A e, n : Cardinality(Queued(b.queue, e, n)) \in Nat
  BY <1>1, QueuedCount
<1> QED
  BY <1>2 DEF Quiet, BusKept, NotMore

LEMMA QuietTrans ==
    ASSUME NEW b \in BusValue(Event), NEW c, NEW d, Quiet(b, c), Quiet(c, d)
    PROVE  Quiet(b, d)
<1>1. b.queue \in Seq(Event) /\ c.queue \in Seq(Event) /\ d.queue \in Seq(Event)
  BY DEF BusValue, Quiet, BusKept
<1>2. \A e, n : /\ Cardinality(Queued(b.queue, e, n)) \in Nat
                /\ Cardinality(Queued(c.queue, e, n)) \in Nat
                /\ Cardinality(Queued(d.queue, e, n)) \in Nat
  BY <1>1, QueuedCount
<1>3. NotMore(b, d)
  BY <1>2 DEF Quiet, NotMore
<1> QED
  BY <1>3 DEF Quiet, BusKept

(* Taking the head off. *)
LEMMA QueuedTail ==
    ASSUME NEW q \in Seq(Event), q # <<>>, NEW e, NEW n
    PROVE  Cardinality(Queued(Tail(q), e, n)) <= Cardinality(Queued(q, e, n))
<1> DEFINE S == Queued(Tail(q), e, n)
           T == Queued(q, e, n)
           f == [i \in S |-> i + 1]
<1>1. /\ Tail(q) \in Seq(Event)
      /\ Len(Tail(q)) = Len(q) - 1
      /\ \A i \in 1..Len(Tail(q)) : Tail(q)[i] = q[i + 1]
  OBVIOUS
<1>2. \A i \in S : i \in 1..Len(Tail(q)) /\ i + 1 \in T
  BY <1>1 DEF Queued
<1>3. f \in [S -> T]
  BY <1>2
<1>4. \A i, j \in S : f[i] = f[j] => i = j
  BY <1>2
<1>5. IsFiniteSet(T)
  BY QueuedCount
<1> HIDE DEF S, T, f
<1>6. f \in Injection(S, T)
  BY <1>3, <1>4 DEF Injection, IsInjective
<1>7. Cardinality(S) <= Cardinality(T)
  BY <1>5, <1>6, FS_Injection
<1> QED
  BY <1>7 DEF S, T

LEMMA QuietRemaining ==
    ASSUME bus \in BusValue(Event), bus.queue # <<>>
    PROVE  Quiet(bus, Remaining)
<1> DEFINE q == bus.queue
<1>1. /\ q \in Seq(Event)
      /\ Remaining \in BusValue(Event)
      /\ Remaining.queue = Tail(q)
      /\ Remaining.overloaded = bus.overloaded
  BY RemainingType DEF BusValue, Remaining
<1>2. \A i \in 1..Len(Tail(q)) : i + 1 \in 1..Len(q) /\ Tail(q)[i] = q[i + 1]
  BY <1>1
<1>3. Clean(bus) => Clean(Remaining)
  BY <1>1, <1>2 DEF Clean
<1>4. Known(eng, bus) => Known(eng, Remaining)
  BY <1>1, <1>2 DEF Known
<1>5. NotMore(bus, Remaining)
  BY <1>1, QueuedTail DEF NotMore
<1> QED
  BY <1>1, <1>3, <1>4, <1>5 DEF Quiet, BusKept

(* Publishing an event. *)
LEMMA PublishKept ==
    ASSUME NEW b \in BusValue(Event), NEW ev \in Event, ev.type # "RuntimeOverloaded",
           About(eng, ev)
    PROVE  BusKept(b, Publish(b, ev))
<1> DEFINE c == Publish(b, ev)
<1>1. c \in BusValue(Event)
  BY PublishType
<1>2. CASE b.closed \/ b.overloaded
  BY <1>1, <1>2 DEF BusKept, Publish, Enqueue, Refused
<1>3. CASE ~b.closed /\ ~b.overloaded /\ Len(b.queue) >= Capacity
  <2>1. c.queue = <<RuntimeOverloaded>> /\ c.overloaded
    BY <1>3 DEF Publish, Enqueue, Refused, BusValue
  <2> HIDE DEF c
  <2>2. Clean(c)
    BY <2>1 DEF Clean, RuntimeOverloaded, ExecEvent, TaskEvent
  <2>3. Known(eng, c)
    BY <2>1 DEF Known, About, TaskType, AttemptType, RuntimeOverloaded, ExecEvent, TaskEvent
  <2> QED
    BY <1>1, <1>3, <2>2, <2>3 DEF BusKept, c
<1>4. CASE ~b.closed /\ ~b.overloaded /\ ~(Len(b.queue) >= Capacity)
  <2>1. b.queue \in Seq(Event)
    BY DEF BusValue
  <2>2. c.queue = Append(b.queue, ev) /\ ~c.overloaded
    BY <1>4 DEF Publish, Enqueue, Refused, BusValue
  <2> HIDE DEF c
  <2>3. Clean(b) => Clean(c)
    BY <1>4, <2>1, <2>2 DEF Clean
  <2>4. Known(eng, b) => Known(eng, c)
    BY <2>1, <2>2 DEF Known
  <2> QED
    BY <1>1, <1>4, <2>3, <2>4 DEF BusKept, c
<1> QED
  BY <1>2, <1>3, <1>4

(***************************************************************************)
(* A TaskCreated event of another node, or another event, adds nothing to  *)
(* the TaskCreated events of a node.                                       *)
(***************************************************************************)
LEMMA PublishCount ==
    ASSUME NEW b \in BusValue(Event), NEW ev \in Event, NEW e, NEW n,
           ~(ev.type = "TaskCreated" /\ ev.exec = e /\ ev.node = n)
    PROVE  Cardinality(Queued(Publish(b, ev).queue, e, n))
             <= Cardinality(Queued(b.queue, e, n))
<1> DEFINE q == b.queue
           r == Publish(b, ev).queue
<1>1. q \in Seq(Event)
  BY DEF BusValue
<1>2. r = q \/ r = <<RuntimeOverloaded>> \/ r = Append(q, ev)
  BY DEF Publish, Enqueue, BusValue
<1>3. Queued(<<RuntimeOverloaded>>, e, n) = {}
  BY DEF Queued, RuntimeOverloaded, ExecEvent, TaskEvent
<1>4. Queued(Append(q, ev), e, n) = Queued(q, e, n)
  BY <1>1 DEF Queued
<1>5. Cardinality(Queued(q, e, n)) \in Nat /\ Cardinality({}) = 0
  BY <1>1, QueuedCount, FS_EmptySet
<1>6. \A k : Queued(k, e, n) \in {{}, Queued(q, e, n)}
             => Cardinality(Queued(k, e, n)) <= Cardinality(Queued(q, e, n))
  BY <1>5
<1>7. Queued(r, e, n) \in {{}, Queued(q, e, n)}
  BY <1>2, <1>3, <1>4
<1> QED
  BY <1>6, <1>7

LEMMA QuietPublish ==
    ASSUME NEW b \in BusValue(Event), NEW ev \in Event,
           ev.type \notin {"RuntimeOverloaded", "TaskCreated"}, About(eng, ev)
    PROVE  Quiet(b, Publish(b, ev))
<1>1. BusKept(b, Publish(b, ev))
  BY PublishKept
<1>2. \A e, n : Cardinality(Queued(Publish(b, ev).queue, e, n))
                  <= Cardinality(Queued(b.queue, e, n))
  BY PublishCount
<1> QED
  BY <1>1, <1>2 DEF Quiet, NotMore

-----------------------------------------------------------------------------
(***************************************************************************)
(* The engine's states: t follows s when nothing runs in t but what ran in *)
(* s with the same dependencies, what was done is done, no execution is    *)
(* completed that was not, and graphs grow.                                *)
(***************************************************************************)
Unfinished == Live \cup {"interrupted"}

DoneStays(s, t, e) ==
    \A n \in Node : s.node[e][n] = "done" => t.node[e][n] = "done"

RunsOn(s, t, e) ==
    \/ \A n \in Node : t.node[e][n] # "running"
    \/ t.status[e] \notin Unfinished
    \/ /\ s.status[e] \in Unfinished
       /\ DoneStays(s, t, e)
       /\ \A n \in Node : t.node[e][n] = "running" =>
             s.node[e][n] = "running" /\ t.parents[e][n] = s.parents[e][n]

StaysCompleted(s, t, e) ==
    t.status[e] = "completed" =>
        /\ s.status[e] = "completed"
        /\ t.count[e] = s.count[e]
        /\ DoneStays(s, t, e)

Grows(s, t, e) ==
    /\ s.count[e] <= t.count[e]
    /\ t.status[e] = "absent" => s.status[e] = "absent" /\ t.count[e] = s.count[e]
    /\ \A n \in Node : n > t.count[e] /\ s.node[e][n] = "absent" => t.node[e][n] = "absent"

Follows(s, t) ==
    \A e \in Execs : RunsOn(s, t, e) /\ StaysCompleted(s, t, e) /\ Grows(s, t, e)

LEMMA FollowsSound ==
    ASSUME NEW s \in EngineState, NEW t \in EngineState, Sound(s), Follows(s, t)
    PROVE  Sound(t)
<1>1. ASSUME NEW e \in Execs, NEW n \in Node,
             t.status[e] \in Unfinished, t.node[e][n] = "running",
             NEW p \in t.parents[e][n]
      PROVE  t.node[e][p] = "done"
  <2>1. /\ s.status[e] \in Unfinished
        /\ DoneStays(s, t, e)
        /\ s.node[e][n] = "running"
        /\ p \in s.parents[e][n]
    BY <1>1 DEF Follows, RunsOn
  <2>2. p \in Node
    BY <2>1 DEF EngineState
  <2>3. s.node[e][p] = "done"
    BY <2>1 DEF Sound, DepsDone, Unfinished
  <2> QED
    BY <2>1, <2>2, <2>3 DEF DoneStays
<1>2. DepsDone(t)
  BY <1>1 DEF DepsDone, Unfinished
<1>3. AllDoneIn(t)
  BY DEF Sound, AllDoneIn, Follows, StaysCompleted, DoneStays, NodesOf
<1>4. AbsentBeyond(t)
  <2>1. \A e \in Execs : s.count[e] \in Nat /\ t.count[e] \in Nat
    BY BusAssumption DEF BusAssumption, EngineState
  <2>2. \A e \in Execs : Grows(s, t, e)
    BY DEF Follows
  <2> QED
    BY <2>1, <2>2 DEF Sound, AbsentBeyond, Grows, Node
<1> QED
  BY <1>2, <1>3, <1>4 DEF Sound

(***************************************************************************)
(* A failed save and a restart stop what runs; a failed save leaves no     *)
(* outcome standing in the execution x it is about.                        *)
(***************************************************************************)
LEMMA ReportFacts ==
    ASSUME NEW s \in EngineState, NEW x, NEW m
    PROVE  LET r == Report(s, x, m)
           IN  /\ Sound(s) => Sound(r)
               /\ r.parents = s.parents /\ r.count = s.count
               /\ \A e \in Execs :
                    /\ r.status[e] \in {s.status[e], "interrupted"}
                    /\ r.status[e] \in {"completed", "failed"} => e # x
                    /\ \A n \in Node : r.node[e][n] \in {s.node[e][n], "interrupted"}
<1> DEFINE r == Report(s, x, m)
<1>1. r \in EngineState
  BY ReportType
<1>2. \A e \in Execs :
         r.status[e] = IF Affected(s, x, e) THEN "interrupted" ELSE s.status[e]
  BY DEF Report, EngineState
<1>3. \A e \in Execs : \A n \in Node :
         r.node[e][n] = IF /\ Affected(s, x, e)
                           /\ \/ s.node[e][n] = "running"
                              \/ e = x /\ n = m /\ s.node[e][n] # "absent"
                        THEN "interrupted" ELSE s.node[e][n]
  BY DEF Report, EngineState
<1>4. r.parents = s.parents /\ r.count = s.count
  BY DEF Report, EngineState
<1> HIDE DEF r
<1>5. ASSUME NEW e \in Execs
      PROVE  RunsOn(s, r, e) /\ StaysCompleted(s, r, e) /\ Grows(s, r, e)
  <2>0. s.count[e] <= s.count[e]
    BY BusAssumption DEF BusAssumption, EngineState
  <2>1. CASE Affected(s, x, e)
    BY <1>2, <1>3, <1>4, <2>0, <2>1 DEF RunsOn, StaysCompleted, Grows, Affected, Live
  <2>2. CASE ~Affected(s, x, e)
    <3>1. /\ r.status[e] = s.status[e]
          /\ \A n \in Node : r.node[e][n] = s.node[e][n]
      BY <1>2, <1>3, <2>2
    <3> QED
      BY <1>4, <2>0, <3>1 DEF RunsOn, StaysCompleted, DoneStays, Grows
  <2> QED
    BY <2>1, <2>2
<1>6. Sound(s) => Sound(r)
  BY <1>1, <1>5, FollowsSound DEF Follows
<1>7. \A e \in Execs :
         /\ r.status[e] \in {s.status[e], "interrupted"}
         /\ r.status[e] \in {"completed", "failed"} => e # x
         /\ \A n \in Node : r.node[e][n] \in {s.node[e][n], "interrupted"}
  BY <1>2, <1>3 DEF Affected
<1> QED
  BY <1>4, <1>6, <1>7 DEF r

LEMMA RecoverSound ==
    ASSUME NEW s \in EngineState, Sound(s)
    PROVE  Sound(Recover(s))
<1> DEFINE r == Recover(s)
<1>1. r \in EngineState
  BY RecoverType
<1>2. /\ \A e \in Execs : r.status[e] = IF s.status[e] = "running" THEN "interrupted"
                                        ELSE s.status[e]
      /\ \A e \in Execs : \A n \in Node :
            r.node[e][n] = IF s.node[e][n] = "running" THEN "interrupted"
                           ELSE s.node[e][n]
      /\ r.count = s.count
  BY DEF Recover, EngineState
<1> HIDE DEF r
<1>3. Follows(s, r)
  <2>1. \A e \in Execs : s.count[e] <= s.count[e]
    BY BusAssumption DEF BusAssumption, EngineState
  <2> QED
    BY <1>2, <2>1 DEF Follows, RunsOn, StaysCompleted, DoneStays, Grows
<1>4. Sound(r)
  BY <1>1, <1>3, FollowsSound
<1> QED
  BY <1>4 DEF r

-----------------------------------------------------------------------------
(***************************************************************************)
(* The form of every step of the engine: a sound state s is saved, or its  *)
(* save fails, or it is left in memory.  It holds no outcome the engine    *)
(* did not have, but for the execution x that a failed save interrupts,    *)
(* and for the executions that an overload fails.                          *)
(***************************************************************************)
NoNews(s, x) ==
    \A e \in Execs :
        /\ s.status[e] = "completed" => e = x \/ eng.status[e] = "completed"
        /\ s.status[e] = "failed" => e = x \/ eng.status[e] = "failed" \/ bus.overloaded

Moves(s, x, m, b) ==
    /\ s \in EngineState
    /\ Sound(s)
    /\ \A e \in Execs : eng.count[e] <= s.count[e]
    /\ BusKept(bus, b)
    /\ \/ Saved(s, b)
       \/ SaveFailed(s, x, m, b) /\ NoNews(s, x)
       \/ eng' = s /\ s.status = eng.status /\ Unsaved /\ bus' = b

LEMMA MovesSafe ==
    ASSUME StateTypeOK, bus \in BusValue(Event), StateInv,
           NEW s, NEW x, NEW m, NEW b, Moves(s, x, m, b)
    PROVE  /\ StateInv'
           /\ \A e \in Execs : eng.count[e] <= eng'.count[e]
           /\ NotMore(bus, b) => NotMore(bus, bus')
<1>0. ASSUME BusKept(bus, bus'), eng' \in EngineState,
             \A e \in Execs : eng.count[e] <= eng'.count[e]
      PROVE  Known(eng', bus')
  <2>1. \A i \in 1..Len(bus'.queue) : bus'.queue[i] \in Event /\ About(eng, bus'.queue[i])
    BY <1>0 DEF BusKept, StateInv, Known, BusValue
  <2>2. \A ev \in Event : About(eng, ev) => About(eng', ev)
    <3>1. \A e \in Execs : eng.count[e] \in Nat /\ eng'.count[e] \in Nat
      BY <1>0, BusAssumption DEF BusAssumption, StateTypeOK, EngineState
    <3> QED
      BY <1>0, <3>1 DEF About, Event, Node, RuntimeType, TaskType, AttemptType
  <2> QED
    BY <2>1, <2>2 DEF Known
<1>1. CASE Saved(s, b)
  <2>1. eng' = s /\ disk' = s /\ bus' = b
    BY <1>1 DEF Saved
  <2> QED
    BY <1>0, <2>1 DEF Moves, BusKept, StateInv, Durable
<1>2. CASE SaveFailed(s, x, m, b) /\ NoNews(s, x)
  <2>1. eng' = Report(s, x, m) /\ disk' = disk
    BY <1>2 DEF SaveFailed
  <2>2. RuntimePersistenceFailed \in Event
    BY RuntimeEventType
  <2>3. Quiet(b, bus')
    <3>1. b \in BusValue(Event)
      BY DEF Moves, BusKept
    <3> QED
      BY <1>2, <2>2, <3>1, QuietPublish
         DEF SaveFailed, RuntimePersistenceFailed, ExecEvent, TaskEvent, About, TaskType,
             AttemptType
  <2>4. BusKept(bus, bus') /\ (NotMore(bus, b) => NotMore(bus, bus'))
    BY <2>3, QuietTrans DEF Moves, Quiet, BusKept
  <2>5. /\ Sound(eng') /\ eng'.count = s.count /\ eng' \in EngineState
        /\ \A e \in Execs :
              /\ eng'.status[e] \in {s.status[e], "interrupted"}
              /\ eng'.status[e] \in {"completed", "failed"} => e # x
    BY <2>1, ReportFacts, ReportType DEF Moves
  <2>6. Durable'
    BY <1>2, <2>1, <2>4, <2>5 DEF Durable, NoNews, StateInv, BusKept
  <2> QED
    BY <1>0, <2>1, <2>4, <2>5, <2>6 DEF Moves, StateInv, BusKept
<1>3. CASE eng' = s /\ s.status = eng.status /\ Unsaved /\ bus' = b
  BY <1>0, <1>3 DEF Moves, BusKept, Unsaved, StateInv, Durable
<1> QED
  BY <1>1, <1>2, <1>3 DEF Moves

-----------------------------------------------------------------------------
(***************************************************************************)
(* Every handler of the engine moves so, and hands nothing out by itself.  *)
(***************************************************************************)
Ready == EngineTypeOK /\ SafetyInv
QuietMove == \E s, x, m, b : Moves(s, x, m, b) /\ NotMore(bus, b)

LEMMA QuietMoves ==
    ASSUME Ready, NEW s \in EngineState, Follows(eng, s), NEW x, NEW m, NEW b,
           Quiet(bus, b),
           \/ Saved(s, b)
           \/ SaveFailed(s, x, m, b) /\ NoNews(s, x)
           \/ eng' = s /\ s.status = eng.status /\ Unsaved /\ bus' = b
    PROVE  QuietMove
<1>1. Sound(s)
  BY FollowsSound DEF Ready, EngineTypeOK, StateTypeOK, SafetyInv, StateInv
<1>2. Moves(s, x, m, b) /\ NotMore(bus, b)
  BY <1>1 DEF Moves, Quiet, Follows, Grows
<1> QED
  BY <1>2 DEF QuietMove

LEMMA SameFollows ==
    ASSUME Ready
    PROVE  Follows(eng, eng) /\ \A e \in Execs : eng.count[e] <= eng.count[e]
<1>1. \A e \in Execs : eng.count[e] <= eng.count[e]
  BY BusAssumption DEF BusAssumption, Ready, EngineTypeOK, StateTypeOK, EngineState
<1> QED
  BY <1>1 DEF Follows, RunsOn, StaysCompleted, DoneStays, Grows

LEMMA DroppedMoves ==
    ASSUME Ready, bus.queue # <<>>, Dropped
    PROVE  QuietMove
<1>1. Quiet(bus, Remaining)
  BY QuietRemaining DEF Ready, EngineTypeOK
<1>2. eng' = eng /\ Unsaved /\ bus' = Remaining
  BY DEF Dropped
<1>3. eng \in EngineState
  BY DEF Ready, EngineTypeOK, StateTypeOK
<1> QED
  BY <1>1, <1>2, <1>3, QuietMoves, SameFollows

LEMMA HeadFacts ==
    ASSUME Ready, NEW t, Handling(t)
    PROVE  /\ bus.queue # <<>>
           /\ HeadEvent \in Event
           /\ HeadEvent.type = t
           /\ Quiet(bus, Remaining)
           /\ Remaining \in BusValue(Event)
           /\ HeadEvent = bus.queue[1] /\ 1 \in 1..Len(bus.queue)
           /\ About(eng, HeadEvent)
<1>1. bus.queue # <<>> /\ HeadEvent.type = t /\ bus \in BusValue(Event)
  BY DEF Handling, Delivers, Ready, EngineTypeOK
<1>2. bus.queue \in Seq(Event)
  BY <1>1 DEF BusValue
<1> QED
  BY <1>1, <1>2, RemainingType, QuietRemaining
     DEF HeadEvent, Ready, SafetyInv, StateInv, Known

LEMMA OverloadedMoves ==
    ASSUME Ready, HandleOverloaded
    PROVE  QuietMove
<1> DEFINE hit == {e \in Execs : eng.status[e] \in Live}
           status == [e \in Execs |-> IF e \in hit THEN "failed" ELSE eng.status[e]]
           cancelled == eng.cancelled \cup hit
           node == [e \in Execs |-> [n \in Node |->
                      IF e \in hit /\ eng.node[e][n] \notin {"done", "absent"}
                      THEN "failed" ELSE eng.node[e][n]]]
           s == [eng EXCEPT !.status = status, !.cancelled = cancelled, !.node = node]
<1>1. /\ Saved(s, Remaining) \/ SaveFailed(s, NoExec, 0, Remaining)
      /\ Handling("RuntimeOverloaded")
  BY DEF HandleOverloaded
<1>2. /\ status \in [Execs -> ExecStatus]
      /\ cancelled \in SUBSET Execs
      /\ node \in [Execs -> [Node -> NodeState]]
  BY DEF Ready, EngineTypeOK, StateTypeOK, EngineState, ExecStatus, NodeState
<1>3. /\ \A e \in Execs : status[e] \in {eng.status[e], "failed"}
      /\ \A e \in Execs : status[e] = "failed" \/ \A n \in Node : node[e][n] = eng.node[e][n]
      /\ \A e \in Execs : \A n \in Node : eng.node[e][n] = "absent" => node[e][n] = "absent"
      /\ \A e \in Execs : eng.status[e] = "absent" <=> status[e] = "absent"
  BY DEF Live
<1> HIDE DEF status, cancelled, node
<1>4. /\ s \in EngineState
      /\ s.status = status /\ s.node = node
      /\ s.count = eng.count /\ s.parents = eng.parents
  BY <1>2 DEF Ready, EngineTypeOK, StateTypeOK, EngineState
<1> HIDE DEF s
<1>5. Follows(eng, s)
  BY <1>3, <1>4, SameFollows
     DEF Follows, RunsOn, StaysCompleted, DoneStays, Grows, Unfinished, Live
<1>6. bus.overloaded
  BY <1>1, HeadFacts DEF Ready, SafetyInv, StateInv, Clean
<1>7. NoNews(s, NoExec)
  BY <1>3, <1>4, <1>6 DEF NoNews
<1> QED
  BY <1>1, <1>4, <1>5, <1>7, HeadFacts, QuietMoves

(* Attempts and artifacts are no concern of the graph. *)
LEMMA SameGraph ==
    ASSUME Ready, NEW s, s.status = eng.status, s.node = eng.node, s.count = eng.count,
           s.parents = eng.parents
    PROVE  Follows(eng, s) /\ \A x : NoNews(s, x)
  BY SameFollows DEF Follows, RunsOn, StaysCompleted, DoneStays, Grows, NoNews

LEMMA AttemptStartedMoves ==
    ASSUME Ready, HandleAttemptStarted
    PROVE  QuietMove
<1> DEFINE e == HeadEvent.exec
           n == HeadEvent.node
           a == HeadEvent.attempt
           attempt == [eng.attempt EXCEPT ![e][n][a] = "running"]
           active == [eng.active EXCEPT ![e][n] = a]
           s == [eng EXCEPT !.attempt = attempt, !.active = active]
<1>1. /\ Handling("AttemptStarted")
      /\ Dropped \/ Saved(s, Remaining) \/ SaveFailed(s, NoExec, 0, Remaining)
  BY DEF HandleAttemptStarted
<1>2. e \in Execs /\ n \in Node /\ a \in Attempt
  BY <1>1, HeadTask, HeadAttempt DEF Handling, Ready, EngineTypeOK, AttemptType
<1> HIDE DEF e, n, a
<1>3. attempt \in [Execs -> [Node -> [Attempt -> AttemptState]]]
  BY <1>2 DEF Ready, EngineTypeOK, StateTypeOK, EngineState, AttemptState
<1>4. active \in [Execs -> [Node -> 0..MaxAttempts]]
  BY <1>2, BusAssumption
     DEF BusAssumption, Ready, EngineTypeOK, StateTypeOK, EngineState, Attempt
<1> HIDE DEF attempt, active
<1>5. /\ s \in EngineState
      /\ s.status = eng.status /\ s.node = eng.node
      /\ s.count = eng.count /\ s.parents = eng.parents
  BY <1>3, <1>4 DEF Ready, EngineTypeOK, StateTypeOK, EngineState
<1> HIDE DEF s
<1>6. Follows(eng, s) /\ NoNews(s, NoExec)
  BY <1>5, SameGraph
<1> QED
  BY <1>1, <1>5, <1>6, HeadFacts, QuietMoves, DroppedMoves

LEMMA AttemptFinishedMoves ==
    ASSUME Ready, HandleAttemptFinished
    PROVE  QuietMove
<1> DEFINE e == HeadEvent.exec
           n == HeadEvent.node
           a == HeadEvent.attempt
           attempt == [eng.attempt EXCEPT ![e][n][a] =
                         IF @ = "running" THEN HeadEvent.arg ELSE @]
           s == [eng EXCEPT !.attempt = attempt]
<1>1. /\ Handling("AttemptFinished")
      /\ Dropped \/ Saved(s, Remaining) \/ SaveFailed(s, NoExec, 0, Remaining)
  BY DEF HandleAttemptFinished
<1>2. e \in Execs /\ n \in Node /\ a \in Attempt
  BY <1>1, HeadTask, HeadAttempt DEF Handling, Ready, EngineTypeOK, AttemptType
<1>3. HeadEvent.arg \in {"succeeded", "failed"}
  BY <1>1, HeadFacts DEF Event
<1> HIDE DEF e, n, a
<1>4. attempt \in [Execs -> [Node -> [Attempt -> AttemptState]]]
  BY <1>2, <1>3 DEF Ready, EngineTypeOK, StateTypeOK, EngineState, AttemptState
<1> HIDE DEF attempt
<1>5. /\ s \in EngineState
      /\ s.status = eng.status /\ s.node = eng.node
      /\ s.count = eng.count /\ s.parents = eng.parents
  BY <1>4 DEF Ready, EngineTypeOK, StateTypeOK, EngineState
<1> HIDE DEF s
<1>6. Follows(eng, s) /\ NoNews(s, NoExec)
  BY <1>5, SameGraph
<1> QED
  BY <1>1, <1>5, <1>6, HeadFacts, QuietMoves, DroppedMoves

LEMMA ArtifactMoves ==
    ASSUME Ready, HandleArtifact
    PROVE  QuietMove
<1> DEFINE e == HeadEvent.exec
           n == HeadEvent.node
           artifact == [eng.artifact EXCEPT ![e] = @ \cup {n}]
           s == [eng EXCEPT !.artifact = artifact]
<1>1. /\ Handling("ArtifactStored")
      /\ Dropped \/ Saved(s, Remaining) \/ SaveFailed(s, e, n, Remaining)
  BY DEF HandleArtifact
<1>2. e \in Execs /\ n \in Node
  BY <1>1, HeadTask DEF Handling, Ready, EngineTypeOK, AttemptType
<1> HIDE DEF e, n
<1>3. artifact \in [Execs -> SUBSET Node]
  BY <1>2 DEF Ready, EngineTypeOK, StateTypeOK, EngineState
<1> HIDE DEF artifact
<1>4. /\ s \in EngineState
      /\ s.status = eng.status /\ s.node = eng.node
      /\ s.count = eng.count /\ s.parents = eng.parents
  BY <1>3 DEF Ready, EngineTypeOK, StateTypeOK, EngineState
<1> HIDE DEF s
<1>5. Follows(eng, s) /\ NoNews(s, e)
  BY <1>4, SameGraph
<1> QED
  BY <1>1, <1>4, <1>5, HeadFacts, QuietMoves, DroppedMoves

LEMMA GraphMutationMoves ==
    ASSUME Ready, HandleGraphMutation
    PROVE  QuietMove
<1> DEFINE e == HeadEvent.exec
           n == HeadEvent.node
           k == IF HeadEvent.arg = "return" THEN 2 ELSE 1
           c == eng.count[e]
           s == Grown(eng, e, n, k)
<1>1. /\ Handling("GraphMutationRequested")
      /\ \/ Dropped
         \/ /\ eng.status[e] = "running"
            /\ WithinBudget(e, k)
            /\ Saved(s, Remaining) \/ SaveFailed(eng, e, n, Remaining)
  BY DEF HandleGraphMutation
<1>2. e \in Execs /\ n \in Node /\ k \in {1, 2}
  BY <1>1, HeadTask DEF Handling, Ready, EngineTypeOK, AttemptType
<1>3. eng \in EngineState
  BY DEF Ready, EngineTypeOK, StateTypeOK
<1> HIDE DEF e, n, k
<1>4. CASE Dropped
  BY <1>1, <1>4, HeadFacts, DroppedMoves
<1>5. CASE SaveFailed(eng, e, n, Remaining)
  BY <1>1, <1>3, <1>5, HeadFacts, QuietMoves, SameGraph
<1>6. CASE eng.status[e] = "running" /\ WithinBudget(e, k) /\ Saved(s, Remaining)
  <2>1. s \in EngineState
    BY <1>2, <1>3, <1>6, GrownType DEF WithinBudget
  <2>2. /\ s.status = eng.status
        /\ \A f \in Execs : f # e => /\ s.count[f] = eng.count[f]
                                     /\ s.node[f] = eng.node[f]
                                     /\ s.parents[f] = eng.parents[f]
    BY <1>2, <1>3 DEF Grown, EngineState
  <2>3. c \in Nat
    BY <1>2, <1>3, BusAssumption DEF BusAssumption, EngineState
  <2>4. \A m \in Node : s.node[e][m] = IF m \in (c + 1)..(c + k) THEN "pending"
                                       ELSE eng.node[e][m]
    BY <1>2, <1>3 DEF Grown, EngineState
  <2>5. \A m \in Node : s.parents[e][m] = IF m = c + 1 THEN {n}
                                          ELSE IF m = c + 2 /\ k = 2 THEN {c + 1}
                                          ELSE eng.parents[e][m]
    BY <1>2, <1>3 DEF Grown, EngineState
  <2> HIDE DEF s, c
  <2>6. \A m \in Node : s.node[e][m] = "running" =>
           eng.node[e][m] = "running" /\ s.parents[e][m] = eng.parents[e][m]
    BY <1>2, <2>3, <2>4, <2>5 DEF Node
  <2>7. \A m \in Node : m > c => eng.node[e][m] = "absent"
    BY <1>2 DEF Ready, SafetyInv, StateInv, Sound, AbsentBeyond, c
  <2>8. DoneStays(eng, s, e)
    BY <1>2, <2>3, <2>4, <2>7 DEF DoneStays, Node
  <2>9. s.count[e] = c + k
    BY <1>2, <1>3 DEF Grown, EngineState, s, c
  <2>10. RunsOn(eng, s, e) /\ StaysCompleted(eng, s, e)
    BY <1>6, <2>2, <2>6, <2>8 DEF RunsOn, StaysCompleted, Unfinished, Live
  <2>11. Grows(eng, s, e)
    <3>1. eng.count[e] <= s.count[e]
      BY <1>2, <2>3, <2>9 DEF c
    <3>2. \A m \in Node : m > s.count[e] => s.node[e][m] = eng.node[e][m]
      BY <1>2, <2>3, <2>4, <2>9 DEF Node
    <3> QED
      BY <1>6, <2>2, <3>1, <3>2 DEF Grows
  <2>12. ASSUME NEW f \in Execs, f # e
         PROVE  RunsOn(eng, s, f) /\ StaysCompleted(eng, s, f) /\ Grows(eng, s, f)
    BY <2>2, <2>12, SameFollows DEF RunsOn, StaysCompleted, DoneStays, Grows, Follows
  <2>13. Follows(eng, s)
    BY <2>10, <2>11, <2>12 DEF Follows
  <2> QED
    BY <1>1, <1>6, <2>1, <2>13, HeadFacts, QuietMoves
<1> QED
  BY <1>1, <1>4, <1>5, <1>6

(***************************************************************************)
(* What a handler does to one execution is all it does to the graphs.      *)
(***************************************************************************)
LEMMA OneExecution ==
    ASSUME Ready, NEW e, NEW s,
           s.count = eng.count, s.parents = eng.parents,
           \A f \in Execs : f # e => s.status[f] = eng.status[f] /\ s.node[f] = eng.node[f],
           e \in Execs => RunsOn(eng, s, e) /\ StaysCompleted(eng, s, e) /\ Grows(eng, s, e)
    PROVE  Follows(eng, s)
<1>1. ASSUME NEW f \in Execs, f # e
      PROVE  RunsOn(eng, s, f) /\ StaysCompleted(eng, s, f) /\ Grows(eng, s, f)
  BY <1>1, SameFollows DEF RunsOn, StaysCompleted, DoneStays, Grows, Follows
<1> QED
  BY <1>1 DEF Follows

LEMMA WorkerCompletedMoves ==
    ASSUME Ready, HandleWorkerCompleted
    PROVE  QuietMove /\ (loop'.owner # "none" => loop'.todo \subseteq NodesOf(eng', loop'.exec))
<1> DEFINE e == HeadEvent.exec
           n == HeadEvent.node
           node == [eng.node EXCEPT ![e][n] = "done"]
           active == [eng.active EXCEPT ![e][n] = 0]
           done == [eng EXCEPT !.node = node]
           s == [done EXCEPT !.active = active]
<1>1. /\ Handling("WorkerCompleted")
      /\ \/ Dropped
         \/ /\ eng.status[e] \in Live
            /\ eng.node[e][n] = "running"
            /\ \/ Saved(s, Remaining) /\ Loops(e, Children(s, e, n), n)
               \/ SaveFailed(done, e, n, Remaining) /\ Finished
  BY DEF HandleWorkerCompleted
<1>2. e \in Execs /\ n \in Node
  BY <1>1, HeadTask DEF Handling, Ready, EngineTypeOK, AttemptType
<1>3. eng \in EngineState
  BY DEF Ready, EngineTypeOK, StateTypeOK
<1> HIDE DEF e, n
<1>4. /\ node \in [Execs -> [Node -> NodeState]]
      /\ active \in [Execs -> [Node -> 0..MaxAttempts]]
  BY <1>2, <1>3, BusAssumption DEF BusAssumption, EngineState, NodeState
<1>5. /\ \A f \in Execs : f # e => node[f] = eng.node[f]
      /\ \A m \in Node : node[e][m] = IF m = n THEN "done" ELSE eng.node[e][m]
  BY <1>2, <1>3 DEF EngineState
<1> HIDE DEF node, active
<1>6. /\ done \in EngineState /\ s \in EngineState
      /\ \A t \in {done, s} : /\ t.status = eng.status /\ t.node = node
                              /\ t.count = eng.count /\ t.parents = eng.parents
  BY <1>3, <1>4 DEF EngineState
<1> HIDE DEF done, s
<1>7. CASE Dropped
  BY <1>1, <1>7, HeadFacts, DroppedMoves DEF Dropped, Finished, Idle
<1>8. CASE eng.status[e] \in Live /\ eng.node[e][n] = "running"
  <2>1. ASSUME NEW t \in {done, s}
        PROVE  Follows(eng, t) /\ NoNews(t, e)
    <3>1. RunsOn(eng, t, e) /\ StaysCompleted(eng, t, e) /\ Grows(eng, t, e)
      BY <1>2, <1>5, <1>6, <1>8, SameFollows
         DEF RunsOn, StaysCompleted, DoneStays, Grows, Unfinished, Live
    <3> QED
      BY <1>2, <1>5, <1>6, <3>1, OneExecution DEF NoNews
  <2>2. CASE Saved(s, Remaining) /\ Loops(e, Children(s, e, n), n)
    <3>1. loop'.todo \subseteq NodesOf(eng', loop'.exec)
      BY <2>2 DEF Saved, Loops, Children, NodesOf
    <3> QED
      BY <1>1, <1>6, <2>1, <2>2, <3>1, HeadFacts, QuietMoves
  <2>3. CASE SaveFailed(done, e, n, Remaining) /\ Finished
    <3>1. loop'.owner = "none"
      BY <2>3 DEF Finished, Idle
    <3> QED
      BY <1>1, <1>6, <2>1, <2>3, <3>1, HeadFacts, QuietMoves
  <2> QED
    BY <1>1, <1>7, <1>8, <2>2, <2>3
<1> QED
  BY <1>1, <1>7, <1>8

LEMMA WorkerFailedMoves ==
    ASSUME Ready, HandleWorkerFailed
    PROVE  QuietMove
<1> DEFINE e == HeadEvent.exec
           n == HeadEvent.node
           status == [eng.status EXCEPT ![e] = "failed"]
           active == [eng.active EXCEPT ![e][n] = 0]
           node == [eng.node EXCEPT ![e] = [m \in Node |->
                      IF m = n THEN "failed"
                      ELSE IF @[m] = "pending" THEN "blocked" ELSE @[m]]]
           s == [eng EXCEPT !.status = status, !.active = active, !.node = node]
           b == Publish(Remaining, ExecEvent("ExecutionKilled", e, "none"))
           c == Publish(b, ExecEvent("WorkflowFailed", e, "none"))
<1>1. /\ Handling("WorkerFailed")
      /\ \/ Dropped
         \/ /\ eng.status[e] \in Live
            /\ Saved(s, c) \/ SaveFailed(s, e, n, b)
  BY DEF HandleWorkerFailed
<1>2. e \in Execs /\ n \in Node
  BY <1>1, HeadTask DEF Handling, Ready, EngineTypeOK, TaskType
<1>3. eng \in EngineState /\ n <= eng.count[e]
  BY <1>1, HeadFacts DEF Ready, EngineTypeOK, StateTypeOK, About, TaskType
<1> HIDE DEF e, n
<1>4. Quiet(bus, b) /\ Quiet(bus, c)
  <2>1. /\ ExecEvent("ExecutionKilled", e, "none") \in Event
        /\ ExecEvent("WorkflowFailed", e, "none") \in Event
    BY <1>2, ExecEventType DEF EventType, TaskType, AttemptType, EventArg
  <2>2. Quiet(Remaining, b)
    BY <1>1, <2>1, HeadFacts, QuietPublish
       DEF ExecEvent, TaskEvent, About, TaskType, AttemptType
  <2>3. b \in BusValue(Event)
    BY <2>2 DEF Quiet, BusKept
  <2>4. Quiet(b, c)
    BY <2>1, <2>3, QuietPublish DEF ExecEvent, TaskEvent, About, TaskType, AttemptType
  <2>5. bus \in BusValue(Event) /\ Quiet(bus, Remaining)
    BY <1>1, HeadFacts DEF Ready, EngineTypeOK
  <2> HIDE DEF b, c
  <2>6. Quiet(bus, b)
    BY <2>2, <2>5, QuietTrans
  <2> QED
    BY <2>4, <2>5, <2>6, QuietTrans
<1>5. /\ status \in [Execs -> ExecStatus]
      /\ active \in [Execs -> [Node -> 0..MaxAttempts]]
      /\ node \in [Execs -> [Node -> NodeState]]
  BY <1>2, <1>3, BusAssumption DEF BusAssumption, EngineState, ExecStatus, NodeState
<1>6. /\ status[e] = "failed"
      /\ \A f \in Execs : f # e => node[f] = eng.node[f] /\ status[f] = eng.status[f]
      /\ \A m \in Node : m # n /\ eng.node[e][m] = "absent" => node[e][m] = "absent"
  BY <1>2, <1>3 DEF EngineState
<1> HIDE DEF status, node, active, b, c
<1>7. /\ s \in EngineState
      /\ s.status = status /\ s.node = node
      /\ s.count = eng.count /\ s.parents = eng.parents
  BY <1>3, <1>5 DEF EngineState
<1> HIDE DEF s
<1>8. CASE Dropped
  BY <1>1, <1>8, HeadFacts, DroppedMoves
<1>9. CASE eng.status[e] \in Live /\ (Saved(s, c) \/ SaveFailed(s, e, n, b))
  <2>1. Grows(eng, s, e)
    <3>1. eng.count[e] \in Nat /\ n \in Nat
      BY <1>2, <1>3, BusAssumption DEF BusAssumption, EngineState, Node
    <3>2. \A m \in Node : m > eng.count[e] => m # n
      BY <1>3, <3>1 DEF Node
    <3> QED
      BY <1>2, <1>6, <1>7, <3>1, <3>2, SameFollows DEF Grows
  <2>2. RunsOn(eng, s, e) /\ StaysCompleted(eng, s, e)
    BY <1>6, <1>7 DEF RunsOn, StaysCompleted, Unfinished, Live
  <2>3. Follows(eng, s) /\ NoNews(s, e)
    BY <1>6, <1>7, <2>1, <2>2, OneExecution DEF NoNews
  <2> QED
    BY <1>4, <1>7, <1>9, <2>3, QuietMoves
<1> QED
  BY <1>1, <1>8, <1>9

LEMMA PropagatedQuiet ==
    ASSUME Ready, NEW t, Handling(t), NEW e \in Execs,
           t \in {"ExecutionKilled", "ExecutionPaused", "ExecutionResumed"}
    PROVE  Quiet(bus, Propagated(t, e))
<1>1. CASE CompileOf[e] = NoExec
  BY <1>1, HeadFacts DEF Propagated
<1>2. CASE CompileOf[e] # NoExec
  <2>1. ExecEvent(t, CompileOf[e], "none") \in Event
    BY <1>2, ExecEventType, BusAssumption
       DEF BusAssumption, EventType, TaskType, AttemptType, EventArg
  <2>2. Quiet(Remaining, Propagated(t, e))
    BY <1>2, <2>1, HeadFacts, QuietPublish
       DEF Propagated, ExecEvent, TaskEvent, About, TaskType, AttemptType
  <2> QED
    BY <2>2, HeadFacts, QuietTrans DEF Ready, EngineTypeOK
<1> QED
  BY <1>1, <1>2

LEMMA KilledMoves ==
    ASSUME Ready, HandleKilled
    PROVE  QuietMove
<1> DEFINE e == HeadEvent.exec
           cancelled == eng.cancelled \cup ({e, CompileOf[e]} \ {NoExec})
           status == [eng.status EXCEPT ![e] = IF @ \in Live THEN "cancelled" ELSE @]
           node == [eng.node EXCEPT ![e] = Blocked(@)]
           s == [eng EXCEPT !.cancelled = cancelled, !.status = status, !.node = node]
           b == Propagated("ExecutionKilled", e)
<1>1. /\ Handling("ExecutionKilled")
      /\ Saved(s, b) \/ SaveFailed(s, e, 0, b)
  BY DEF HandleKilled
<1>2. e \in Execs
  BY <1>1, HeadExec DEF Handling, Ready, EngineTypeOK, EventType, RuntimeType
<1>3. eng \in EngineState
  BY DEF Ready, EngineTypeOK, StateTypeOK
<1> HIDE DEF e
<1>4. Quiet(bus, b)
  BY <1>1, <1>2, PropagatedQuiet
<1>5. /\ status \in [Execs -> ExecStatus]
      /\ cancelled \in SUBSET Execs
      /\ node \in [Execs -> [Node -> NodeState]]
  BY <1>2, <1>3, BlockedType, BusAssumption DEF BusAssumption, EngineState, ExecStatus
<1>6. /\ status[e] = IF eng.status[e] \in Live THEN "cancelled" ELSE eng.status[e]
      /\ \A f \in Execs : f # e => node[f] = eng.node[f] /\ status[f] = eng.status[f]
      /\ \A m \in Node : \/ node[e][m] = eng.node[e][m]
                         \/ eng.node[e][m] \in {"pending", "interrupted"} /\ node[e][m] = "blocked"
  BY <1>2, <1>3 DEF EngineState, Blocked
<1> HIDE DEF status, node, cancelled, b
<1>7. /\ s \in EngineState
      /\ s.status = status /\ s.node = node
      /\ s.count = eng.count /\ s.parents = eng.parents
  BY <1>3, <1>5 DEF EngineState
<1> HIDE DEF s
<1>8. RunsOn(eng, s, e) /\ StaysCompleted(eng, s, e) /\ Grows(eng, s, e)
  BY <1>2, <1>6, <1>7, SameFollows
     DEF RunsOn, StaysCompleted, DoneStays, Grows, Unfinished, Live
<1>9. Follows(eng, s) /\ NoNews(s, e)
  BY <1>2, <1>6, <1>7, <1>8, OneExecution DEF NoNews
<1> QED
  BY <1>1, <1>4, <1>7, <1>9, QuietMoves

LEMMA PausedMoves ==
    ASSUME Ready, HandlePaused
    PROVE  QuietMove
<1> DEFINE e == HeadEvent.exec
           paused == eng.paused \cup {e}
           status == [eng.status EXCEPT ![e] = IF @ = "running" THEN "paused" ELSE @]
           s == [eng EXCEPT !.paused = paused, !.status = status]
           b == Propagated("ExecutionPaused", e)
<1>1. /\ Handling("ExecutionPaused")
      /\ Saved(s, b) \/ SaveFailed(s, e, 0, b)
  BY DEF HandlePaused
<1>2. e \in Execs
  BY <1>1, HeadExec DEF Handling, Ready, EngineTypeOK, EventType, RuntimeType
<1>3. eng \in EngineState
  BY DEF Ready, EngineTypeOK, StateTypeOK
<1> HIDE DEF e
<1>4. Quiet(bus, b)
  BY <1>1, <1>2, PropagatedQuiet
<1>5. /\ status \in [Execs -> ExecStatus]
      /\ paused \in SUBSET Execs
  BY <1>2, <1>3 DEF EngineState, ExecStatus
<1>6. /\ status[e] = IF eng.status[e] = "running" THEN "paused" ELSE eng.status[e]
      /\ \A f \in Execs : f # e => status[f] = eng.status[f]
  BY <1>2, <1>3 DEF EngineState
<1> HIDE DEF status, paused, b
<1>7. /\ s \in EngineState
      /\ s.status = status /\ s.node = eng.node
      /\ s.count = eng.count /\ s.parents = eng.parents
  BY <1>3, <1>5 DEF EngineState
<1> HIDE DEF s
<1>8. RunsOn(eng, s, e) /\ StaysCompleted(eng, s, e) /\ Grows(eng, s, e)
  BY <1>2, <1>6, <1>7, SameFollows
     DEF RunsOn, StaysCompleted, DoneStays, Grows, Unfinished, Live
<1>9. Follows(eng, s) /\ NoNews(s, e)
  BY <1>2, <1>6, <1>7, <1>8, OneExecution DEF NoNews
<1> QED
  BY <1>1, <1>4, <1>7, <1>9, QuietMoves

LEMMA ResumedMoves ==
    ASSUME Ready, HandleResumed
    PROVE  QuietMove /\ (loop'.owner # "none" => loop'.todo \subseteq NodesOf(eng', loop'.exec))
<1> DEFINE e == HeadEvent.exec
           paused == eng.paused \ {e}
           status == [eng.status EXCEPT ![e] = "running"]
           cleared == [eng EXCEPT !.paused = paused]
           s == [cleared EXCEPT !.status = status]
           b == Propagated("ExecutionResumed", e)
           ready == Roots(s, e) \cup
                    UNION {Children(s, e, n) :
                             n \in {m \in NodesOf(s, e) : s.node[e][m] = "done"}}
<1>1. /\ Handling("ExecutionResumed")
      /\ \/ eng' = cleared /\ bus' = b /\ Unsaved /\ Finished
         \/ eng.status[e] = "paused" /\ Saved(s, b) /\ Loops(e, ready, 0)
         \/ SaveFailed(cleared, e, 0, b) /\ Finished
  BY DEF HandleResumed
<1>2. e \in Execs
  BY <1>1, HeadExec DEF Handling, Ready, EngineTypeOK, EventType, RuntimeType
<1>3. eng \in EngineState
  BY DEF Ready, EngineTypeOK, StateTypeOK
<1> HIDE DEF e
<1>4. Quiet(bus, b)
  BY <1>1, <1>2, PropagatedQuiet
<1>5. /\ status \in [Execs -> ExecStatus]
      /\ paused \in SUBSET Execs
  BY <1>2, <1>3 DEF EngineState, ExecStatus
<1>6. /\ status[e] = "running"
      /\ \A f \in Execs : f # e => status[f] = eng.status[f]
  BY <1>2, <1>3 DEF EngineState
<1> HIDE DEF status, paused, b
<1>7. /\ s \in EngineState /\ cleared \in EngineState
      /\ s.status = status /\ cleared.status = eng.status
      /\ \A t \in {s, cleared} : /\ t.node = eng.node /\ t.count = eng.count
                                 /\ t.parents = eng.parents
  BY <1>3, <1>5 DEF EngineState
<1>8. ready \subseteq NodesOf(s, e)
  BY DEF Roots, Children
<1> HIDE DEF s, cleared, ready
<1>9. CASE eng' = cleared /\ bus' = b /\ Unsaved /\ Finished
  <2>1. Follows(eng, cleared) /\ loop'.owner = "none"
    BY <1>7, <1>9, SameGraph DEF Finished, Idle
  <2> QED
    BY <1>4, <1>7, <1>9, <2>1, QuietMoves
<1>10. CASE SaveFailed(cleared, e, 0, b) /\ Finished
  <2>1. Follows(eng, cleared) /\ NoNews(cleared, e) /\ loop'.owner = "none"
    BY <1>7, <1>10, SameGraph DEF Finished, Idle
  <2> QED
    BY <1>4, <1>7, <1>10, <2>1, QuietMoves
<1>11. CASE eng.status[e] = "paused" /\ Saved(s, b) /\ Loops(e, ready, 0)
  <2>1. RunsOn(eng, s, e) /\ StaysCompleted(eng, s, e) /\ Grows(eng, s, e)
    BY <1>2, <1>6, <1>7, <1>11, SameFollows
       DEF RunsOn, StaysCompleted, DoneStays, Grows, Unfinished, Live
  <2>2. Follows(eng, s)
    BY <1>6, <1>7, <2>1, OneExecution
  <2>3. loop'.todo \subseteq NodesOf(eng', loop'.exec)
    BY <1>8, <1>11 DEF Saved, Loops
  <2> QED
    BY <1>4, <1>7, <1>11, <2>2, <2>3, QuietMoves
<1> QED
  BY <1>1, <1>9, <1>10, <1>11

LEMMA ReconciledMoves ==
    ASSUME Ready, HandleReconciled
    PROVE  QuietMove /\ (loop'.owner # "none" => loop'.todo \subseteq NodesOf(eng', loop'.exec))
<1> DEFINE e == HeadEvent.exec
           again(n) == eng.node[e][n] = "interrupted"
           status == [eng.status EXCEPT ![e] = "running"]
           node == [eng.node EXCEPT ![e] = [n \in Node |->
                      IF again(n) THEN "pending" ELSE @[n]]]
           active == [eng.active EXCEPT ![e] = [n \in Node |->
                        IF again(n) THEN 0 ELSE @[n]]]
           retry == [eng EXCEPT !.status = status, !.node = node, !.active = active]
           ended == [eng.status EXCEPT ![e] = IF HeadEvent.arg = "cancel" THEN "cancelled"
                                              ELSE "failed"]
           blocked == [eng.node EXCEPT ![e] = Blocked(@)]
           final == [eng EXCEPT !.status = ended, !.node = blocked]
           ready == {n \in Node : retry.node[e][n] = "pending"}
<1>1. /\ Handling("ExecutionReconciled")
      /\ \/ Dropped
         \/ /\ eng.status[e] = "interrupted"
            /\ \/ Saved(retry, Remaining) /\ Loops(e, ready, 0)
               \/ SaveFailed(eng, e, 0, Remaining) /\ Finished
               \/ Saved(final, Remaining) /\ Finished
               \/ SaveFailed(final, e, 0, Remaining) /\ Finished
  BY DEF HandleReconciled
<1>2. e \in Execs
  BY <1>1, HeadExec DEF Handling, Ready, EngineTypeOK, EventType, RuntimeType
<1>3. eng \in EngineState
  BY DEF Ready, EngineTypeOK, StateTypeOK
<1>4. status \in [Execs -> ExecStatus] /\ ended \in [Execs -> ExecStatus]
  BY <1>2, <1>3 DEF EngineState, ExecStatus
<1>5. /\ status[e] = "running" /\ ended[e] \in {"cancelled", "failed"}
      /\ \A f \in Execs : f # e => status[f] = eng.status[f] /\ ended[f] = eng.status[f]
  BY <1>2, <1>3 DEF EngineState
<1> HIDE DEF e, status, ended
<1>6. /\ node \in [Execs -> [Node -> NodeState]]
      /\ blocked \in [Execs -> [Node -> NodeState]]
      /\ active \in [Execs -> [Node -> 0..MaxAttempts]]
  BY <1>2, <1>3, BlockedType, BusAssumption DEF BusAssumption, EngineState, NodeState
<1>7. /\ \A f \in Execs : f # e => node[f] = eng.node[f] /\ blocked[f] = eng.node[f]
      /\ \A m \in Node : \/ node[e][m] = eng.node[e][m]
                         \/ eng.node[e][m] = "interrupted" /\ node[e][m] = "pending"
      /\ \A m \in Node : \/ blocked[e][m] = eng.node[e][m]
                         \/ /\ eng.node[e][m] \in {"pending", "interrupted"}
                            /\ blocked[e][m] = "blocked"
  BY <1>2, <1>3 DEF EngineState, Blocked
<1> HIDE DEF node, blocked, active
<1>8. /\ retry \in EngineState /\ final \in EngineState
      /\ retry.status = status /\ final.status = ended
      /\ retry.node = node /\ final.node = blocked
      /\ \A t \in {retry, final} : t.count = eng.count /\ t.parents = eng.parents
  BY <1>3, <1>4, <1>6 DEF EngineState
<1> HIDE DEF retry, final
<1>9. CASE Dropped
  BY <1>1, <1>9, HeadFacts, DroppedMoves DEF Dropped, Finished, Idle
<1>10. CASE SaveFailed(eng, e, 0, Remaining) /\ Finished
  <2>1. Follows(eng, eng) /\ NoNews(eng, e) /\ loop'.owner = "none"
    BY <1>10, SameGraph DEF Finished, Idle
  <2> QED
    BY <1>1, <1>3, <1>10, <2>1, HeadFacts, QuietMoves
<1>11. ASSUME eng.status[e] = "interrupted"
       PROVE  Follows(eng, retry) /\ Follows(eng, final) /\ NoNews(final, e)
  <2>1. /\ RunsOn(eng, retry, e) /\ StaysCompleted(eng, retry, e) /\ Grows(eng, retry, e)
        /\ RunsOn(eng, final, e) /\ StaysCompleted(eng, final, e) /\ Grows(eng, final, e)
    BY <1>2, <1>5, <1>7, <1>8, <1>11, SameFollows
       DEF RunsOn, StaysCompleted, DoneStays, Grows, Unfinished, Live
  <2> QED
    BY <1>2, <1>5, <1>7, <1>8, <2>1, OneExecution DEF NoNews
<1>12. CASE /\ eng.status[e] = "interrupted"
            /\ Saved(retry, Remaining) /\ Loops(e, ready, 0)
  <2>1. Sound(retry)
    BY <1>3, <1>8, <1>11, <1>12, FollowsSound DEF Ready, SafetyInv, StateInv
  <2>2. \A n \in Node : n \in ready => ~(n > retry.count[e])
    BY <1>2, <2>1 DEF Sound, AbsentBeyond
  <2>3. retry.count[e] \in Nat
    BY <1>2, <1>8, BusAssumption DEF BusAssumption, EngineState
  <2>4. ready \subseteq NodesOf(retry, e)
    BY <2>2, <2>3 DEF NodesOf, Node
  <2>5. loop'.todo \subseteq NodesOf(eng', loop'.exec)
    BY <1>12, <2>4 DEF Saved, Loops
  <2> QED
    BY <1>1, <1>8, <1>11, <1>12, <2>5, HeadFacts, QuietMoves
<1>13. CASE /\ eng.status[e] = "interrupted"
            /\ Saved(final, Remaining) \/ SaveFailed(final, e, 0, Remaining)
            /\ Finished
  <2>1. loop'.owner = "none"
    BY <1>13 DEF Finished, Idle
  <2> QED
    BY <1>1, <1>8, <1>11, <1>13, <2>1, HeadFacts, QuietMoves
<1> QED
  BY <1>1, <1>9, <1>10, <1>12, <1>13

(***************************************************************************)
(* A handler of the engine keeps the invariant and hands nothing out.      *)
(***************************************************************************)
LEMMA HandlerMoves ==
    ASSUME Ready, EngineHandler
    PROVE  QuietMove /\ LoopInv'
<1>1. QuietMove
  BY OverloadedMoves, AttemptStartedMoves, AttemptFinishedMoves, GraphMutationMoves,
     ArtifactMoves, WorkerCompletedMoves, WorkerFailedMoves, KilledMoves, PausedMoves,
     ResumedMoves, ReconciledMoves DEF EngineHandler
<1>2. CASE HandleWorkerCompleted \/ HandleResumed \/ HandleReconciled
  <2>1. loop'.owner # "none" => loop'.todo \subseteq NodesOf(eng', loop'.exec)
    <3>1. CASE HandleWorkerCompleted
      BY <3>1, WorkerCompletedMoves
    <3>2. CASE HandleResumed
      BY <3>2, ResumedMoves
    <3>3. CASE HandleReconciled
      BY <3>3, ReconciledMoves
    <3> QED
      BY <1>2, <3>1, <3>2, <3>3
  <2>2. loop'.owner # "submit"
    <3>1. CASE HandleWorkerCompleted
      BY <3>1 DEF HandleWorkerCompleted, Dropped, Finished, Loops, Idle
    <3>2. CASE HandleResumed
      BY <3>2 DEF HandleResumed, Finished, Loops, Idle
    <3>3. CASE HandleReconciled
      BY <3>3 DEF HandleReconciled, Dropped, Finished, Loops, Idle
    <3> QED
      BY <1>2, <3>1, <3>2, <3>3
  <2> QED
    BY <1>1, <2>1, <2>2 DEF LoopInv
<1>3. CASE \/ HandleOverloaded \/ HandleAttemptStarted \/ HandleAttemptFinished
           \/ HandleGraphMutation \/ HandleArtifact \/ HandleWorkerFailed
           \/ HandleKilled \/ HandlePaused
  <2>1. Dropped \/ Finished \/ ForDispatcher
    BY <1>3 DEF HandleOverloaded, HandleAttemptStarted, HandleAttemptFinished,
                HandleGraphMutation, HandleArtifact, HandleWorkerFailed, HandleKilled,
                HandlePaused
  <2>2. loop'.owner = "none"
    BY <2>1 DEF Dropped, Finished, ForDispatcher, Idle
  <2> QED
    BY <1>1, <2>2 DEF LoopInv
<1> QED
  BY <1>2, <1>3 DEF EngineHandler

(***************************************************************************)
(* Submission.                                                             *)
(***************************************************************************)
LEMMA NewExecutionFacts ==
    ASSUME NEW s \in EngineState, NEW e \in Execs
    PROVE  LET t == NewExecution(s, e)
           IN  /\ t.status[e] \in {"running", "paused"}
               /\ t.count[e] = StaticCount[e]
               /\ \A n \in Node : t.node[e][n] = IF n <= StaticCount[e] THEN "pending"
                                                 ELSE "absent"
               /\ \A f \in Execs : f # e => /\ t.status[f] = s.status[f]
                                            /\ t.count[f] = s.count[f]
                                            /\ t.node[f] = s.node[f]
                                            /\ t.parents[f] = s.parents[f]
<1> DEFINE status == [s.status EXCEPT ![e] = IF e \in s.paused THEN "paused"
                                            ELSE "running"]
           count == [s.count EXCEPT ![e] = StaticCount[e]]
           node == [s.node EXCEPT ![e] = [n \in Node |->
                      IF n <= StaticCount[e] THEN "pending" ELSE "absent"]]
           parents == [s.parents EXCEPT ![e] = [n \in Node |->
                         IF n <= StaticCount[e] THEN StaticParents[e][n] ELSE {}]]
           t == [s EXCEPT !.status = status, !.count = count, !.parents = parents,
                          !.node = node]
<1>1. /\ status[e] \in {"running", "paused"}
      /\ count[e] = StaticCount[e]
      /\ \A n \in Node : node[e][n] = IF n <= StaticCount[e] THEN "pending" ELSE "absent"
  BY DEF EngineState
<1>2. \A f \in Execs : f # e => /\ status[f] = s.status[f]
                               /\ count[f] = s.count[f]
                               /\ node[f] = s.node[f]
                               /\ parents[f] = s.parents[f]
  BY DEF EngineState
<1>3. NewExecution(s, e) = t
  BY DEF NewExecution
<1> HIDE DEF status, count, node, parents
<1>4. t.status = status /\ t.count = count /\ t.node = node /\ t.parents = parents
  BY DEF EngineState
<1> HIDE DEF t
<1> QED
  BY <1>1, <1>2, <1>3, <1>4

LEMMA SubmitMoves ==
    ASSUME Ready, NEW e \in Execs, SubmitWorkflow(e)
    PROVE  \/ QuietMove /\ LoopInv'
           \/ UNCHANGED <<eng, disk, bus, loop>>
<1> DEFINE s == NewExecution(eng, e)
<1>1. CASE /\ MaySubmit(e)
           /\ Saved(s, bus)
           /\ loop' = [owner |-> "submit", exec |-> e, todo |-> Roots(s, e), node |-> 0]
  <2>1. eng \in EngineState /\ s \in EngineState
    BY NewExecutionType DEF Ready, EngineTypeOK, StateTypeOK
  <2>2. /\ s.status[e] \in {"running", "paused"}
        /\ s.count[e] = StaticCount[e]
        /\ \A n \in Node : s.node[e][n] = IF n <= StaticCount[e] THEN "pending"
                                          ELSE "absent"
    BY <2>1, NewExecutionFacts
  <2>3. \A f \in Execs : f # e => /\ s.status[f] = eng.status[f]
                                  /\ s.count[f] = eng.count[f]
                                  /\ s.node[f] = eng.node[f]
                                  /\ s.parents[f] = eng.parents[f]
    BY <2>1, NewExecutionFacts
  <2>4. eng.count[e] = 0 /\ StaticCount[e] \in Nat
    BY <1>1, EngineAssumption, BusAssumption
       DEF EngineAssumption, BusAssumption, MaySubmit, Ready, SafetyInv, StateInv, Sound,
           AbsentBeyond
  <2> HIDE DEF s
  <2>5. RunsOn(eng, s, e) /\ StaysCompleted(eng, s, e) /\ Grows(eng, s, e)
    BY <2>2, <2>4 DEF RunsOn, StaysCompleted, Grows, Node
  <2>6. ASSUME NEW f \in Execs, f # e
        PROVE  RunsOn(eng, s, f) /\ StaysCompleted(eng, s, f) /\ Grows(eng, s, f)
    BY <2>3, <2>6, SameFollows DEF RunsOn, StaysCompleted, DoneStays, Grows, Follows
  <2>7. Follows(eng, s)
    BY <2>5, <2>6 DEF Follows
  <2>8. QuietMove
    BY <1>1, <2>1, <2>7, QuietSame, QuietMoves DEF Ready, EngineTypeOK
  <2>9. \A n \in Roots(s, e) : s.parents[e][n] = {} /\ s.node[e][n] # "done" /\ n \in NodesOf(s, e)
    BY <2>2 DEF Roots, NodesOf
  <2>10. LoopInv'
    BY <1>1, <2>2, <2>9 DEF Saved, LoopInv, NodesOf
  <2> QED
    BY <2>8, <2>10
<1> QED
  BY <1>1 DEF SubmitWorkflow

(***************************************************************************)
(* The dispatch loop: a node is handed out when its parents are done, and  *)
(* only after the snapshot says that it runs.                              *)
(***************************************************************************)
LEMMA DispatchMoves ==
    ASSUME Ready, NEW n \in Node, DispatchNode(n)
    PROVE  /\ \E s, x, m, b : Moves(s, x, m, b)
           /\ LoopInv'
           /\ \A f \in Execs : \A m \in Node :
                 Cardinality(Queued(bus'.queue, f, m)) > Cardinality(Queued(bus.queue, f, m))
                     => disk'.node[f][m] = "running"
<1> DEFINE e == loop.exec
           node == [eng.node EXCEPT ![e][n] = "running"]
           s == [eng EXCEPT !.node = node]
           ev == TaskEvent("TaskCreated", e, n, 0, "none")
           b == Publish(bus, ev)
<1>1. /\ loop.owner # "none"
      /\ n \in loop.todo
      /\ MayDispatch(n)
      /\ Saved(s, b) \/ SaveFailed(s, e, n, bus)
      /\ loop' = [loop EXCEPT !.todo = @ \ {n}]
  BY DEF DispatchNode
<1>2. e \in Execs /\ eng \in EngineState /\ bus \in BusValue(Event)
  BY <1>1, LoopExec DEF Ready, EngineTypeOK, StateTypeOK, MutexTypeOK
<1>3. eng.count[e] \in Nat /\ n <= eng.count[e]
  BY <1>1, <1>2, BusAssumption
     DEF BusAssumption, EngineState, Ready, SafetyInv, LoopInv, NodesOf
<1>4. /\ eng.status[e] # "completed"
      /\ eng.node[e][n] # "done"
      /\ \A p \in eng.parents[e][n] : p # n /\ eng.node[e][p] = "done"
  BY <1>1 DEF MayDispatch, ParentsDone, Ready, SafetyInv, LoopInv
<1>5. /\ loop'.owner = loop.owner /\ loop'.exec = e
      /\ loop'.todo = loop.todo \ {n}
      /\ loop.todo \subseteq Node
  BY <1>1, LoopExec DEF Ready, EngineTypeOK, MutexTypeOK
<1> HIDE DEF e
<1>6. node \in [Execs -> [Node -> NodeState]]
  BY <1>2 DEF EngineState, NodeState
<1>7. \A f \in Execs : \A m \in Node : node[f][m] = IF f = e /\ m = n THEN "running"
                                                    ELSE eng.node[f][m]
  BY <1>2 DEF EngineState
<1> HIDE DEF node
<1>8. /\ s \in EngineState
      /\ s.status = eng.status /\ s.node = node
      /\ s.count = eng.count /\ s.parents = eng.parents
  BY <1>2, <1>6 DEF EngineState
<1> HIDE DEF s
<1>9. DepsDone(s)
  <2>1. ASSUME NEW f \in Execs, NEW m \in Node,
               s.status[f] \in Live \cup {"interrupted"}, s.node[f][m] = "running",
               NEW p \in s.parents[f][m]
        PROVE  s.node[f][p] = "done"
    <3>1. p \in Node
      BY <1>8 DEF EngineState
    <3>2. CASE f = e /\ m = n
      BY <1>4, <1>7, <1>8, <3>1, <3>2
    <3>3. CASE ~(f = e /\ m = n)
      <4>1. eng.node[f][p] = "done"
        BY <1>7, <1>8, <2>1, <3>3 DEF Ready, SafetyInv, StateInv, Sound, DepsDone
      <4> QED
        BY <1>4, <1>7, <1>8, <3>1, <4>1
    <3> QED
      BY <3>2, <3>3
  <2> QED
    BY <2>1 DEF DepsDone
<1>10. AllDoneIn(s)
  BY <1>4, <1>7, <1>8 DEF Ready, SafetyInv, StateInv, Sound, AllDoneIn, NodesOf
<1>11. AbsentBeyond(s)
  BY <1>3, <1>7, <1>8 DEF Ready, SafetyInv, StateInv, Sound, AbsentBeyond, Node
<1>12. Sound(s) /\ NoNews(s, e)
  BY <1>8, <1>9, <1>10, <1>11 DEF Sound, NoNews
<1>13. \A f \in Execs : eng.count[f] <= s.count[f]
  BY <1>8, SameFollows
<1>14. /\ ev \in Event /\ About(eng, ev)
       /\ ev.type = "TaskCreated" /\ ev.exec = e /\ ev.node = n
  BY <1>2, <1>3, TaskEventType DEF TaskEvent, About
<1>15. BusKept(bus, b)
  BY <1>2, <1>14, PublishKept
<1>16. \E t, x, m, c : Moves(t, x, m, c)
  <2>1. CASE Saved(s, b)
    BY <1>8, <1>12, <1>13, <1>15, <2>1 DEF Moves
  <2>2. CASE SaveFailed(s, e, n, bus)
    <3>1. BusKept(bus, bus)
      BY <1>2, QuietSame DEF Quiet
    <3> QED
      BY <1>8, <1>12, <1>13, <2>2, <3>1 DEF Moves
  <2> QED
    BY <1>1, <2>1, <2>2
<1>17. LoopInv'
  <2>1. /\ eng'.count = eng.count /\ eng'.parents = eng.parents
        /\ eng'.status[e] \in {eng.status[e], "interrupted"}
        /\ \A m \in Node : m # n => eng'.node[e][m] \in {eng.node[e][m], "interrupted"}
    <3>1. CASE eng' = s
      BY <1>2, <1>7, <1>8, <3>1
    <3>2. CASE eng' = Report(s, e, n)
      BY <1>2, <1>7, <1>8, <3>2, ReportFacts
    <3> QED
      BY <1>1, <3>1, <3>2 DEF Saved, SaveFailed
  <2> QED
    BY <1>5, <2>1 DEF Ready, SafetyInv, LoopInv, NodesOf, e
<1>18. ASSUME NEW f \in Execs, NEW m \in Node,
              Cardinality(Queued(bus'.queue, f, m)) > Cardinality(Queued(bus.queue, f, m))
       PROVE  disk'.node[f][m] = "running"
  <2>1. /\ bus' \in BusValue(Event)
        /\ Cardinality(Queued(bus'.queue, f, m)) \in Nat
        /\ Cardinality(Queued(bus.queue, f, m)) \in Nat
    <3>1. bus' \in BusValue(Event)
      BY DispatchType DEF Ready, EngineTypeOK
    <3>2. bus'.queue \in Seq(Event) /\ bus.queue \in Seq(Event)
      BY <1>2, <3>1 DEF BusValue
    <3> QED
      BY <3>1, <3>2, QueuedCount
  <2>2. CASE Saved(s, b)
    <3>1. bus' = b /\ disk' = s
      BY <2>2 DEF Saved
    <3>2. f = e /\ m = n
      BY <1>2, <1>14, <1>18, <2>1, <3>1, PublishCount
    <3> QED
      BY <1>7, <1>8, <3>1, <3>2
  <2>3. CASE SaveFailed(s, e, n, bus)
    <3>1. bus' = Publish(bus, RuntimePersistenceFailed)
      BY <2>3 DEF SaveFailed
    <3>2. Quiet(bus, bus')
      BY <1>2, <3>1, RuntimeEventType, QuietPublish
         DEF RuntimePersistenceFailed, ExecEvent, TaskEvent, About, TaskType, AttemptType
    <3> QED
      BY <1>18, <2>1, <3>2 DEF Quiet, NotMore
  <2> QED
    BY <1>1, <2>2, <2>3
<1> QED
  BY <1>16, <1>17, <1>18

LEMMA EndLoopMoves ==
    ASSUME Ready, EndLoop
    PROVE  QuietMove /\ LoopInv'
<1> DEFINE e == loop.exec
           status == [eng.status EXCEPT ![e] = "completed"]
           s == [eng EXCEPT !.status = status]
           b == Publish(bus, ExecEvent("WorkflowCompleted", e, "none"))
<1>1. /\ loop.owner # "none"
      /\ \/ AllDone(e) /\ (Saved(s, b) \/ SaveFailed(s, e, loop.node, bus))
         \/ Unsaved /\ UNCHANGED <<eng, bus>>
      /\ loop' = Idle
  BY DEF EndLoop
<1>2. e \in Execs /\ eng \in EngineState /\ bus \in BusValue(Event)
  BY <1>1, LoopExec DEF Ready, EngineTypeOK, StateTypeOK, MutexTypeOK
<1>3. LoopInv'
  BY <1>1 DEF LoopInv, Idle
<1> HIDE DEF e
<1>4. Quiet(bus, bus) /\ Quiet(bus, b)
  <2>1. ExecEvent("WorkflowCompleted", e, "none") \in Event
    BY <1>2, ExecEventType DEF EventType, TaskType, AttemptType, EventArg
  <2> QED
    BY <1>2, <2>1, QuietSame, QuietPublish
       DEF ExecEvent, TaskEvent, About, TaskType, AttemptType
<1>5. /\ status \in [Execs -> ExecStatus]
      /\ \A f \in Execs : status[f] = IF f = e THEN "completed" ELSE eng.status[f]
  BY <1>2 DEF EngineState, ExecStatus
<1> HIDE DEF status, b
<1>6. /\ s \in EngineState
      /\ s.status = status /\ s.node = eng.node
      /\ s.count = eng.count /\ s.parents = eng.parents
  BY <1>2, <1>5 DEF EngineState
<1> HIDE DEF s
<1>7. CASE Unsaved /\ UNCHANGED <<eng, bus>>
  <2>1. eng' = eng /\ bus' = bus
    BY <1>7
  <2>2. QuietMove
    BY <1>2, <1>4, <1>7, <2>1, SameFollows, QuietMoves
  <2> QED
    BY <1>3, <2>2
<1>8. CASE AllDone(e) /\ (Saved(s, b) \/ SaveFailed(s, e, loop.node, bus))
  <2>1. DepsDone(s)
    BY <1>5, <1>6 DEF Ready, SafetyInv, StateInv, Sound, DepsDone, Live
  <2>2. AllDoneIn(s)
    BY <1>5, <1>6, <1>8 DEF Ready, SafetyInv, StateInv, Sound, AllDoneIn, AllDone, NodesOf
  <2>3. AbsentBeyond(s)
    BY <1>5, <1>6 DEF Ready, SafetyInv, StateInv, Sound, AbsentBeyond
  <2>4. Sound(s) /\ NoNews(s, e) /\ \A f \in Execs : eng.count[f] <= s.count[f]
    BY <1>5, <1>6, <2>1, <2>2, <2>3, SameFollows DEF Sound, NoNews
  <2>5. \E c : Moves(s, e, loop.node, c) /\ NotMore(bus, c)
    BY <1>4, <1>6, <1>8, <2>4 DEF Moves, Quiet
  <2> QED
    BY <1>3, <2>5 DEF QuietMove
<1> QED
  BY <1>1, <1>7, <1>8

-----------------------------------------------------------------------------
(***************************************************************************)
(* The dispatcher and its goroutines publish events about nodes they were  *)
(* given, and queue no TaskCreated.                                        *)
(***************************************************************************)
LEMMA QuietTaskEvent ==
    ASSUME NEW b \in BusValue(Event), NEW t \in AttemptType \cup {"WorkerFailed"},
           NEW e, NEW n, NEW a, NEW x, TaskEvent(t, e, n, a, x) \in Event,
           n <= eng.count[e]
    PROVE  Quiet(b, Publish(b, TaskEvent(t, e, n, a, x)))
<1> DEFINE ev == TaskEvent(t, e, n, a, x)
<1>1. ev.type = t /\ ev.exec = e /\ ev.node = n
  BY DEF TaskEvent
<1> HIDE DEF ev
<1>2. ev \in Event => Quiet(b, Publish(b, ev))
  BY <1>1, QuietPublish DEF About, AttemptType
<1> QED
  BY <1>2 DEF ev

LEMMA QuietFailure ==
    ASSUME NEW b \in BusValue(Event), NEW e \in Execs, NEW n \in Node, n <= eng.count[e]
    PROVE  Quiet(b, WorkerFailed(b, e, n))
  BY TaskEventType, QuietTaskEvent DEF WorkerFailed

LEMMA QuietFinish ==
    ASSUME NEW b \in BusValue(Event), NEW e \in Execs, NEW n \in Node, n <= eng.count[e],
           task[e][n].attempt \in Attempt, NEW x \in {"succeeded", "failed"}
    PROVE  Quiet(b, AttemptFinished(b, e, n, x))
<1>1. TaskEvent("AttemptFinished", e, n, task[e][n].attempt, x) \in Event
  BY AttemptEventType
<1> QED
  BY <1>1, QuietTaskEvent DEF AttemptFinished, AttemptType

LEMMA QuietBoth ==
    ASSUME NEW e \in Execs, NEW n \in Node, n <= eng.count[e],
           bus \in BusValue(Event), task[e][n].attempt \in Attempt,
           NEW x \in {"succeeded", "failed"}
    PROVE  LET b == AttemptFinished(bus, e, n, x)
           IN  /\ b \in BusValue(Event)
               /\ Quiet(bus, b)
               /\ Quiet(bus, WorkerFailed(b, e, n))
<1> DEFINE b == AttemptFinished(bus, e, n, x)
<1>1. b \in BusValue(Event) /\ Quiet(bus, b)
  BY FinishType, QuietFinish
<1> HIDE DEF b
<1>2. Quiet(bus, WorkerFailed(b, e, n))
  BY <1>1, QuietFailure, QuietTrans
<1> QED
  BY <1>1, <1>2 DEF b

LEMMA TaskQuiet ==
    ASSUME DispatcherBusOK, NEW e \in Execs, NEW n \in Node, n <= eng.count[e],
           TaskStep(e, n)
    PROVE  Quiet(bus, bus')
<1> USE DEF DispatcherBusOK
<1> DEFINE a == task[e][n].attempt
<1>0. /\ task[e][n].pc \in Attempting => a \in Attempt
      /\ Quiet(bus, bus)
  BY TaskFields, QuietSame
<1>1. CASE GiveUp(e, n)
  BY <1>1, QuietFailure DEF GiveUp
<1>2. CASE StartAttempt(e, n)
  <2> DEFINE k == issued[e][n] + 1
             b == Publish(bus, TaskEvent("AttemptStarted", e, n, k, "none"))
             c == Publish(b, TaskEvent("AttemptFinished", e, n, k, "failed"))
  <2>1. k \in Attempt /\ (bus' = b \/ bus' = WorkerFailed(c, e, n))
    BY <1>2, BusAssumption DEF BusAssumption, StartAttempt, DispatcherTypeOK, Attempt
  <2> HIDE DEF k
  <2>2. /\ TaskEvent("AttemptStarted", e, n, k, "none") \in Event
        /\ TaskEvent("AttemptFinished", e, n, k, "failed") \in Event
    BY <2>1, AttemptEventType
  <2>3. Quiet(bus, b)
    BY <2>2, QuietTaskEvent DEF AttemptType
  <2>4. b \in BusValue(Event)
    BY <2>3 DEF Quiet, BusKept
  <2> HIDE DEF b
  <2>5. Quiet(b, c)
    BY <2>2, <2>4, QuietTaskEvent DEF AttemptType
  <2>6. c \in BusValue(Event)
    BY <2>5 DEF Quiet, BusKept
  <2> HIDE DEF c
  <2>7. Quiet(c, WorkerFailed(c, e, n))
    BY <2>6, QuietFailure
  <2>8. Quiet(bus, c)
    BY <2>3, <2>5, QuietTrans
  <2> QED
    BY <2>1, <2>3, <2>7, <2>8, QuietTrans
<1>3. CASE AcquireSlot(e, n) \/ Cleanup(e, n)
  BY <1>0, <1>3 DEF AcquireSlot, Cleanup
<1>4. CASE Abandon(e, n) \/ FailAttempt(e, n)
  <2>1. a \in Attempt
    BY <1>0, <1>4 DEF Abandon, FailAttempt, Attempting
  <2>2. \/ bus' = AttemptFinished(bus, e, n, "failed")
        \/ bus' = WorkerFailed(AttemptFinished(bus, e, n, "failed"), e, n)
    BY <1>4 DEF Abandon, FailAttempt
  <2> QED
    BY <2>1, <2>2, QuietBoth
<1>5. CASE RequestCommit(e, n)
  <2>1. a \in Attempt
    BY <1>0, <1>5 DEF RequestCommit, Attempting
  <2>2. TaskEvent("TaskResultCommitRequested", e, n, a, "none") \in Event
    BY <2>1, AttemptEventType
  <2>3. bus' = Publish(bus, TaskEvent("TaskResultCommitRequested", e, n, a, "none"))
    BY <1>5 DEF RequestCommit
  <2> QED
    BY <2>2, <2>3, QuietTaskEvent DEF AttemptType
<1>6. CASE ReturnResult(e, n)
  <2>1. a \in Attempt
    BY <1>0, <1>6 DEF ReturnResult, Attempting
  <2>2. PICK x \in {"none", "once", "return"} :
          bus' = IF x = "none" THEN bus
                 ELSE Publish(bus, TaskEvent("GraphMutationRequested", e, n, a, x))
    BY <1>6 DEF ReturnResult
  <2>3. x # "none" => TaskEvent("GraphMutationRequested", e, n, a, x) \in Event
    BY <2>1, AttemptEventType
  <2> QED
    BY <1>0, <2>2, <2>3, QuietTaskEvent DEF AttemptType
<1>7. CASE SucceedAttempt(e, n)
  <2> DEFINE b == AttemptFinished(bus, e, n, "succeeded")
  <2>1. a \in Attempt
    BY <1>0, <1>7 DEF SucceedAttempt, Attempting
  <2>2. bus' = Publish(b, TaskEvent("WorkerCompleted", e, n, a, "none"))
    BY <1>7 DEF SucceedAttempt
  <2>3. b \in BusValue(Event) /\ Quiet(bus, b)
    BY <2>1, QuietBoth
  <2> HIDE DEF b
  <2>4. TaskEvent("WorkerCompleted", e, n, a, "none") \in Event
    BY <2>1, AttemptEventType
  <2>5. Quiet(b, bus')
    BY <2>2, <2>3, <2>4, QuietTaskEvent DEF AttemptType
  <2> QED
    BY <2>3, <2>5, QuietTrans
<1> QED
  BY <1>1, <1>2, <1>3, <1>4, <1>5, <1>6, <1>7 DEF TaskStep

(***************************************************************************)
(* Where the goroutines are.  Only a node that TaskCreated names gets one; *)
(* only AcquireSlot lets one begin to execute.                             *)
(***************************************************************************)
Working == {"execute", "commit", "acked", "returned"}

(* The goroutines other than that of node n of e are left where they are. *)
OthersStay(e, n) ==
    \A f \in Execs : \A m \in Node :
        ~(f = e /\ m = n) => task'[f][m].pc = task[f][m].pc

LEMMA PutPlaces ==
    ASSUME DispatcherTypeOK, NEW e \in Execs, NEW n \in Node, NEW t,
           task' = [task EXCEPT ![e][n] = t]
    PROVE  OthersStay(e, n) /\ task'[e][n] = t
  BY DEF DispatcherTypeOK, OthersStay

LEMMA MovePlaces ==
    ASSUME DispatcherTypeOK, NEW e \in Execs, NEW n \in Node, NEW pc, Move(e, n, pc)
    PROVE  OthersStay(e, n) /\ task'[e][n].pc = pc
<1> DEFINE t == [task[e][n] EXCEPT !.pc = pc]
<1>1. t.pc = pc
  BY TaskFields
<1>2. task' = [task EXCEPT ![e][n] = t]
  BY DEF Move
<1> HIDE DEF t
<1> QED
  BY <1>1, <1>2, PutPlaces

LEMMA TaskPlaces ==
    ASSUME DispatcherTypeOK, NEW e \in Execs, NEW n \in Node, TaskStep(e, n)
    PROVE  /\ task[e][n].pc # "none"
           /\ OthersStay(e, n)
           /\ task'[e][n].pc \in Working => task[e][n].pc \in Working \/ AcquireSlot(e, n)
<1>1. CASE GiveUp(e, n)
  BY <1>1, MovePlaces DEF GiveUp, Working
<1>2. CASE StartAttempt(e, n)
  <2> DEFINE t == [task[e][n] EXCEPT !.tries = @ + 1, !.attempt = issued[e][n] + 1]
  <2>1. PICK pc \in {"slot", "exit"} : task' = [task EXCEPT ![e][n] = [t EXCEPT !.pc = pc]]
    BY <1>2 DEF StartAttempt
  <2> DEFINE u == [t EXCEPT !.pc = pc]
  <2>2. u.pc = pc /\ task' = [task EXCEPT ![e][n] = u]
    BY <2>1, TaskFields
  <2> HIDE DEF u
  <2>3. OthersStay(e, n) /\ task'[e][n] = u
    BY <2>2, PutPlaces
  <2>4. task'[e][n].pc \in {"slot", "exit"}
    BY <2>1, <2>2, <2>3
  <2>5. task[e][n].pc = "select"
    BY <1>2 DEF StartAttempt
  <2> QED
    BY <2>3, <2>4, <2>5 DEF Working
<1>3. CASE AcquireSlot(e, n)
  BY <1>3, MovePlaces DEF AcquireSlot
<1>4. CASE Abandon(e, n)
  BY <1>4, MovePlaces DEF Abandon, Attempting, Working
<1>5. CASE FailAttempt(e, n)
  <2>1. task[e][n].pc # "none" /\ (Move(e, n, "select") \/ Move(e, n, "exit"))
    BY <1>5 DEF FailAttempt
  <2> QED
    BY <2>1, MovePlaces DEF Working
<1>6. CASE RequestCommit(e, n)
  BY <1>6, MovePlaces DEF RequestCommit, Working
<1>7. CASE ReturnResult(e, n)
  BY <1>7, MovePlaces DEF ReturnResult, Working
<1>8. CASE SucceedAttempt(e, n)
  BY <1>8, MovePlaces DEF SucceedAttempt, Working
<1>9. CASE Cleanup(e, n)
  <2>1. OthersStay(e, n) /\ task'[e][n] = NoTask
    BY <1>9, PutPlaces DEF Cleanup
  <2> QED
    BY <1>9, <2>1 DEF Cleanup, NoTask, Working
<1> QED
  BY <1>1, <1>2, <1>3, <1>4, <1>5, <1>6, <1>7, <1>8, <1>9 DEF TaskStep

LEMMA DeadlinePlaces ==
    ASSUME DispatcherTypeOK, NEW e \in Execs, NEW n \in Node, Deadline(e, n)
    PROVE  OthersStay(e, n) /\ task'[e][n].pc = task[e][n].pc
<1> DEFINE t == [task[e][n] EXCEPT !.done = TRUE]
<1>1. t.pc = task[e][n].pc
  BY TaskFields
<1>2. task' = [task EXCEPT ![e][n] = t]
  BY DEF Deadline
<1> HIDE DEF t
<1>3. OthersStay(e, n) /\ task'[e][n] = t
  BY <1>2, PutPlaces
<1> QED
  BY <1>1, <1>3

LEMMA StopPlaces ==
    ASSUME DispatcherTypeOK,
           StopOnRuntimeFailure \/ \E e \in Execs : StopExecution(e)
    PROVE  \A f \in Execs : \A m \in Node : task'[f][m].pc = task[f][m].pc
<1>1. PICK T : task' = Cancel(T)
  BY DEF StopOnRuntimeFailure, StopExecution
<1>2. ASSUME NEW f \in Execs, NEW m \in Node
      PROVE  task'[f][m].pc = task[f][m].pc
  <2>1. [task[f][m] EXCEPT !.done = TRUE].pc = task[f][m].pc
    BY TaskFields
  <2> QED
    BY <1>1, <2>1 DEF Cancel
<1> QED
  BY <1>2

LEMMA DispatchTaskPlaces ==
    ASSUME DispatcherBusOK, Delivers("TaskCreated"),
           DispatchTask(HeadEvent.exec, HeadEvent.node)
    PROVE  \A f \in Execs : \A m \in Node :
              /\ task'[f][m].pc \in Working => task[f][m].pc \in Working
              /\ task'[f][m].pc # "none" =>
                    task[f][m].pc # "none" \/ (f = HeadEvent.exec /\ m = HeadEvent.node)
<1> DEFINE e == HeadEvent.exec
           n == HeadEvent.node
<1>1. e \in Execs /\ n \in Node
  BY HeadTask DEF DispatcherBusOK, TaskType
<1> HIDE DEF e, n
<1>2. CASE UNCHANGED dispatcherVars
  BY <1>2 DEF dispatcherVars
<1>3. CASE task' = [task EXCEPT ![e][n] = [NoTask EXCEPT !.pc = "select"]]
  BY <1>1, <1>3, PutPlaces DEF DispatcherBusOK, NoTask, Working, OthersStay, e, n
<1> QED
  BY <1>2, <1>3 DEF DispatchTask, e, n

LEMMA CommitPlaces ==
    ASSUME DispatcherBusOK, Delivers("TaskResultCommitRequested"), CommitResult
    PROVE  \A f \in Execs : \A m \in Node :
              /\ task'[f][m].pc \in Working => task[f][m].pc \in Working
              /\ task'[f][m].pc # "none" => task[f][m].pc # "none"
<1> DEFINE e == HeadEvent.exec
           n == HeadEvent.node
           pc == IF task[e][n].pc = "commit" /\ task[e][n].attempt = HeadEvent.attempt
                 THEN "acked" ELSE task[e][n].pc
<1>1. e \in Execs /\ n \in Node
  BY HeadTask DEF DispatcherBusOK, AttemptType
<1>2. Move(e, n, pc)
  BY DEF CommitResult, Move
<1>3. pc = task[e][n].pc \/ (task[e][n].pc = "commit" /\ pc = "acked")
  OBVIOUS
<1> HIDE DEF e, n, pc
<1>4. OthersStay(e, n) /\ task'[e][n].pc = pc
  BY <1>1, <1>2, MovePlaces DEF DispatcherBusOK
<1> QED
  BY <1>3, <1>4 DEF OthersStay, Working

-----------------------------------------------------------------------------
(***************************************************************************)
(* The invariant is inductive.  A step queues TaskCreated only where the   *)
(* dispatch loop hands a node out, and leaves that node running in the     *)
(* snapshot.                                                               *)
(***************************************************************************)
Recorded ==
    \A e \in Execs : \A n \in Node :
        Cardinality(Queued(bus'.queue, e, n)) > Cardinality(Queued(bus.queue, e, n))
            => disk'.node[e][n] = "running"

RecordedStep ==
    \/ NotMore(bus, bus')
    \/ Recorded /\ LoopStep /\ \E n \in Node : DispatchNode(n)

LEMMA StepRecorded ==
    ASSUME bus \in BusValue(Event), bus' \in BusValue(Event), RecordedStep
    PROVE  Recorded
<1>1. bus.queue \in Seq(Event) /\ bus'.queue \in Seq(Event)
  BY DEF BusValue
<1>2. \A e, n : /\ Cardinality(Queued(bus.queue, e, n)) \in Nat
                /\ Cardinality(Queued(bus'.queue, e, n)) \in Nat
  BY <1>1, QueuedCount
<1> QED
  BY <1>2 DEF NotMore, RecordedStep, Recorded

LEMMA QuietMoveSafe ==
    ASSUME Ready, TypeOK', QuietMove, UNCHANGED task
    PROVE  StateInv' /\ KnownTasks' /\ RecordedStep
<1>1. PICK s, x, m, b : Moves(s, x, m, b) /\ NotMore(bus, b)
  BY DEF QuietMove
<1>2. /\ StateInv'
      /\ \A e \in Execs : eng.count[e] <= eng'.count[e]
      /\ NotMore(bus, bus')
  BY <1>1, MovesSafe DEF Ready, EngineTypeOK, SafetyInv
<1>3. KnownTasks'
  <2>1. \A e \in Execs : eng.count[e] \in Nat /\ eng'.count[e] \in Nat
    BY BusAssumption DEF BusAssumption, Ready, EngineTypeOK, TypeOK, StateTypeOK, EngineState
  <2> QED
    BY <1>2, <2>1 DEF Ready, SafetyInv, KnownTasks, Node
<1> QED
  BY <1>2, <1>3 DEF RecordedStep

LEMMA QuietSafe ==
    ASSUME Ready, TypeOK', UNCHANGED <<eng, disk, loop>>, Quiet(bus, bus')
    PROVE  StateInv' /\ LoopInv' /\ RecordedStep
<1>1. StateInv'
  BY DEF Ready, SafetyInv, StateInv, Quiet, BusKept, Durable
<1>2. LoopInv'
  BY DEF Ready, SafetyInv, LoopInv
<1> QED
  BY <1>1, <1>2 DEF RecordedStep, Quiet

LEMMA SafetyInit == Init => SafetyInv
<1> SUFFICES ASSUME Init PROVE SafetyInv
  OBVIOUS
<1>1. /\ eng = EmptyEngine /\ disk = EmptyEngine
      /\ loop = Idle /\ bus = EmptyBus
      /\ task = [e \in Execs |-> [n \in Node |-> NoTask]]
  BY DEF Init, EngineInit, DispatcherInit
<1>2. \A e \in Execs : /\ EmptyEngine.status[e] = "absent" /\ EmptyEngine.count[e] = 0
                       /\ \A n \in Node : EmptyEngine.node[e][n] = "absent"
  BY DEF EmptyEngine
<1> HIDE DEF EmptyEngine
<1>3. Sound(EmptyEngine)
  BY <1>2 DEF Sound, DepsDone, AllDoneIn, AbsentBeyond, Live
<1>4. Durable /\ KnownTasks /\ LoopInv
  BY <1>1, <1>2 DEF Durable, KnownTasks, LoopInv, NoTask, Idle
<1>5. Clean(bus) /\ Known(eng, bus)
  BY <1>1 DEF Clean, Known, EmptyBus
<1> QED
  BY <1>1, <1>3, <1>4, <1>5 DEF SafetyInv, StateInv

LEMMA CrashSafe ==
    ASSUME Ready, TypeOK', Crash
    PROVE  SafetyInv' /\ RecordedStep
<1>1. /\ eng' = Recover(disk) /\ disk' = Recover(disk)
      /\ loop' = Idle /\ bus' = EmptyBus
      /\ task' = [e \in Execs |-> [n \in Node |-> NoTask]]
  BY DEF Crash
<1>2. Sound(Recover(disk))
  BY RecoverSound DEF Ready, EngineTypeOK, StateTypeOK, SafetyInv, StateInv
<1>3. Durable' /\ KnownTasks' /\ LoopInv'
  BY <1>1 DEF Durable, KnownTasks, LoopInv, NoTask, Idle
<1>4. Clean(bus') /\ Known(eng', bus')
  BY <1>1 DEF Clean, Known, EmptyBus
<1>5. NotMore(bus, bus')
  <2>1. \A e, n : Queued(bus'.queue, e, n) = {}
    BY <1>1 DEF Queued, EmptyBus
  <2>2. bus.queue \in Seq(Event)
    BY DEF Ready, EngineTypeOK, BusValue
  <2>3. \A e, n : Cardinality(Queued(bus.queue, e, n)) \in Nat
    BY <2>2, QueuedCount
  <2>4. Cardinality({}) = 0
    BY FS_EmptySet
  <2> QED
    BY <2>1, <2>3, <2>4 DEF NotMore
<1> QED
  BY <1>1, <1>2, <1>3, <1>4, <1>5 DEF SafetyInv, StateInv, RecordedStep

LEMMA SafetyNext ==
    ASSUME TypeOK, SafetyInv, [Next]_vars
    PROVE  SafetyInv' /\ RecordedStep
<1>0. TypeOK' /\ Ready /\ DispatcherBusOK
  BY NextType DEF Ready, EngineTypeOK, TypeOK, DispatcherBusOK
<1>1. CASE EngineHandles
  <2>1. EngineHandler /\ task' = task
    BY <1>1 DEF EngineHandles, dispatcherVars
  <2> QED
    BY <1>0, <2>1, HandlerMoves, QuietMoveSafe DEF SafetyInv
<1>2. CASE DispatcherFollows
  <2>1. UNCHANGED <<eng, disk, loop, bus>>
    BY <1>2 DEF DispatcherFollows
  <2>2. Quiet(bus, bus')
    BY <1>0, <2>1, QuietSame DEF TypeOK
  <2>3. StopOnRuntimeFailure \/ \E e \in Execs : StopExecution(e)
    <3>1. cur # NoEvent /\ cur \in Event
      BY <1>2 DEF DispatcherFollows, TypeOK, MutexTypeOK
    <3>2. cur.type = "ExecutionKilled" => cur.exec \in Execs
      BY <3>1 DEF Event, RuntimeType
    <3> QED
      BY <1>2, <3>2 DEF DispatcherFollows
  <2>4. KnownTasks'
    BY <2>1, <2>3, StopPlaces DEF TypeOK, SafetyInv, KnownTasks
  <2> QED
    BY <1>0, <2>1, <2>2, <2>4, QuietSafe DEF SafetyInv
<1>3. CASE DispatcherHandles
  <2>0. UNCHANGED <<eng, disk, loop>>
    BY <1>3 DEF DispatcherHandles, engineVars
  <2>1. CASE Delivers("TaskCreated") /\ DispatchTask(HeadEvent.exec, HeadEvent.node)
    <3>1. /\ bus.queue # <<>> /\ HeadEvent.type = "TaskCreated"
          /\ Remaining \in BusValue(Event) /\ Quiet(bus, Remaining)
      BY <2>1, RemainingType, QuietRemaining DEF Delivers, TypeOK
    <3>2. bus.queue \in Seq(Event)
      BY DEF TypeOK, BusValue
    <3>3. HeadEvent.node <= eng.count[HeadEvent.exec]
      BY <3>1, <3>2 DEF HeadEvent, SafetyInv, StateInv, Known, About, TaskType
    <3>4. HeadEvent.exec \in Execs /\ HeadEvent.node \in Node
      BY <2>1, HeadTask DEF TypeOK, TaskType
    <3>5. Quiet(Remaining, WorkerFailed(Remaining, HeadEvent.exec, HeadEvent.node))
      BY <3>1, <3>3, <3>4, QuietFailure
    <3>6. bus' \in {Remaining, WorkerFailed(Remaining, HeadEvent.exec, HeadEvent.node)}
      BY <2>1 DEF DispatchTask, WorkerFailed
    <3>7. Quiet(bus, bus')
      BY <3>1, <3>5, <3>6, QuietTrans DEF TypeOK
    <3>8. KnownTasks'
      BY <1>0, <2>0, <2>1, <3>3, DispatchTaskPlaces DEF SafetyInv, KnownTasks
    <3> QED
      BY <1>0, <2>0, <3>7, <3>8, QuietSafe DEF SafetyInv
  <2>2. CASE /\ Delivers("RuntimePersistenceFailed")
             /\ bus' = Remaining
             /\ StopOnRuntimeFailure
    <3>1. Quiet(bus, bus')
      BY <2>2, QuietRemaining DEF Delivers, TypeOK
    <3>2. KnownTasks'
      BY <2>0, <2>2, StopPlaces DEF TypeOK, SafetyInv, KnownTasks
    <3> QED
      BY <1>0, <2>0, <3>1, <3>2, QuietSafe DEF SafetyInv
  <2>3. CASE Delivers("TaskResultCommitRequested") /\ CommitResult
    <3> DEFINE e == HeadEvent.exec
               n == HeadEvent.node
               a == HeadEvent.attempt
    <3>1. /\ bus.queue # <<>> /\ HeadEvent.type = "TaskResultCommitRequested"
          /\ Remaining \in BusValue(Event) /\ Quiet(bus, Remaining)
      BY <2>3, RemainingType, QuietRemaining DEF Delivers, TypeOK
    <3>2. bus.queue \in Seq(Event)
      BY DEF TypeOK, BusValue
    <3>3. n <= eng.count[e]
      BY <3>1, <3>2 DEF HeadEvent, SafetyInv, StateInv, Known, About, AttemptType
    <3>4. e \in Execs /\ n \in Node /\ a \in Attempt
      BY <2>3, HeadTask, HeadAttempt DEF TypeOK, AttemptType
    <3>5. bus' = Publish(Remaining, TaskEvent("ArtifactStored", e, n, a, "none"))
      BY <2>3 DEF CommitResult
    <3> HIDE DEF e, n, a
    <3>6. TaskEvent("ArtifactStored", e, n, a, "none") \in Event
      BY <3>4, AttemptEventType
    <3>7. Quiet(Remaining, bus')
      BY <3>1, <3>3, <3>5, <3>6, QuietTaskEvent DEF AttemptType
    <3>8. Quiet(bus, bus')
      BY <3>1, <3>7, QuietTrans DEF TypeOK
    <3>9. KnownTasks'
      BY <1>0, <2>0, <2>3, CommitPlaces DEF SafetyInv, KnownTasks
    <3> QED
      BY <1>0, <2>0, <3>8, <3>9, QuietSafe DEF SafetyInv
  <2> QED
    BY <1>3, <2>1, <2>2, <2>3 DEF DispatcherHandles
<1>4. CASE Observed
  <2>1. Quiet(bus, bus') /\ UNCHANGED <<eng, disk, loop, task>>
    BY <1>4, QuietRemaining DEF Observed, Delivers, TypeOK, engineVars, dispatcherVars
  <2> QED
    BY <1>0, <2>1, QuietSafe DEF SafetyInv, KnownTasks
<1>5. CASE LoopStep
  <2>1. task' = task
    BY <1>5 DEF LoopStep, dispatcherVars
  <2>2. CASE EndLoop
    BY <1>0, <2>1, <2>2, EndLoopMoves, QuietMoveSafe DEF SafetyInv
  <2>3. ASSUME NEW n \in Node, DispatchNode(n)
        PROVE  SafetyInv' /\ RecordedStep
    <3>1. PICK s, x, m, b : Moves(s, x, m, b)
      BY <1>0, <2>3, DispatchMoves
    <3>2. StateInv' /\ \A e \in Execs : eng.count[e] <= eng'.count[e]
      BY <1>0, <3>1, MovesSafe DEF Ready, EngineTypeOK, SafetyInv
    <3>3. \A e \in Execs : eng.count[e] \in Nat /\ eng'.count[e] \in Nat
      BY <1>0, BusAssumption DEF BusAssumption, TypeOK, StateTypeOK, EngineState
    <3>4. KnownTasks'
      BY <2>1, <3>2, <3>3 DEF SafetyInv, KnownTasks, Node
    <3>5. LoopInv' /\ RecordedStep
      BY <1>0, <1>5, <2>3, DispatchMoves DEF RecordedStep, Recorded
    <3> QED
      BY <3>2, <3>4, <3>5 DEF SafetyInv
  <2> QED
    BY <1>5, <2>2, <2>3 DEF LoopStep, EngineLoop
<1>6. ASSUME NEW e \in Execs, Submit(e)
      PROVE  SafetyInv' /\ RecordedStep
  <2>1. SubmitWorkflow(e) /\ task' = task
    BY <1>6 DEF Submit, dispatcherVars
  <2>2. CASE QuietMove /\ LoopInv'
    BY <1>0, <2>1, <2>2, QuietMoveSafe DEF SafetyInv
  <2>3. CASE UNCHANGED <<eng, disk, bus, loop>>
    <3>1. Quiet(bus, bus')
      BY <2>3, QuietSame DEF TypeOK
    <3> QED
      BY <1>0, <2>1, <2>3, <3>1, QuietSafe DEF SafetyInv, KnownTasks
  <2> QED
    BY <1>0, <2>1, <2>2, <2>3, SubmitMoves
<1>7. ASSUME NEW e \in Execs, NEW n \in Node, TaskSteps(e, n)
      PROVE  SafetyInv' /\ RecordedStep
  <2>1. TaskStep(e, n) /\ UNCHANGED <<eng, disk, loop>>
    BY <1>7 DEF TaskSteps, engineVars
  <2>2. task[e][n].pc # "none" /\ OthersStay(e, n)
    BY <2>1, TaskPlaces DEF TypeOK
  <2>3. n <= eng.count[e]
    BY <2>2 DEF SafetyInv, KnownTasks
  <2>4. Quiet(bus, bus')
    BY <1>0, <2>1, <2>3, TaskQuiet
  <2>5. KnownTasks'
    BY <2>1, <2>2, <2>3 DEF SafetyInv, KnownTasks, OthersStay
  <2> QED
    BY <1>0, <2>1, <2>4, <2>5, QuietSafe DEF SafetyInv
<1>8. ASSUME NEW e \in Execs, NEW n \in Node, DeadlinePasses(e, n)
      PROVE  SafetyInv' /\ RecordedStep
  <2>1. Deadline(e, n) /\ UNCHANGED <<eng, disk, loop, bus>>
    BY <1>8 DEF DeadlinePasses, Deadline, engineVars
  <2>2. Quiet(bus, bus')
    BY <2>1, QuietSame DEF TypeOK
  <2>3. KnownTasks'
    BY <2>1, DeadlinePlaces DEF TypeOK, SafetyInv, KnownTasks, OthersStay
  <2> QED
    BY <1>0, <2>1, <2>2, <2>3, QuietSafe DEF SafetyInv
<1>9. ASSUME NEW t \in Controls, NEW e \in Execs, Control(t, e)
      PROVE  SafetyInv' /\ RecordedStep
  <2>1. t \in EventType \ (RuntimeType \cup TaskType \cup AttemptType)
    BY RuntimeAssumption DEF RuntimeAssumption, EventType, RuntimeType, TaskType, AttemptType
  <2>2. PICK x \in EventArg : bus' = Publish(bus, ExecEvent(t, e, x))
    BY <1>9 DEF Control, EventArg
  <2>3. ExecEvent(t, e, x) \in Event
    BY <2>1, ExecEventType
  <2>4. Quiet(bus, bus')
    BY <2>1, <2>2, <2>3, QuietPublish
       DEF TypeOK, ExecEvent, TaskEvent, About, RuntimeType, TaskType, AttemptType
  <2>5. UNCHANGED <<eng, disk, loop, task>>
    BY <1>9 DEF Control, engineVars, dispatcherVars
  <2> QED
    BY <1>0, <2>4, <2>5, QuietSafe DEF SafetyInv, KnownTasks
<1>10. CASE Crash
  BY <1>0, <1>10, CrashSafe
<1>11. CASE UNCHANGED vars
  <2>1. UNCHANGED <<eng, disk, loop, task, bus>>
    BY <1>11 DEF vars, engineVars, dispatcherVars
  <2>2. Quiet(bus, bus')
    BY <2>1, QuietSame DEF TypeOK
  <2> QED
    BY <1>0, <2>1, <2>2, QuietSafe DEF SafetyInv, KnownTasks
<1> QED
  BY <1>1, <1>2, <1>3, <1>4, <1>5, <1>6, <1>7, <1>8, <1>9, <1>10, <1>11 DEF Next, BusStep

-----------------------------------------------------------------------------
(***************************************************************************)
(* In every reachable state the graphs are sound, every queued event, every*)
(* goroutine and every pending dispatch is about a node the graph has, an  *)
(* overloaded bus holds the overload alone, and no outcome is only in      *)
(* memory, unless an overload announces it: whatever saves fail, and after *)
(* every crash.                                                            *)
(***************************************************************************)
THEOREM Safety == Spec => []SafetyInv
<1>1. Init => TypeOK /\ SafetyInv
  BY InitType, SafetyInit
<1>2. TypeOK /\ SafetyInv /\ [Next]_vars => TypeOK' /\ SafetyInv'
  BY NextType, SafetyNext
<1> QED
  BY <1>1, <1>2, PTL DEF Spec

(***************************************************************************)
(* A node of a live or interrupted execution runs only after every node it *)
(* depends on (checkAndDispatch, dispatchNode).                            *)
(***************************************************************************)
THEOREM DependenciesKept == Spec => []DependenciesDone
<1>1. SafetyInv => DependenciesDone
  BY DEF SafetyInv, StateInv, Sound, DependenciesDone
<1> QED
  BY <1>1, Safety, PTL

(***************************************************************************)
(* An execution is completed, in memory and in the snapshot, only with     *)
(* every node of its graph done (the end of handleWorkerCompleted).        *)
(***************************************************************************)
THEOREM CompletedIsAllDone == Spec => []CompletedMeansAllDone
<1>1. SafetyInv => CompletedMeansAllDone
  BY DEF SafetyInv, StateInv, Sound, AllDoneIn, CompletedMeansAllDone
<1> QED
  BY <1>1, Safety, PTL

(***************************************************************************)
(* An outcome that is announced and that the engine still holds is in the  *)
(* snapshot: WorkflowCompleted and WorkflowFailed are published after the  *)
(* save, and an overload, which may fail executions it cannot record,      *)
(* takes every announcement with it.                                       *)
(***************************************************************************)
THEOREM AnnouncedOutcomes == Spec => []AnnouncedIsDurable
<1>1. ASSUME TypeOK, SafetyInv
      PROVE  AnnouncedIsDurable
  <2>1. bus.queue \in Seq(Event)
    BY <1>1 DEF TypeOK, BusValue
  <2>2. ASSUME NEW i \in 1..Len(bus.queue),
               bus.queue[i].type \in {"WorkflowCompleted", "WorkflowFailed"}
        PROVE  bus.queue[i].exec \in Execs /\ ~bus.overloaded
    <3>1. bus.queue[i] \in Event
      BY <2>1
    <3> QED
      BY <1>1, <2>2, <3>1 DEF Event, RuntimeType, SafetyInv, StateInv, Clean
  <2> QED
    BY <1>1, <2>2 DEF AnnouncedIsDurable, SafetyInv, StateInv, Durable
<1> QED
  BY <1>1, Safety, TypeCorrect, PTL

(***************************************************************************)
(* A step that queues TaskCreated leaves the node running in the snapshot, *)
(* so that a restart finds the work it may have begun (dispatchNode).      *)
(***************************************************************************)
THEOREM DispatchRecorded == Spec => RecordedBeforeDispatch
<1>1. TypeOK /\ SafetyInv /\ [Next]_vars =>
         [\A e \in Execs : \A n \in Node :
            Cardinality(Queued(bus'.queue, e, n)) > Cardinality(Queued(bus.queue, e, n))
                => disk'.node[e][n] = "running"]_vars
  <2>1. TypeOK /\ [Next]_vars => bus \in BusValue(Event) /\ bus' \in BusValue(Event)
    BY NextType DEF TypeOK
  <2> QED
    BY <2>1, SafetyNext, StepRecorded DEF Recorded
<1> QED
  BY <1>1, Safety, TypeCorrect, PTL DEF Spec, RecordedBeforeDispatch

-----------------------------------------------------------------------------
(***************************************************************************)
(* The slots: the attempts that execute are finitely many and no more than *)
(* the semaphore allows, for any number of executions and nodes.           *)
(***************************************************************************)
SlotsInv == IsFiniteSet(Executing) /\ SlotsRespected

LEMMA SlotsShrink ==
    ASSUME SlotsInv,
           \A f \in Execs : \A m \in Node :
              task'[f][m].pc \in Working => task[f][m].pc \in Working
    PROVE  SlotsInv'
<1>1. Executing' \in SUBSET Executing
  BY DEF Executing, Working
<1>2. IsFiniteSet(Executing') /\ Cardinality(Executing') <= Cardinality(Executing)
  BY <1>1, FS_Subset DEF SlotsInv
<1>3. Cardinality(Executing) \in Nat /\ Cardinality(Executing') \in Nat
  BY <1>2, FS_CardinalityType DEF SlotsInv
<1> QED
  BY <1>2, <1>3, DispatcherAssumption DEF DispatcherAssumption, SlotsInv, SlotsRespected

LEMMA AddOne ==
    ASSUME NEW S, NEW x, IsFiniteSet(S)
    PROVE  /\ IsFiniteSet(S) /\ Cardinality(S) \in Nat
           /\ IsFiniteSet(S \cup {x})
           /\ Cardinality(S \cup {x}) <= Cardinality(S) + 1
<1>1. Cardinality(S) \in Nat
  BY FS_CardinalityType
<1> QED
  BY <1>1, FS_AddElement

LEMMA SlotsGrow ==
    ASSUME SlotsInv, DispatcherTypeOK, NEW e \in Execs, NEW n \in Node, AcquireSlot(e, n)
    PROVE  SlotsInv'
<1>1. OthersStay(e, n) /\ task'[e][n].pc = "execute"
  BY MovePlaces DEF AcquireSlot
<1>2. Executing' = Executing \cup {<<e, n>>}
  <2>1. \A x \in Execs \X Node :
           x \in Executing' <=> x \in Executing \/ (x[1] = e /\ x[2] = n)
    BY <1>1 DEF Executing, OthersStay
  <2>2. \A x \in Execs \X Node : (x[1] = e /\ x[2] = n) <=> x = <<e, n>>
    OBVIOUS
  <2>3. Executing \subseteq Execs \X Node /\ Executing' \subseteq Execs \X Node
    BY DEF Executing
  <2>4. <<e, n>> \in Execs \X Node
    OBVIOUS
  <2> QED
    BY <2>1, <2>2, <2>3, <2>4
<1>3. /\ IsFiniteSet(Executing) /\ Cardinality(Executing) \in Nat
      /\ IsFiniteSet(Executing \cup {<<e, n>>})
      /\ Cardinality(Executing \cup {<<e, n>>}) <= Cardinality(Executing) + 1
  BY AddOne DEF SlotsInv
<1>4. Cardinality(Executing') <= Cardinality(Executing) + 1 /\ Cardinality(Executing') \in Nat
  BY <1>2, <1>3, FS_CardinalityType
<1>5. Cardinality(Executing) < Slots
  BY DEF AcquireSlot
<1> QED
  BY <1>2, <1>3, <1>4, <1>5, DispatcherAssumption
     DEF DispatcherAssumption, SlotsInv, SlotsRespected

LEMMA SlotsInit == Init => SlotsInv
<1>1. Init => Executing = {}
  BY DEF Init, DispatcherInit, Executing, NoTask
<1> QED
  BY <1>1, FS_EmptySet, DispatcherAssumption
     DEF DispatcherAssumption, SlotsInv, SlotsRespected

LEMMA SlotsNext ==
    ASSUME TypeOK, SlotsInv, [Next]_vars
    PROVE  SlotsInv'
<1>0. DispatcherBusOK /\ DispatcherTypeOK
  BY DEF TypeOK, DispatcherBusOK
<1>1. ASSUME UNCHANGED task
      PROVE  SlotsInv'
  BY <1>1, SlotsShrink
<1>2. CASE EngineHandles \/ Observed \/ LoopStep
  BY <1>1, <1>2 DEF EngineHandles, Observed, LoopStep, dispatcherVars
<1>3. CASE DispatcherFollows
  <2>1. StopOnRuntimeFailure \/ \E e \in Execs : StopExecution(e)
    <3>1. cur # NoEvent /\ cur \in Event
      BY <1>3 DEF DispatcherFollows, TypeOK, MutexTypeOK
    <3>2. cur.type = "ExecutionKilled" => cur.exec \in Execs
      BY <3>1 DEF Event, RuntimeType
    <3> QED
      BY <1>3, <3>2 DEF DispatcherFollows
  <2> QED
    BY <1>0, <2>1, StopPlaces, SlotsShrink
<1>4. CASE DispatcherHandles
  <2>1. CASE Delivers("TaskCreated") /\ DispatchTask(HeadEvent.exec, HeadEvent.node)
    BY <1>0, <2>1, DispatchTaskPlaces, SlotsShrink
  <2>2. CASE StopOnRuntimeFailure
    BY <1>0, <2>2, StopPlaces, SlotsShrink
  <2>3. CASE Delivers("TaskResultCommitRequested") /\ CommitResult
    BY <1>0, <2>3, CommitPlaces, SlotsShrink
  <2> QED
    BY <1>4, <2>1, <2>2, <2>3 DEF DispatcherHandles
<1>5. ASSUME NEW e \in Execs, Submit(e)
      PROVE  SlotsInv'
  BY <1>1, <1>5 DEF Submit, dispatcherVars
<1>6. ASSUME NEW e \in Execs, NEW n \in Node, TaskSteps(e, n)
      PROVE  SlotsInv'
  <2>1. CASE AcquireSlot(e, n)
    BY <1>0, <2>1, SlotsGrow
  <2>2. CASE ~AcquireSlot(e, n)
    BY <1>0, <1>6, <2>2, TaskPlaces, SlotsShrink DEF TaskSteps, OthersStay
  <2> QED
    BY <2>1, <2>2
<1>7. ASSUME NEW e \in Execs, NEW n \in Node, DeadlinePasses(e, n)
      PROVE  SlotsInv'
  BY <1>0, <1>7, DeadlinePlaces, SlotsShrink DEF DeadlinePasses, OthersStay
<1>8. ASSUME NEW t \in Controls, NEW e \in Execs, Control(t, e)
      PROVE  SlotsInv'
  BY <1>1, <1>8 DEF Control, dispatcherVars
<1>9. CASE Crash
  <2>1. \A f \in Execs : \A m \in Node : task'[f][m].pc \notin Working
    BY <1>9 DEF Crash, NoTask, Working
  <2> QED
    BY <2>1, SlotsShrink
<1>10. CASE UNCHANGED vars
  BY <1>1, <1>10 DEF vars, dispatcherVars
<1> QED
  BY <1>2, <1>3, <1>4, <1>5, <1>6, <1>7, <1>8, <1>9, <1>10 DEF Next, BusStep

(***************************************************************************)
(* At most Slots attempts execute at once: a slot is taken before the      *)
(* worker is called and held until its goroutine gives the attempt up.     *)
(***************************************************************************)
THEOREM SlotsKept == Spec => []SlotsRespected
<1>1. Init => TypeOK /\ SlotsInv
  BY InitType, SlotsInit
<1>2. TypeOK /\ SlotsInv /\ [Next]_vars => TypeOK' /\ SlotsInv'
  BY NextType, SlotsNext
<1>3. SlotsInv => SlotsRespected
  BY DEF SlotsInv
<1> QED
  BY <1>1, <1>2, <1>3, PTL DEF Spec

-----------------------------------------------------------------------------
(***************************************************************************)
(* Kills.  Only a kill of e reaches the execution that compiles e while    *)
(* that one is still live, and then the compiling execution's own kill is  *)
(* queued behind.  An overload, which replaces what was queued, fails      *)
(* whatever is live; after it nothing becomes live until the restart.      *)
(* A restart loses the queued kill: a compiling execution that was paused  *)
(* then stays paused.                                                      *)
(***************************************************************************)
Holds(b, ev) == \E i \in 1..Len(b.queue) : b.queue[i] = ev
KillOf(e) == ExecEvent("ExecutionKilled", e, "none")
Alarm(b) == Holds(b, RuntimeOverloaded)
Warned(b, e) == Holds(b, KillOf(e)) \/ Alarm(b)
Unreconciled(b) == \A i \in 1..Len(b.queue) : b.queue[i].type # "ExecutionReconciled"
Compilers == {CompileOf[e] : e \in Execs}
NoneLive(s) == \A e \in Execs : s.status[e] \notin Live

DeadInv ==
    /\ Unreconciled(bus)
    /\ ~bus.closed
    /\ bus.overloaded => Alarm(bus) \/ NoneLive(eng)
    /\ \A e \in eng.cancelled :
          eng.status[e] \in Live => e \in Compilers /\ (Warned(bus, e) \/ crashes > 0)
    /\ \A e \in disk.cancelled : disk.status[e] \in Live => e \in Compilers

(* What a handler may do to the queue, but for the kills of X. *)
Carries(b, c, X) ==
    /\ Unreconciled(b) => Unreconciled(c)
    /\ ~b.closed => ~c.closed
    /\ Alarm(b) => Alarm(c)
    /\ c.overloaded => b.overloaded \/ Alarm(c)
    /\ \A e \in Execs \ X : Warned(b, e) => Warned(c, e)

LEMMA CarriesTrans ==
    ASSUME NEW b, NEW c, NEW d, NEW X, Carries(b, c, X), Carries(c, d, {})
    PROVE  Carries(b, d, X)
  BY DEF Carries

LEMMA PublishHolds ==
    ASSUME NEW b \in BusValue(Event), NEW ev \in Event
    PROVE  LET c == Publish(b, ev)
           IN  /\ \A old \in Event : Holds(b, old) => Holds(c, old) \/ Alarm(c)
               /\ Alarm(b) => Alarm(c)
               /\ ev.type # "ExecutionReconciled" /\ Unreconciled(b) => Unreconciled(c)
               /\ c.closed = b.closed
               /\ c.overloaded => b.overloaded \/ Alarm(c)
               /\ ~b.closed => b.overloaded \/ Holds(c, ev) \/ Alarm(c)
<1> DEFINE c == Publish(b, ev)
<1>1. b.queue \in Seq(Event)
  BY DEF BusValue
<1>2. CASE b.closed \/ b.overloaded
  BY <1>2 DEF Publish, Enqueue, Refused
<1>3. CASE ~b.closed /\ ~b.overloaded /\ Len(b.queue) >= Capacity
  <2>1. c.queue = <<RuntimeOverloaded>> /\ c.closed = b.closed
    BY <1>3 DEF Publish, Enqueue, Refused, BusValue
  <2> HIDE DEF c
  <2>2. Alarm(c)
    BY <2>1 DEF Alarm, Holds
  <2>3. Unreconciled(c)
    BY <2>1 DEF Unreconciled, RuntimeOverloaded, ExecEvent, TaskEvent
  <2> QED
    BY <2>1, <2>2, <2>3 DEF c
<1>4. CASE ~b.closed /\ ~b.overloaded /\ ~(Len(b.queue) >= Capacity)
  <2>1. c.queue = Append(b.queue, ev) /\ c.closed = b.closed /\ ~c.overloaded
    BY <1>4 DEF Publish, Enqueue, Refused, BusValue
  <2> HIDE DEF c
  <2>2. /\ Len(c.queue) = Len(b.queue) + 1
        /\ Len(b.queue) \in Nat
        /\ c.queue[Len(b.queue) + 1] = ev
        /\ \A i \in 1..Len(b.queue) : c.queue[i] = b.queue[i]
    BY <1>1, <2>1
  <2>3. \A old : Holds(b, old) => Holds(c, old)
    BY <2>2 DEF Holds
  <2>4. Holds(c, ev)
    BY <2>2 DEF Holds
  <2>5. ev.type # "ExecutionReconciled" /\ Unreconciled(b) => Unreconciled(c)
    BY <2>2 DEF Unreconciled
  <2> QED
    BY <2>1, <2>3, <2>4, <2>5 DEF c, Alarm
<1> QED
  BY <1>2, <1>3, <1>4

LEMMA CarriesPublish ==
    ASSUME NEW b \in BusValue(Event), NEW ev \in Event, ev.type # "ExecutionReconciled"
    PROVE  Carries(b, Publish(b, ev), {})
<1>1. \A e \in Execs : KillOf(e) \in Event
  BY ExecEventType DEF KillOf, EventType, EventArg, RuntimeType, TaskType, AttemptType
<1> HIDE DEF KillOf
<1> QED
  BY <1>1, PublishHolds DEF Carries, Warned

(* Taking off the head loses a kill only when the head is one. *)
LEMMA CarriesRemaining ==
    ASSUME bus \in BusValue(Event), bus.queue # <<>>, HeadEvent.type # "RuntimeOverloaded",
           NEW X, HeadEvent.type = "ExecutionKilled" => HeadEvent.exec \in X
    PROVE  Carries(bus, Remaining, X)
<1>1. bus.queue \in Seq(Event)
  BY DEF BusValue
<1>2. /\ Remaining.queue = Tail(bus.queue)
      /\ Remaining.closed = bus.closed
      /\ Remaining.overloaded = bus.overloaded
  BY DEF Remaining, BusValue
<1>3. /\ Len(bus.queue) \in Nat
      /\ Len(Tail(bus.queue)) = Len(bus.queue) - 1
      /\ \A i \in 1..Len(Tail(bus.queue)) : Tail(bus.queue)[i] = bus.queue[i + 1]
      /\ bus.queue[1] = HeadEvent
  BY <1>1 DEF HeadEvent
<1>4. ASSUME NEW ev, Holds(bus, ev), ev # HeadEvent
      PROVE  Holds(Remaining, ev)
  <2>1. PICK i \in 1..Len(bus.queue) : bus.queue[i] = ev
    BY <1>4 DEF Holds
  <2>2. i # 1 /\ i - 1 \in 1..Len(Tail(bus.queue)) /\ (i - 1) + 1 = i
    BY <1>3, <1>4, <2>1
  <2>3. Tail(bus.queue)[i - 1] = ev
    BY <1>3, <2>1, <2>2
  <2> QED
    BY <1>2, <2>2, <2>3 DEF Holds
<1>5. Unreconciled(bus) => Unreconciled(Remaining)
  <2>1. \A i \in 1..Len(Tail(bus.queue)) : i + 1 \in 1..Len(bus.queue)
    BY <1>3
  <2> QED
    BY <1>2, <1>3, <2>1 DEF Unreconciled
<1>6. Alarm(bus) => Alarm(Remaining)
  BY <1>4 DEF Alarm, RuntimeOverloaded, ExecEvent, TaskEvent
<1>7. \A e \in Execs \ X : Holds(bus, KillOf(e)) => Holds(Remaining, KillOf(e))
  <2>1. \A e \in Execs \ X : KillOf(e) # HeadEvent
    BY DEF KillOf, ExecEvent, TaskEvent
  <2> QED
    BY <1>4, <2>1
<1> QED
  BY <1>2, <1>5, <1>6, <1>7 DEF Carries, Warned

(***************************************************************************)
(* One step: the queue keeps its warnings, and the new state makes nothing *)
(* live, nothing that is live cancelled, but with a warning.               *)
(***************************************************************************)
Spared(s, b, X) ==
    \A e \in s.cancelled :
        s.status[e] \in Live =>
            \/ e \in eng.cancelled \ X /\ eng.status[e] \in Live
            \/ e \in Compilers /\ (Warned(b, e) \/ NoneLive(eng))

StillLive(s) == \A e \in Execs : s.status[e] \in Live => eng.status[e] \in Live

LEMMA DeadKept ==
    ASSUME eng \in EngineState, eng' \in EngineState, DeadInv, NEW X,
           Carries(bus, bus', X), Spared(eng', bus', X), StillLive(eng'),
           disk' \in {disk, eng'}, crashes' = crashes
    PROVE  DeadInv'
<1>1. eng.cancelled \subseteq Execs /\ eng'.cancelled \subseteq Execs
  BY DEF EngineState
<1>2. Unreconciled(bus') /\ ~bus'.closed
  BY DEF DeadInv, Carries
<1>3. bus'.overloaded => Alarm(bus') \/ NoneLive(eng')
  BY DEF DeadInv, Carries, StillLive, NoneLive
<1>4. ASSUME NEW e \in eng'.cancelled, eng'.status[e] \in Live
      PROVE  e \in Compilers /\ (Warned(bus', e) \/ crashes' > 0)
  <2>1. e \in Execs /\ ~NoneLive(eng)
    BY <1>1, <1>4 DEF StillLive, NoneLive
  <2> QED
    BY <1>1, <1>4, <2>1 DEF Spared, DeadInv, Carries
<1>5. \A e \in disk'.cancelled : disk'.status[e] \in Live => e \in Compilers
  BY <1>4 DEF DeadInv
<1> QED
  BY <1>2, <1>3, <1>4, <1>5 DEF DeadInv

(* When nothing is live any more, nothing needs a warning. *)
LEMMA DeadAll ==
    ASSUME NoneLive(eng'), eng'.cancelled \subseteq Execs, Unreconciled(bus'), ~bus'.closed,
           DeadInv, disk' \in {disk, eng'}
    PROVE  DeadInv'
<1>1. \A e \in eng'.cancelled : eng'.status[e] \notin Live
  BY DEF NoneLive
<1> QED
  BY <1>1 DEF DeadInv

LEMMA ReportDead ==
    ASSUME NEW s, NEW x, NEW m
    PROVE  NoneLive(Report(s, x, m))
<1>1. \A e \in Execs : Report(s, x, m).status[e] =
                         IF Affected(s, x, e) THEN "interrupted" ELSE s.status[e]
  BY DEF Report
<1> QED
  BY <1>1 DEF NoneLive, Affected, Live

LEMMA SaveFailedDead ==
    ASSUME eng' \in EngineState, DeadInv, NEW s, NEW x, NEW m, NEW b \in BusValue(Event),
           SaveFailed(s, x, m, b), Unreconciled(b), ~b.closed
    PROVE  DeadInv'
<1>1. RuntimePersistenceFailed \in Event
      /\ RuntimePersistenceFailed.type # "ExecutionReconciled"
  BY RuntimeEventType DEF RuntimePersistenceFailed, ExecEvent, TaskEvent
<1>2. bus' = Publish(b, RuntimePersistenceFailed) /\ eng' = Report(s, x, m) /\ disk' = disk
  BY DEF SaveFailed
<1>3. Unreconciled(bus') /\ ~bus'.closed
  BY <1>1, <1>2, PublishHolds
<1>4. NoneLive(eng')
  BY <1>2, ReportDead
<1> QED
  BY <1>2, <1>3, <1>4, DeadAll DEF EngineState

LEMMA SavedDead ==
    ASSUME eng \in EngineState, eng' \in EngineState, bus \in BusValue(Event), DeadInv,
           crashes' = crashes, NEW s, NEW b \in BusValue(Event), NEW x, NEW m, NEW X,
           Saved(s, b) \/ SaveFailed(s, x, m, b),
           Carries(bus, b, X), Spared(s, b, X), StillLive(s)
    PROVE  DeadInv'
<1>1. CASE Saved(s, b)
  BY <1>1, DeadKept DEF Saved
<1>2. CASE SaveFailed(s, x, m, b)
  BY <1>2, SaveFailedDead DEF Carries, DeadInv
<1> QED
  BY <1>1, <1>2

LEMMA DroppedDead ==
    ASSUME eng \in EngineState, bus \in BusValue(Event), bus.queue # <<>>,
           HeadEvent.type \notin {"RuntimeOverloaded", "ExecutionKilled"}, DeadInv,
           crashes' = crashes, bus' = Remaining, UNCHANGED <<eng, disk>>
    PROVE  DeadInv'
<1>1. Carries(bus, bus', {})
  BY CarriesRemaining
<1>2. Spared(eng', bus', {}) /\ StillLive(eng')
  BY DEF Spared, StillLive
<1> QED
  BY <1>1, <1>2, DeadKept

-----------------------------------------------------------------------------
(* The handlers. *)

DeadReady ==
    TypeOK /\ eng' \in EngineState /\ DeadInv /\ crashes' = crashes

LEMMA OverloadedDead ==
    ASSUME DeadReady, HandleOverloaded
    PROVE  DeadInv'
<1> DEFINE hit == {e \in Execs : eng.status[e] \in Live}
           status == [e \in Execs |-> IF e \in hit THEN "failed" ELSE eng.status[e]]
<1>1. PICK s : /\ s.status = status
               /\ Saved(s, Remaining) \/ SaveFailed(s, NoExec, 0, Remaining)
  BY DEF HandleOverloaded, DeadReady, TypeOK, StateTypeOK, EngineState
<1>2. Remaining \in BusValue(Event) /\ Unreconciled(Remaining) /\ ~Remaining.closed
  <2>1. bus \in BusValue(Event) /\ bus.queue # <<>> /\ Unreconciled(bus) /\ ~bus.closed
    BY DEF HandleOverloaded, Handling, Delivers, DeadReady, TypeOK, DeadInv
  <2>2. bus.queue \in Seq(Event) /\ Remaining.queue = Tail(bus.queue)
        /\ Remaining.closed = bus.closed
    BY <2>1 DEF BusValue, Remaining
  <2>3. \A i \in 1..Len(Tail(bus.queue)) : i + 1 \in 1..Len(bus.queue)
                                        /\ Tail(bus.queue)[i] = bus.queue[i + 1]
    BY <2>1, <2>2
  <2> QED
    BY <2>1, <2>2, <2>3, RemainingType DEF Unreconciled
<1>3. NoneLive(s)
  BY <1>1 DEF NoneLive, Live
<1>4. CASE Saved(s, Remaining)
  BY <1>2, <1>3, <1>4, DeadAll DEF Saved, DeadReady, EngineState
<1>5. CASE SaveFailed(s, NoExec, 0, Remaining)
  BY <1>2, <1>5, SaveFailedDead DEF DeadReady
<1> QED
  BY <1>1, <1>4, <1>5

(***************************************************************************)
(* The handlers that leave statuses and cancellations as they are.         *)
(***************************************************************************)
SameStanding(s) == s.status = eng.status /\ s.cancelled = eng.cancelled

LEMMA SameStandingDead ==
    ASSUME DeadReady, bus.queue # <<>>,
           HeadEvent.type \notin {"RuntimeOverloaded", "ExecutionKilled"},
           NEW s, NEW x, NEW m, SameStanding(s),
           Saved(s, Remaining) \/ SaveFailed(s, x, m, Remaining)
    PROVE  DeadInv'
<1>1. Carries(bus, Remaining, {}) /\ Remaining \in BusValue(Event)
  BY CarriesRemaining, RemainingType DEF DeadReady, TypeOK
<1>2. Spared(s, Remaining, {}) /\ StillLive(s)
  BY DEF SameStanding, Spared, StillLive
<1> QED
  BY <1>1, <1>2, SavedDead DEF DeadReady, TypeOK, StateTypeOK

LEMMA StandingHandlersDead ==
    ASSUME DeadReady,
           \/ HandleAttemptStarted \/ HandleAttemptFinished \/ HandleGraphMutation
           \/ HandleArtifact \/ HandleWorkerCompleted
    PROVE  DeadInv'
<1> DEFINE e == HeadEvent.exec
           n == HeadEvent.node
<1>1. /\ bus.queue # <<>>
      /\ HeadEvent.type \notin {"RuntimeOverloaded", "ExecutionKilled"}
  BY DEF Handling, Delivers, HandleAttemptStarted, HandleAttemptFinished,
         HandleGraphMutation, HandleArtifact, HandleWorkerCompleted
<1>2. eng \in EngineState
  BY DEF DeadReady, TypeOK, StateTypeOK
<1>3. \/ Dropped
      \/ \E s, x, m : /\ SameStanding(s)
                      /\ Saved(s, Remaining) \/ SaveFailed(s, x, m, Remaining)
  <2>1. CASE HandleAttemptStarted
    <3> DEFINE s == [eng EXCEPT !.attempt[e][n][HeadEvent.attempt] = "running",
                                !.active[e][n] = HeadEvent.attempt]
    <3>1. Dropped \/ Saved(s, Remaining) \/ SaveFailed(s, NoExec, 0, Remaining)
      BY <2>1 DEF HandleAttemptStarted
    <3>2. SameStanding(s)
      BY <1>2 DEF SameStanding, EngineState
    <3> HIDE DEF s
    <3> QED
      BY <3>1, <3>2
  <2>2. CASE HandleAttemptFinished
    <3> DEFINE s == [eng EXCEPT !.attempt[e][n][HeadEvent.attempt] =
                        IF @ = "running" THEN HeadEvent.arg ELSE @]
    <3>1. Dropped \/ Saved(s, Remaining) \/ SaveFailed(s, NoExec, 0, Remaining)
      BY <2>2 DEF HandleAttemptFinished
    <3>2. SameStanding(s)
      BY <1>2 DEF SameStanding, EngineState
    <3> HIDE DEF s
    <3> QED
      BY <3>1, <3>2
  <2>3. CASE HandleGraphMutation
    <3> DEFINE s(k) == Grown(eng, e, n, k)
    <3>1. \/ Dropped \/ SaveFailed(eng, e, n, Remaining)
          \/ \E k : Saved(s(k), Remaining)
      BY <2>3 DEF HandleGraphMutation
    <3>2. \A k : SameStanding(s(k))
      BY <1>2 DEF SameStanding, EngineState, Grown
    <3>3. SameStanding(eng)
      BY DEF SameStanding
    <3> HIDE DEF s
    <3> QED
      BY <3>1, <3>2, <3>3
  <2>4. CASE HandleArtifact
    <3> DEFINE s == [eng EXCEPT !.artifact[e] = @ \cup {n}]
    <3>1. Dropped \/ Saved(s, Remaining) \/ SaveFailed(s, e, n, Remaining)
      BY <2>4 DEF HandleArtifact
    <3>2. SameStanding(s)
      BY <1>2 DEF SameStanding, EngineState
    <3> HIDE DEF s
    <3> QED
      BY <3>1, <3>2
  <2>5. CASE HandleWorkerCompleted
    <3> DEFINE d == [eng EXCEPT !.node[e][n] = "done"]
               s == [d EXCEPT !.active[e][n] = 0]
    <3>1. Dropped \/ Saved(s, Remaining) \/ SaveFailed(d, e, n, Remaining)
      BY <2>5 DEF HandleWorkerCompleted
    <3>2. SameStanding(d) /\ SameStanding(s)
      BY <1>2 DEF SameStanding, EngineState
    <3> HIDE DEF d, s
    <3> QED
      BY <3>1, <3>2
  <2> QED
    BY <2>1, <2>2, <2>3, <2>4, <2>5
<1>4. CASE Dropped
  BY <1>1, <1>2, <1>4, DroppedDead DEF Dropped, Unsaved, DeadReady, TypeOK
<1> QED
  BY <1>1, <1>3, <1>4, SameStandingDead

LEMMA WorkerFailedDead ==
    ASSUME DeadReady, HandleWorkerFailed
    PROVE  DeadInv'
<1> DEFINE e == HeadEvent.exec
           n == HeadEvent.node
           status == [eng.status EXCEPT ![e] = "failed"]
           b == Publish(Remaining, ExecEvent("ExecutionKilled", e, "none"))
           c == Publish(b, ExecEvent("WorkflowFailed", e, "none"))
<1>1. /\ Handling("WorkerFailed") /\ bus.queue # <<>>
      /\ HeadEvent.type = "WorkerFailed"
      /\ eng \in EngineState /\ bus \in BusValue(Event)
  BY DEF HandleWorkerFailed, Handling, Delivers, DeadReady, TypeOK, StateTypeOK
<1>2. e \in Execs
  BY <1>1, HeadTask DEF Handling, TaskType
<1>3. \/ Dropped
      \/ \E s : /\ s.status = status /\ s.cancelled = eng.cancelled
                /\ Saved(s, c) \/ SaveFailed(s, e, n, b)
  BY <1>1 DEF HandleWorkerFailed, EngineState
<1>4. CASE Dropped
  BY <1>1, <1>4, DroppedDead DEF Dropped, Unsaved, DeadReady
<1>5. ASSUME NEW s, s.status = status, s.cancelled = eng.cancelled,
             Saved(s, c) \/ SaveFailed(s, e, n, b)
      PROVE  DeadInv'
  <2>1. /\ ExecEvent("ExecutionKilled", e, "none") \in Event
        /\ ExecEvent("WorkflowFailed", e, "none") \in Event
    BY <1>2, ExecEventType DEF EventType, EventArg, RuntimeType, TaskType, AttemptType
  <2>2. Remaining \in BusValue(Event) /\ Carries(bus, Remaining, {})
    BY <1>1, RemainingType, CarriesRemaining
  <2>3. b \in BusValue(Event) /\ Carries(Remaining, b, {})
    BY <2>1, <2>2, PublishType, CarriesPublish DEF ExecEvent, TaskEvent
  <2>4. c \in BusValue(Event) /\ Carries(b, c, {})
    <3> HIDE DEF b
    <3> QED
      BY <2>1, <2>3, PublishType, CarriesPublish DEF ExecEvent, TaskEvent
  <2> HIDE DEF b, c
  <2>5. Carries(bus, b, {}) /\ Carries(bus, c, {})
    BY <2>2, <2>3, <2>4, CarriesTrans
  <2>6. \A f \in Execs : s.status[f] \in Live => eng.status[f] \in Live
    BY <1>1, <1>2, <1>5 DEF EngineState, Live
  <2>7. Spared(s, b, {}) /\ Spared(s, c, {}) /\ StillLive(s)
    BY <1>1, <1>5, <2>6 DEF Spared, StillLive, EngineState
  <2>8. CASE Saved(s, c)
    BY <1>1, <2>4, <2>5, <2>7, <2>8, SavedDead DEF DeadReady
  <2>9. CASE SaveFailed(s, e, n, b)
    BY <1>1, <2>3, <2>5, <2>7, <2>9, SavedDead DEF DeadReady
  <2> QED
    BY <1>5, <2>8, <2>9
<1> QED
  BY <1>3, <1>4, <1>5

LEMMA PropagatedCarries ==
    ASSUME bus \in BusValue(Event), bus.queue # <<>>, NEW e \in Execs,
           NEW t \in {"ExecutionKilled", "ExecutionPaused", "ExecutionResumed"},
           HeadEvent.type = t, NEW X, t = "ExecutionKilled" => HeadEvent.exec \in X
    PROVE  Propagated(t, e) \in BusValue(Event) /\ Carries(bus, Propagated(t, e), X)
<1>1. Remaining \in BusValue(Event) /\ Carries(bus, Remaining, X)
  BY RemainingType, CarriesRemaining
<1>2. CASE CompileOf[e] = NoExec
  BY <1>1, <1>2 DEF Propagated
<1>3. CASE CompileOf[e] # NoExec
  <2> DEFINE ev == ExecEvent(t, CompileOf[e], "none")
  <2>1. CompileOf[e] \in Execs
    BY <1>3, BusAssumption DEF BusAssumption
  <2>2. ev \in Event /\ ev.type # "ExecutionReconciled"
    BY <2>1, ExecEventType
       DEF EventType, EventArg, RuntimeType, TaskType, AttemptType, ExecEvent, TaskEvent
  <2>3. Propagated(t, e) = Publish(Remaining, ev)
    BY <1>3 DEF Propagated
  <2> HIDE DEF ev
  <2>4. Carries(Remaining, Publish(Remaining, ev), {})
        /\ Publish(Remaining, ev) \in BusValue(Event)
    BY <1>1, <2>2, CarriesPublish, PublishType
  <2> QED
    BY <1>1, <2>3, <2>4, CarriesTrans
<1> QED
  BY <1>2, <1>3

(***************************************************************************)
(* A kill: the execution is over, and what compiles it has a kill queued.  *)
(***************************************************************************)
LEMMA KilledDead ==
    ASSUME DeadReady, HandleKilled
    PROVE  DeadInv'
<1> DEFINE e == HeadEvent.exec
           c == CompileOf[e]
           cancelled == eng.cancelled \cup ({e, c} \ {NoExec})
           status == [eng.status EXCEPT ![e] = IF @ \in Live THEN "cancelled" ELSE @]
           b == Propagated("ExecutionKilled", e)
<1>1. /\ Handling("ExecutionKilled") /\ bus.queue # <<>>
      /\ HeadEvent.type = "ExecutionKilled"
      /\ eng \in EngineState /\ bus \in BusValue(Event)
  BY DEF HandleKilled, Handling, Delivers, DeadReady, TypeOK, StateTypeOK
<1>2. e \in Execs
  BY <1>1, HeadExec DEF Handling, EventType, RuntimeType
<1>3. PICK s : /\ s.status = status /\ s.cancelled = cancelled
               /\ Saved(s, b) \/ SaveFailed(s, e, 0, b)
  BY <1>1 DEF HandleKilled, EngineState
<1>4. b \in BusValue(Event) /\ Carries(bus, b, {e})
  BY <1>1, <1>2, PropagatedCarries
<1>5. status[e] \notin Live /\ \A f \in Execs : f # e => status[f] = eng.status[f]
  BY <1>1, <1>2 DEF EngineState, Live
<1>6. c # NoExec => c \in Compilers /\ (Warned(b, c) \/ NoneLive(eng))
  <2> SUFFICES ASSUME c # NoExec
               PROVE  c \in Compilers /\ (Warned(b, c) \/ NoneLive(eng))
    OBVIOUS
  <2>1. c \in Execs
    BY <1>2, BusAssumption DEF BusAssumption
  <2>2. KillOf(c) \in Event
    BY <2>1, ExecEventType DEF KillOf, EventType, EventArg, RuntimeType, TaskType, AttemptType
  <2>3. b = Publish(Remaining, KillOf(c))
    BY DEF Propagated, KillOf
  <2>4. /\ Remaining \in BusValue(Event)
        /\ ~Remaining.closed /\ Remaining.overloaded = bus.overloaded
    BY <1>1, RemainingType DEF Remaining, BusValue, DeadReady, DeadInv
  <2>5. Remaining.overloaded \/ Holds(b, KillOf(c)) \/ Alarm(b)
    BY <2>2, <2>3, <2>4, PublishHolds
  <2>6. bus.overloaded => Alarm(b) \/ NoneLive(eng)
    BY <1>4 DEF DeadReady, DeadInv, Carries
  <2>7. c \in Compilers
    BY <1>2 DEF Compilers
  <2> QED
    BY <2>4, <2>5, <2>6, <2>7 DEF Warned
<1> HIDE DEF c, b, status
<1>7. Spared(s, b, {e})
  <2> SUFFICES ASSUME NEW f \in s.cancelled, s.status[f] \in Live
               PROVE  \/ f \in eng.cancelled \ {e} /\ eng.status[f] \in Live
                      \/ f \in Compilers /\ (Warned(b, f) \/ NoneLive(eng))
    BY DEF Spared
  <2>1. f \in eng.cancelled \/ f = e \/ (f = c /\ c # NoExec)
    BY <1>3
  <2>2. eng.cancelled \subseteq Execs
    BY <1>1 DEF EngineState
  <2> QED
    BY <1>2, <1>3, <1>5, <1>6, <2>1, <2>2
<1>8. StillLive(s)
  BY <1>3, <1>5 DEF StillLive
<1> QED
  BY <1>1, <1>3, <1>4, <1>7, <1>8, SavedDead DEF DeadReady

LEMMA PausedDead ==
    ASSUME DeadReady, HandlePaused
    PROVE  DeadInv'
<1> DEFINE e == HeadEvent.exec
           status == [eng.status EXCEPT ![e] = IF @ = "running" THEN "paused" ELSE @]
           b == Propagated("ExecutionPaused", e)
<1>1. /\ Handling("ExecutionPaused") /\ bus.queue # <<>>
      /\ HeadEvent.type = "ExecutionPaused"
      /\ eng \in EngineState /\ bus \in BusValue(Event)
  BY DEF HandlePaused, Handling, Delivers, DeadReady, TypeOK, StateTypeOK
<1>2. e \in Execs
  BY <1>1, HeadExec DEF Handling, EventType, RuntimeType
<1>3. PICK s : /\ s.status = status /\ s.cancelled = eng.cancelled
               /\ Saved(s, b) \/ SaveFailed(s, e, 0, b)
  BY <1>1 DEF HandlePaused, EngineState
<1>4. b \in BusValue(Event) /\ Carries(bus, b, {})
  BY <1>1, <1>2, PropagatedCarries
<1>5. \A f \in Execs : status[f] \in Live => eng.status[f] \in Live
  BY <1>1, <1>2 DEF EngineState, Live
<1> HIDE DEF b, status
<1>6. Spared(s, b, {}) /\ StillLive(s)
  BY <1>1, <1>3, <1>5 DEF Spared, StillLive, EngineState
<1> QED
  BY <1>1, <1>3, <1>4, <1>6, SavedDead DEF DeadReady

LEMMA ResumedDead ==
    ASSUME DeadReady, HandleResumed
    PROVE  DeadInv'
<1> DEFINE e == HeadEvent.exec
           status == [eng.status EXCEPT ![e] = "running"]
           b == Propagated("ExecutionResumed", e)
<1>1. /\ Handling("ExecutionResumed") /\ bus.queue # <<>>
      /\ HeadEvent.type = "ExecutionResumed"
      /\ eng \in EngineState /\ bus \in BusValue(Event)
  BY DEF HandleResumed, Handling, Delivers, DeadReady, TypeOK, StateTypeOK
<1>2. e \in Execs
  BY <1>1, HeadExec DEF Handling, EventType, RuntimeType
<1>3. b \in BusValue(Event) /\ Carries(bus, b, {})
  BY <1>1, <1>2, PropagatedCarries
<1>4. \/ \E s : /\ SameStanding(s)
                /\ \/ eng' = s /\ bus' = b /\ disk' = disk
                   \/ SaveFailed(s, e, 0, b)
      \/ \E s : /\ eng.status[e] = "paused"
                /\ s.status = status /\ s.cancelled = eng.cancelled
                /\ Saved(s, b)
  BY <1>1 DEF HandleResumed, SameStanding, EngineState, Unsaved
<1> HIDE DEF b
<1>5. ASSUME NEW s, SameStanding(s),
             \/ eng' = s /\ bus' = b /\ disk' = disk
             \/ SaveFailed(s, e, 0, b)
      PROVE  DeadInv'
  <2>1. Spared(s, b, {}) /\ StillLive(s)
    BY <1>5 DEF SameStanding, Spared, StillLive
  <2>2. CASE SaveFailed(s, e, 0, b)
    BY <1>1, <1>3, <2>1, <2>2, SavedDead DEF DeadReady
  <2>3. CASE eng' = s /\ bus' = b /\ disk' = disk
    BY <1>1, <1>3, <2>1, <2>3, DeadKept DEF DeadReady
  <2> QED
    BY <1>5, <2>2, <2>3
<1>6. ASSUME NEW s, eng.status[e] = "paused", s.status = status,
             s.cancelled = eng.cancelled, Saved(s, b)
      PROVE  DeadInv'
  <2>1. \A f \in Execs : status[f] \in Live => eng.status[f] \in Live
    BY <1>1, <1>2, <1>6 DEF EngineState, Live
  <2> HIDE DEF status
  <2>2. Spared(s, b, {}) /\ StillLive(s)
    BY <1>1, <1>6, <2>1 DEF Spared, StillLive, EngineState
  <2> QED
    BY <1>1, <1>3, <1>6, <2>2, SavedDead DEF DeadReady
<1> QED
  BY <1>4, <1>5, <1>6

LEMMA HandlerDead ==
    ASSUME DeadReady, EngineHandler
    PROVE  DeadInv'
<1>1. ~HandleReconciled
  <2>1. bus.queue \in Seq(Event) /\ Unreconciled(bus)
    BY DEF DeadReady, TypeOK, BusValue, DeadInv
  <2>2. bus.queue # <<>> => HeadEvent.type # "ExecutionReconciled"
    BY <2>1 DEF HeadEvent, Unreconciled
  <2> QED
    BY <2>2 DEF HandleReconciled, Handling, Delivers
<1> QED
  BY <1>1, OverloadedDead, StandingHandlersDead, WorkerFailedDead, KilledDead, PausedDead,
     ResumedDead DEF EngineHandler

(* A step that leaves the engine alone and the queue with its warnings. *)
LEMMA QueueDead ==
    ASSUME eng \in EngineState, DeadInv, Carries(bus, bus', {}),
           UNCHANGED <<eng, disk, crashes>>
    PROVE  DeadInv'
<1>1. Spared(eng', bus', {}) /\ StillLive(eng')
  BY DEF Spared, StillLive
<1> QED
  BY <1>1, DeadKept

LEMMA DeadInit ==
    ASSUME Init
    PROVE  DeadInv
  BY DEF Init, EmptyBus, EngineInit, EmptyEngine, DeadInv, Unreconciled

LEMMA CrashDead ==
    ASSUME TypeOK, DeadInv, Crash
    PROVE  DeadInv'
<1>1. /\ eng' = Recover(disk) /\ disk' = Recover(disk)
      /\ bus' = EmptyBus /\ crashes' > 0
  BY DEF Crash, TypeOK
<1>2. disk \in EngineState
  BY DEF TypeOK, StateTypeOK
<1>3. /\ Recover(disk).cancelled = disk.cancelled
      /\ \A e \in Execs : Recover(disk).status[e] \in Live => disk.status[e] \in Live
  BY <1>2 DEF Recover, EngineState, Live
<1> HIDE DEF Recover
<1>4. \A e \in disk.cancelled : e \in Execs
  BY <1>2 DEF EngineState
<1> QED
  BY <1>1, <1>3, <1>4 DEF DeadInv, EmptyBus, Unreconciled

(***************************************************************************)
(* The steps of the dispatcher and of the operators only publish.          *)
(***************************************************************************)
LEMMA TaskStepDead ==
    ASSUME TypeOK, NEW e \in Execs, NEW n \in Node, TaskStep(e, n)
    PROVE  Carries(bus, bus', {})
<1> DEFINE a == task[e][n].attempt
           failed(b) == Publish(b, TaskEvent("WorkerFailed", e, n, 0, "none"))
           finished(b, x) == Publish(b, TaskEvent("AttemptFinished", e, n, a, x))
<1>1. bus \in BusValue(Event) /\ Carries(bus, bus, {})
  BY DEF TypeOK, Carries
<1>2. ASSUME NEW b \in BusValue(Event), Carries(bus, b, {})
      PROVE  failed(b) \in BusValue(Event) /\ Carries(bus, failed(b), {})
  <2>1. TaskEvent("WorkerFailed", e, n, 0, "none") \in Event
    BY TaskEventType DEF TaskType, EventArg
  <2>2. Carries(b, failed(b), {})
    BY <2>1, CarriesPublish DEF TaskEvent
  <2> QED
    BY <1>2, <2>1, <2>2, PublishType, CarriesTrans
<1>3. ASSUME NEW b \in BusValue(Event), Carries(bus, b, {}), NEW t \in AttemptType,
             NEW i \in Attempt, NEW x \in {"none", "succeeded", "failed", "once", "return"},
             t = "AttemptFinished" => x \in {"succeeded", "failed"}
      PROVE  LET c == Publish(b, TaskEvent(t, e, n, i, x))
             IN  c \in BusValue(Event) /\ Carries(bus, c, {})
  <2> DEFINE ev == TaskEvent(t, e, n, i, x)
  <2>1. ev \in Event
    BY <1>3, BusAssumption
       DEF BusAssumption, TaskEvent, Event, EventRecord, EventType, EventArg, RuntimeType,
           TaskType, AttemptType, Node, Attempt
  <2>2. ev.type # "ExecutionReconciled"
    BY <1>3 DEF TaskEvent, AttemptType
  <2> HIDE DEF ev
  <2>3. Carries(b, Publish(b, ev), {})
    BY <2>1, <2>2, CarriesPublish
  <2>4. Publish(b, ev) \in BusValue(Event) /\ Carries(bus, Publish(b, ev), {})
    BY <1>3, <2>1, <2>3, PublishType, CarriesTrans
  <2> QED
    BY <2>4 DEF ev
<1>4. task[e][n].pc \in Attempting => a \in Attempt
  BY DEF TypeOK, DispatcherTypeOK, Task
<1>5. ASSUME task[e][n].pc \in Attempting, NEW x \in {"succeeded", "failed"}
      PROVE  finished(bus, x) \in BusValue(Event) /\ Carries(bus, finished(bus, x), {})
  BY <1>1, <1>3, <1>4, <1>5 DEF AttemptType
<1>6. CASE GiveUp(e, n)
  <2>1. bus' = failed(bus)
    BY <1>6 DEF GiveUp, WorkerFailed
  <2> QED
    BY <1>1, <1>2, <2>1
<1>7. CASE StartAttempt(e, n)
  <2> DEFINE i == issued[e][n] + 1
             b == Publish(bus, TaskEvent("AttemptStarted", e, n, i, "none"))
             c == Publish(b, TaskEvent("AttemptFinished", e, n, i, "failed"))
  <2>1. i \in Attempt
    BY <1>7, BusAssumption DEF StartAttempt, TypeOK, DispatcherTypeOK, BusAssumption, Attempt
  <2>2. bus' = b \/ bus' = failed(c)
    BY <1>7 DEF StartAttempt, WorkerFailed
  <2> HIDE DEF i
  <2>3. b \in BusValue(Event) /\ Carries(bus, b, {})
    BY <1>1, <1>3, <2>1 DEF AttemptType
  <2> HIDE DEF b
  <2>4. c \in BusValue(Event) /\ Carries(bus, c, {})
    BY <1>3, <2>1, <2>3 DEF AttemptType
  <2> HIDE DEF c
  <2>5. Carries(bus, failed(c), {})
    BY <1>2, <2>4
  <2> QED
    BY <2>2, <2>3, <2>5
<1>8. CASE AcquireSlot(e, n) \/ Cleanup(e, n)
  <2>1. bus' = bus
    BY <1>8 DEF AcquireSlot, Cleanup
  <2> QED
    BY <1>1, <2>1
<1>9. CASE Abandon(e, n) \/ FailAttempt(e, n)
  <2> DEFINE b == finished(bus, "failed")
  <2>1. /\ task[e][n].pc \in Attempting
        /\ bus' = b \/ bus' = failed(b)
    BY <1>9 DEF Abandon, FailAttempt, WorkerFailed, AttemptFinished, Attempting
  <2>2. b \in BusValue(Event) /\ Carries(bus, b, {})
    BY <1>5, <2>1
  <2> HIDE DEF b
  <2>3. Carries(bus, failed(b), {})
    BY <1>2, <2>2
  <2> QED
    BY <2>1, <2>2, <2>3
<1>10. CASE RequestCommit(e, n)
  <2>1. /\ task[e][n].pc \in Attempting
        /\ bus' = Publish(bus, TaskEvent("TaskResultCommitRequested", e, n, a, "none"))
    BY <1>10 DEF RequestCommit, Attempting
  <2> HIDE DEF a
  <2> QED
    BY <1>1, <1>3, <1>4, <2>1 DEF AttemptType
<1>11. CASE ReturnResult(e, n)
  <2>1. task[e][n].pc \in Attempting
    BY <1>11 DEF ReturnResult, Attempting
  <2>2. \/ bus' = bus
        \/ \E x \in {"once", "return"} :
              bus' = Publish(bus, TaskEvent("GraphMutationRequested", e, n, a, x))
    BY <1>11 DEF ReturnResult
  <2> HIDE DEF a
  <2> QED
    BY <1>1, <1>3, <1>4, <2>1, <2>2 DEF AttemptType
<1>12. CASE SucceedAttempt(e, n)
  <2> DEFINE b == finished(bus, "succeeded")
  <2>1. /\ task[e][n].pc \in Attempting
        /\ bus' = Publish(b, TaskEvent("WorkerCompleted", e, n, a, "none"))
    BY <1>12 DEF SucceedAttempt, AttemptFinished, Attempting
  <2>2. b \in BusValue(Event) /\ Carries(bus, b, {})
    BY <1>5, <2>1
  <2> HIDE DEF a, b
  <2> QED
    BY <1>3, <1>4, <2>1, <2>2 DEF AttemptType
<1> QED
  BY <1>6, <1>7, <1>8, <1>9, <1>10, <1>11, <1>12 DEF TaskStep

LEMMA DispatcherDead ==
    ASSUME TypeOK, DeadInv, DispatcherHandles
    PROVE  Carries(bus, bus', {})
<1> DEFINE e == HeadEvent.exec
           n == HeadEvent.node
           a == HeadEvent.attempt
<1>1. bus \in BusValue(Event)
  BY DEF TypeOK
<1>2. ASSUME bus.queue # <<>>, HeadEvent.type \notin {"RuntimeOverloaded", "ExecutionKilled"}
      PROVE  Remaining \in BusValue(Event) /\ Carries(bus, Remaining, {})
  BY <1>1, <1>2, RemainingType, CarriesRemaining
<1>3. CASE Delivers("TaskCreated") /\ DispatchTask(e, n)
  <2>1. Remaining \in BusValue(Event) /\ Carries(bus, Remaining, {})
    BY <1>2, <1>3 DEF Delivers
  <2>2. e \in Execs /\ n \in Node
    BY <1>1, <1>3, HeadTask DEF TaskType
  <2>3. bus' \in {Remaining, Publish(Remaining, TaskEvent("WorkerFailed", e, n, 0, "none"))}
    BY <1>3 DEF DispatchTask
  <2> HIDE DEF e, n
  <2>4. /\ TaskEvent("WorkerFailed", e, n, 0, "none") \in Event
        /\ TaskEvent("WorkerFailed", e, n, 0, "none").type # "ExecutionReconciled"
    BY <2>2, TaskEventType DEF TaskEvent
  <2>5. Carries(Remaining, Publish(Remaining, TaskEvent("WorkerFailed", e, n, 0, "none")), {})
    BY <2>1, <2>4, CarriesPublish
  <2> QED
    BY <2>1, <2>3, <2>5, CarriesTrans
<1>4. CASE Delivers("RuntimePersistenceFailed") /\ bus' = Remaining
  BY <1>2, <1>4 DEF Delivers
<1>5. CASE Delivers("TaskResultCommitRequested") /\ CommitResult
  <2>1. Remaining \in BusValue(Event) /\ Carries(bus, Remaining, {})
    BY <1>2, <1>5 DEF Delivers
  <2>2. e \in Execs /\ n \in Node /\ a \in Attempt
    BY <1>1, <1>5, HeadTask, HeadAttempt DEF AttemptType
  <2>3. bus' = Publish(Remaining, TaskEvent("ArtifactStored", e, n, a, "none"))
    BY <1>5 DEF CommitResult
  <2> HIDE DEF e, n, a
  <2>4. /\ TaskEvent("ArtifactStored", e, n, a, "none") \in Event
        /\ TaskEvent("ArtifactStored", e, n, a, "none").type # "ExecutionReconciled"
    BY <2>2, AttemptEventType DEF TaskEvent
  <2>5. Carries(Remaining, bus', {})
    BY <2>1, <2>3, <2>4, CarriesPublish
  <2> QED
    BY <2>1, <2>5, CarriesTrans
<1> QED
  BY <1>3, <1>4, <1>5 DEF DispatcherHandles

(* The loop makes nothing live; it may find an execution completed. *)
LEMMA LoopDead ==
    ASSUME DeadReady, EngineLoop, loop.owner # "none"
    PROVE  DeadInv'
<1> DEFINE e == loop.exec
<1>1. e \in Execs /\ eng \in EngineState /\ bus \in BusValue(Event) /\ Carries(bus, bus, {})
  BY LoopExec DEF DeadReady, TypeOK, StateTypeOK, MutexTypeOK, Carries
<1>2. ASSUME NEW n \in Node, DispatchNode(n)
      PROVE  DeadInv'
  <2> DEFINE s == [eng EXCEPT !.node[e][n] = "running"]
             ev == TaskEvent("TaskCreated", e, n, 0, "none")
  <2>1. Saved(s, Publish(bus, ev)) \/ SaveFailed(s, e, n, bus)
    BY <1>2 DEF DispatchNode
  <2>2. SameStanding(s)
    BY <1>1 DEF SameStanding, EngineState
  <2>3. ev \in Event /\ ev.type # "ExecutionReconciled"
    BY <1>1, TaskEventType DEF TaskEvent
  <2> HIDE DEF s, ev
  <2>4. Publish(bus, ev) \in BusValue(Event) /\ Carries(bus, Publish(bus, ev), {})
    BY <1>1, <2>3, PublishType, CarriesPublish
  <2>5. \A b : Spared(s, b, {}) /\ StillLive(s)
    BY <2>2 DEF SameStanding, Spared, StillLive
  <2>6. CASE Saved(s, Publish(bus, ev))
    BY <1>1, <2>4, <2>5, <2>6, SavedDead DEF DeadReady
  <2>7. CASE SaveFailed(s, e, n, bus)
    BY <1>1, <2>5, <2>7, SavedDead DEF DeadReady
  <2> QED
    BY <2>1, <2>6, <2>7
<1>3. CASE EndLoop
  <2> DEFINE status == [eng.status EXCEPT ![e] = "completed"]
             s == [eng EXCEPT !.status = status]
             ev == ExecEvent("WorkflowCompleted", e, "none")
  <2>1. \/ UNCHANGED <<eng, disk, bus>>
        \/ Saved(s, Publish(bus, ev))
        \/ SaveFailed(s, e, loop.node, bus)
    BY <1>3 DEF EndLoop, Unsaved
  <2>2. \A f \in Execs : status[f] \in Live => eng.status[f] \in Live
    BY <1>1 DEF EngineState, Live
  <2>3. s.status = status /\ s.cancelled = eng.cancelled
    BY <1>1 DEF EngineState
  <2>4. ev \in Event /\ ev.type # "ExecutionReconciled"
    BY <1>1, ExecEventType
       DEF EventType, EventArg, RuntimeType, TaskType, AttemptType, ExecEvent, TaskEvent
  <2> HIDE DEF s, status, ev
  <2>5. Publish(bus, ev) \in BusValue(Event) /\ Carries(bus, Publish(bus, ev), {})
    BY <1>1, <2>4, PublishType, CarriesPublish
  <2>6. \A b : Spared(s, b, {}) /\ StillLive(s)
    BY <1>1, <2>2, <2>3 DEF Spared, StillLive, EngineState
  <2>7. CASE UNCHANGED <<eng, disk, bus>>
    <3>1. Spared(eng', bus', {}) /\ StillLive(eng')
      BY <2>7 DEF Spared, StillLive
    <3> QED
      BY <1>1, <2>7, <3>1, DeadKept DEF DeadReady
  <2>8. CASE Saved(s, Publish(bus, ev))
    BY <1>1, <2>5, <2>6, <2>8, SavedDead DEF DeadReady
  <2>9. CASE SaveFailed(s, e, loop.node, bus)
    BY <1>1, <2>6, <2>9, SavedDead DEF DeadReady
  <2> QED
    BY <2>1, <2>7, <2>8, <2>9
<1> QED
  BY <1>2, <1>3 DEF EngineLoop

(***************************************************************************)
(* A submission makes live what nobody has cancelled, while the bus takes  *)
(* events.                                                                 *)
(***************************************************************************)
LEMMA SubmitDead ==
    ASSUME DeadReady, NEW e \in Execs, SubmitWorkflow(e)
    PROVE  DeadInv'
<1> DEFINE s == NewExecution(eng, e)
<1>1. eng \in EngineState /\ bus' = bus /\ ~bus.overloaded /\ e \notin eng.cancelled
  BY DEF SubmitWorkflow, Saved, Accepting, MaySubmit, DeadReady, TypeOK, StateTypeOK
<1>2. s.cancelled = eng.cancelled /\ \A f \in Execs : f # e => s.status[f] = eng.status[f]
  BY <1>1, NewExecutionFacts DEF NewExecution, EngineState
<1>3. (eng' = s /\ disk' = s) \/ UNCHANGED <<eng, disk>>
  BY DEF SubmitWorkflow, Saved
<1> HIDE DEF s
<1>4. ASSUME eng' = s, disk' = s
      PROVE  DeadInv'
  <2>1. \A f \in eng.cancelled : s.status[f] = eng.status[f]
    BY <1>1, <1>2 DEF EngineState
  <2> QED
    BY <1>1, <1>2, <1>4, <2>1 DEF DeadReady, DeadInv
<1>5. ASSUME UNCHANGED <<eng, disk>>
      PROVE  DeadInv'
  BY <1>1, <1>5 DEF DeadReady, DeadInv
<1> QED
  BY <1>3, <1>4, <1>5

LEMMA DeadNext ==
    ASSUME "ExecutionReconciled" \notin Controls, TypeOK, TypeOK', DeadInv, [Next]_vars
    PROVE  DeadInv'
<1>0. eng \in EngineState /\ bus \in BusValue(Event) /\ Carries(bus, bus, {})
      /\ eng' \in EngineState
  BY DEF TypeOK, StateTypeOK, Carries
<1>1. CASE EngineHandles
  BY <1>0, <1>1, HandlerDead DEF EngineHandles, DeadReady
<1>2. CASE DispatcherFollows \/ UNCHANGED vars
  BY <1>0, <1>2, QueueDead DEF DispatcherFollows, vars, engineVars
<1>3. CASE DispatcherHandles
  BY <1>0, <1>3, DispatcherDead, QueueDead DEF DispatcherHandles, engineVars
<1>4. CASE Observed
  <2>1. Carries(bus, bus', {}) /\ UNCHANGED <<eng, disk, crashes>>
    BY <1>0, <1>4, CarriesRemaining DEF Observed, Delivers, engineVars
  <2> QED
    BY <1>0, <2>1, QueueDead
<1>5. CASE LoopStep
  <2>1. loop.owner # "none" /\ EngineLoop /\ crashes' = crashes
    BY <1>5 DEF LoopStep, EngineLoop, EndLoop, DispatchNode
  <2> QED
    BY <1>0, <2>1, LoopDead DEF DeadReady
<1>6. ASSUME NEW e \in Execs, Submit(e)
      PROVE  DeadInv'
  BY <1>0, <1>6, SubmitDead DEF Submit, DeadReady
<1>7. ASSUME NEW e \in Execs, NEW n \in Node, TaskSteps(e, n) \/ DeadlinePasses(e, n)
      PROVE  DeadInv'
  <2>1. Carries(bus, bus', {})
    BY <1>0, <1>7, TaskStepDead DEF TaskSteps, DeadlinePasses, Deadline
  <2>2. UNCHANGED <<eng, disk, crashes>>
    BY <1>7 DEF TaskSteps, DeadlinePasses, engineVars
  <2> QED
    BY <1>0, <2>1, <2>2, QueueDead
<1>8. ASSUME NEW t \in Controls, NEW e \in Execs, Control(t, e)
      PROVE  DeadInv'
  <2>1. t \in EventType \ (RuntimeType \cup TaskType \cup AttemptType)
    BY RuntimeAssumption DEF RuntimeAssumption, EventType, RuntimeType, TaskType, AttemptType
  <2>2. PICK x \in EventArg : bus' = Publish(bus, ExecEvent(t, e, x))
    BY <1>8 DEF Control, EventArg
  <2>3. ExecEvent(t, e, x) \in Event /\ ExecEvent(t, e, x).type # "ExecutionReconciled"
    BY <2>1, ExecEventType DEF ExecEvent, TaskEvent
  <2>4. Carries(bus, bus', {})
    BY <1>0, <2>2, <2>3, CarriesPublish
  <2>5. UNCHANGED <<eng, disk, crashes>>
    BY <1>8 DEF Control, engineVars
  <2> QED
    BY <1>0, <2>4, <2>5, QueueDead
<1>9. CASE Crash
  BY <1>9, CrashDead
<1> QED
  BY <1>1, <1>2, <1>3, <1>4, <1>5, <1>6, <1>7, <1>8, <1>9 DEF Next, BusStep

(***************************************************************************)
(* While nobody reconciles, and until a crash, an execution that was killed*)
(* (or that an overload or a failed save has cancelled) is live only as    *)
(* long as its kill, or the overload that replaced it, is queued: the kill *)
(* reaches the compiling execution, a later submission is refused, and no  *)
(* resumption brings it back (the ExecutionKilled handler, SubmitWorkflow).*)
(***************************************************************************)
THEOREM KillStands ==
    ASSUME "ExecutionReconciled" \notin Controls
    PROVE  Spec => [](crashes = 0 => KilledStaysDead)
<1>1. Init => TypeOK /\ DeadInv
  BY InitType, DeadInit
<1>2. TypeOK /\ DeadInv /\ [Next]_vars => TypeOK' /\ DeadInv'
  BY NextType, DeadNext
<1>3. DeadInv => (crashes = 0 => KilledStaysDead)
  BY DEF DeadInv, Warned, Alarm, Holds, KillOf, KilledStaysDead
<1> QED
  BY <1>1, <1>2, <1>3, PTL DEF Spec

(***************************************************************************)
(* Only an execution that compiles another one's workflow can be cancelled *)
(* and live at all, even after a crash: every other one is over, or        *)
(* interrupted, in the step that cancels it, and stays so while nobody     *)
(* reconciles it (the ExecutionKilled and RuntimeOverloaded handlers,      *)
(* reportPersistenceFailure).                                              *)
(***************************************************************************)
THEOREM OnlyCompilersLinger ==
    ASSUME "ExecutionReconciled" \notin Controls
    PROVE  Spec => [](\A e \in eng.cancelled : e \notin Compilers => eng.status[e] \notin Live)
<1>1. Init => TypeOK /\ DeadInv
  BY InitType, DeadInit
<1>2. TypeOK /\ DeadInv /\ [Next]_vars => TypeOK' /\ DeadInv'
  BY NextType, DeadNext
<1>3. DeadInv => \A e \in eng.cancelled : e \notin Compilers => eng.status[e] \notin Live
  BY DEF DeadInv
<1> QED
  BY <1>1, <1>2, <1>3, PTL DEF Spec
-----------------------------------------------------------------------------
(***************************************************************************)
(* One attempt at a time: a node is handed out once, and no attempt but    *)
(* the active one is recorded as running; and no node is done without its  *)
(* artifact.                                                               *)
(***************************************************************************)
(***************************************************************************)
(* A node that was handed out has begun and never waits again in the same  *)
(* process, and the roots that a submission still has to hand out wait.    *)
(* After a failed save nothing is claimed until the restart: a queued      *)
(* reconciliation may then hand a node out a second time.                  *)
(***************************************************************************)
Begun == {"running", "done", "failed"}

HandedOut(e, n) ==
    Cardinality(Queued(bus.queue, e, n)) + (IF task[e][n].pc = "none" THEN 0 ELSE 1)

Once ==
    \A e \in Execs : \A n \in Node :
        /\ HandedOut(e, n) <= 1
        /\ HandedOut(e, n) > 0 => eng.node[e][n] \in Begun

RootsWait ==
    loop.owner = "submit" => \A n \in loop.todo : eng.node[loop.exec][n] = "pending"

OnceInv == restartRequired \/ (Once /\ RootsWait)

(* What a step may do: hand out no more, and let no node wait that has begun. *)
Fewer == \A e \in Execs : \A n \in Node : HandedOut(e, n)' <= HandedOut(e, n)

NoNewTask ==
    \A e \in Execs : \A n \in Node : task'[e][n].pc # "none" => task[e][n].pc # "none"

StaysBegun(s) ==
    \A e \in Execs : \A n \in Node :
        n <= eng.count[e] /\ eng.node[e][n] \in Begun => s.node[e][n] \in Begun

(* A node that was handed out is a node of the graph. *)
LEMMA HandedOutKnown ==
    ASSUME TypeOK, SafetyInv, NEW e \in Execs, NEW n \in Node
    PROVE  /\ Cardinality(Queued(bus.queue, e, n)) \in Nat
           /\ HandedOut(e, n) \in Nat
           /\ HandedOut(e, n) > 0 => n <= eng.count[e]
           /\ HandedOut(e, n) = 0 =>
                 Queued(bus.queue, e, n) = {} /\ task[e][n].pc = "none"
<1>1. bus.queue \in Seq(Event)
  BY DEF TypeOK, BusValue
<1>2. /\ IsFiniteSet(Queued(bus.queue, e, n))
      /\ Cardinality(Queued(bus.queue, e, n)) \in Nat
  BY <1>1, QueuedCount
<1>3. Cardinality(Queued(bus.queue, e, n)) = 0 <=> Queued(bus.queue, e, n) = {}
  BY <1>2, FS_EmptySet
<1>4. Queued(bus.queue, e, n) # {} => n <= eng.count[e]
  BY <1>1 DEF Queued, SafetyInv, StateInv, Known, About, TaskType
<1>5. task[e][n].pc # "none" => n <= eng.count[e]
  BY DEF SafetyInv, KnownTasks
<1> QED
  BY <1>2, <1>3, <1>4, <1>5 DEF HandedOut

LEMMA FewerSame ==
    ASSUME TypeOK, TypeOK', NotMore(bus, bus'), NoNewTask
    PROVE  Fewer
<1>1. bus.queue \in Seq(Event) /\ bus'.queue \in Seq(Event)
  BY DEF TypeOK, BusValue
<1>2. \A e, n : /\ Cardinality(Queued(bus.queue, e, n)) \in Nat
                /\ Cardinality(Queued(bus'.queue, e, n)) \in Nat
  BY <1>1, QueuedCount
<1> QED
  BY <1>2 DEF NotMore, NoNewTask, Fewer, HandedOut

(* The event that the dispatcher takes counts no more. *)
LEMMA QueuedHead ==
    ASSUME NEW q \in Seq(Event), q # <<>>,
           NEW e, NEW n, q[1].type = "TaskCreated", q[1].exec = e, q[1].node = n
    PROVE  Cardinality(Queued(Tail(q), e, n)) + 1 <= Cardinality(Queued(q, e, n))
<1> DEFINE S == Queued(Tail(q), e, n)
           T == Queued(q, e, n)
           U == T \ {1}
           f == [i \in S |-> i + 1]
<1>1. /\ Tail(q) \in Seq(Event)
      /\ Len(Tail(q)) = Len(q) - 1
      /\ \A i \in 1..Len(Tail(q)) : Tail(q)[i] = q[i + 1]
  OBVIOUS
<1>2. \A i \in S : i \in 1..Len(Tail(q)) /\ i + 1 \in U
  BY <1>1 DEF Queued
<1>3. f \in [S -> U]
  BY <1>2
<1>4. \A i, j \in S : f[i] = f[j] => i = j
  BY <1>2
<1>5. IsFiniteSet(T) /\ Cardinality(T) \in Nat
  BY QueuedCount
<1>6. 1 \in T
  BY <1>1 DEF Queued
<1> HIDE DEF S, T, f
<1>7. IsFiniteSet(U) /\ Cardinality(U) = Cardinality(T) - 1
  BY <1>5, <1>6, FS_RemoveElement
<1> HIDE DEF U
<1>8. f \in Injection(S, U)
  BY <1>3, <1>4 DEF Injection, IsInjective
<1>9. Cardinality(S) <= Cardinality(U)
  BY <1>7, <1>8, FS_Injection
<1>10. Cardinality(S) \in Nat
  BY <1>1, QueuedCount DEF S
<1> QED
  BY <1>5, <1>7, <1>9, <1>10 DEF S, T

LEMMA FirstCount ==
    ASSUME NEW b \in BusValue(Event), NEW ev \in Event, NEW e, NEW n,
           Queued(b.queue, e, n) = {}
    PROVE  Cardinality(Queued(Publish(b, ev).queue, e, n)) <= 1
<1> DEFINE q == b.queue
           r == Publish(b, ev).queue
           T == Queued(r, e, n)
<1>1. q \in Seq(Event)
  BY DEF BusValue
<1>2. r = q \/ r = <<RuntimeOverloaded>> \/ r = Append(q, ev)
  BY DEF Publish, Enqueue, BusValue
<1>3. T \subseteq {Len(q) + 1}
  <2>1. CASE r = q
    BY <2>1
  <2>2. CASE r = <<RuntimeOverloaded>>
    BY <2>2 DEF Queued, RuntimeOverloaded, ExecEvent, TaskEvent
  <2>3. CASE r = Append(q, ev)
    BY <1>1, <2>3 DEF Queued
  <2> QED
    BY <1>2, <2>1, <2>2, <2>3
<1> HIDE DEF T
<1>4. T = {} \/ T = {Len(q) + 1}
  BY <1>3
<1>5. Cardinality({}) = 0 /\ Cardinality({Len(q) + 1}) = 1
  BY FS_EmptySet, FS_Singleton
<1>6. Cardinality(T) \in {0, 1}
  BY <1>4, <1>5
<1>7. Cardinality(T) <= 1
  BY <1>6
<1> QED
  BY <1>7 DEF T

-----------------------------------------------------------------------------
(***************************************************************************)
(* What has begun does not wait again: no handler sends a node back to     *)
(* "pending" but the reconciliation, which takes up the nodes that a       *)
(* restart interrupted, and a delegation adds nodes beyond the graph.      *)
(***************************************************************************)
LEMMA SameNodes ==
    ASSUME NEW s, s.node = eng.node
    PROVE  StaysBegun(s)
  BY DEF StaysBegun

LEMMA OneBegun ==
    ASSUME TypeOK, NEW e \in Execs, NEW ns, NEW s, s.node = [eng.node EXCEPT ![e] = ns],
           \A n \in Node : n <= eng.count[e] /\ eng.node[e][n] \in Begun => ns[n] \in Begun
    PROVE  StaysBegun(s)
<1>1. eng.node \in [Execs -> [Node -> NodeState]]
  BY DEF TypeOK, StateTypeOK, EngineState
<1>2. s.node[e] = ns /\ \A f \in Execs : f # e => s.node[f] = eng.node[f]
  BY <1>1
<1> QED
  BY <1>2 DEF StaysBegun

(* A handler that saves nothing, or fails to, has nothing to show. *)
LEMMA SavedBegun ==
    ASSUME TypeOK, ~restartRequired', NEW s, StaysBegun(s), NEW x, NEW m, NEW b, NEW c, NEW t,
           Saved(s, b) \/ SaveFailed(t, x, m, c) \/ Dropped
    PROVE  StaysBegun(eng')
<1>1. CASE Saved(s, b)
  BY <1>1 DEF Saved
<1>2. CASE SaveFailed(t, x, m, c)
  BY <1>2 DEF SaveFailed
<1>3. CASE Dropped
  BY <1>3, SameNodes DEF Dropped
<1> QED
  BY <1>1, <1>2, <1>3

LEMMA HandlerBegun ==
    ASSUME TypeOK, EngineHandler, ~restartRequired'
    PROVE  StaysBegun(eng')
<1> DEFINE e == HeadEvent.exec
           n == HeadEvent.node
           a == HeadEvent.attempt
<1>0. eng \in EngineState
  BY DEF TypeOK, StateTypeOK
<1>1. CASE HandleOverloaded
  <2> DEFINE hit == {f \in Execs : eng.status[f] \in Live}
             node == [f \in Execs |-> [m \in Node |->
                        IF f \in hit /\ eng.node[f][m] \notin {"done", "absent"}
                        THEN "failed" ELSE eng.node[f][m]]]
             s == [eng EXCEPT
                     !.status = [f \in Execs |-> IF f \in hit THEN "failed" ELSE @[f]],
                     !.cancelled = @ \cup hit,
                     !.node = node]
  <2>1. Saved(s, Remaining) \/ SaveFailed(s, NoExec, 0, Remaining)
    BY <1>1 DEF HandleOverloaded
  <2>2. \A f \in Execs : \A m \in Node :
           eng.node[f][m] \in Begun => node[f][m] \in Begun
    BY DEF Begun
  <2> HIDE DEF node
  <2>3. s.node = node
    BY <1>0 DEF EngineState
  <2> HIDE DEF s
  <2>4. StaysBegun(s)
    BY <2>2, <2>3 DEF StaysBegun
  <2> QED
    BY <2>1, <2>4, SavedBegun
<1>2. CASE HandleAttemptStarted
  <2> DEFINE s == [eng EXCEPT !.attempt[e][n][a] = "running", !.active[e][n] = a]
  <2>1. Saved(s, Remaining) \/ SaveFailed(s, NoExec, 0, Remaining) \/ Dropped
    BY <1>2 DEF HandleAttemptStarted
  <2>2. s.node = eng.node
    BY <1>0 DEF EngineState
  <2> HIDE DEF s
  <2> QED
    BY <2>1, <2>2, SameNodes, SavedBegun
<1>3. CASE HandleAttemptFinished
  <2> DEFINE s == [eng EXCEPT !.attempt[e][n][a] =
                     IF @ = "running" THEN HeadEvent.arg ELSE @]
  <2>1. Saved(s, Remaining) \/ SaveFailed(s, NoExec, 0, Remaining) \/ Dropped
    BY <1>3 DEF HandleAttemptFinished
  <2>2. s.node = eng.node
    BY <1>0 DEF EngineState
  <2> HIDE DEF s
  <2> QED
    BY <2>1, <2>2, SameNodes, SavedBegun
<1>4. CASE HandleGraphMutation
  <2> DEFINE k == IF HeadEvent.arg = "return" THEN 2 ELSE 1
             s == Grown(eng, e, n, k)
             c == eng.count[e]
             grown == [m \in Node |-> IF m \in (c + 1)..(c + k) THEN "pending"
                                      ELSE eng.node[e][m]]
  <2>1. Saved(s, Remaining) \/ SaveFailed(eng, e, n, Remaining) \/ Dropped
    BY <1>4 DEF HandleGraphMutation
  <2>2. e \in Execs /\ c \in Nat /\ k \in Nat
    BY <1>0, <1>4, HeadTask, BusAssumption
       DEF HandleGraphMutation, Handling, TypeOK, AttemptType, EngineState, BusAssumption
  <2>3. s.node = [eng.node EXCEPT ![e] = grown]
    BY <1>0, <2>2 DEF Grown, EngineState
  <2>4. \A m \in Node : m <= c => grown[m] = eng.node[e][m]
    BY <2>2 DEF Node
  <2> HIDE DEF e, s, grown
  <2>5. StaysBegun(s)
    BY <2>2, <2>3, <2>4, OneBegun
  <2> QED
    BY <2>1, <2>5, SavedBegun
<1>5. CASE HandleArtifact
  <2> DEFINE s == [eng EXCEPT !.artifact[e] = @ \cup {n}]
  <2>1. Saved(s, Remaining) \/ SaveFailed(s, e, n, Remaining) \/ Dropped
    BY <1>5 DEF HandleArtifact
  <2>2. s.node = eng.node
    BY <1>0 DEF EngineState
  <2> HIDE DEF s
  <2> QED
    BY <2>1, <2>2, SameNodes, SavedBegun
<1>6. CASE HandleWorkerCompleted
  <2> DEFINE d == [eng EXCEPT !.node[e][n] = "done"]
             s == [d EXCEPT !.active[e][n] = 0]
             ns == [eng.node[e] EXCEPT ![n] = "done"]
  <2>1. Saved(s, Remaining) \/ SaveFailed(d, e, n, Remaining) \/ Dropped
    BY <1>6 DEF HandleWorkerCompleted
  <2>2. e \in Execs /\ n \in Node
    BY <1>6, HeadTask DEF HandleWorkerCompleted, Handling, TypeOK, AttemptType
  <2>3. s.node = [eng.node EXCEPT ![e] = ns]
    BY <1>0 DEF EngineState
  <2>4. \A m \in Node : eng.node[e][m] \in Begun => ns[m] \in Begun
    BY <1>0, <2>2 DEF EngineState, Begun
  <2> HIDE DEF e, n, s, d, ns
  <2>5. StaysBegun(s)
    BY <2>2, <2>3, <2>4, OneBegun
  <2> QED
    BY <2>1, <2>5, SavedBegun
<1>7. CASE HandleWorkerFailed
  <2> DEFINE ns == [m \in Node |-> IF m = n THEN "failed"
                                   ELSE IF eng.node[e][m] = "pending" THEN "blocked"
                                   ELSE eng.node[e][m]]
             s == [eng EXCEPT !.status[e] = "failed", !.active[e][n] = 0, !.node[e] = ns]
             b == Publish(Remaining, ExecEvent("ExecutionKilled", e, "none"))
             c == Publish(b, ExecEvent("WorkflowFailed", e, "none"))
  <2>1. Saved(s, c) \/ SaveFailed(s, e, n, b) \/ Dropped
    BY <1>7 DEF HandleWorkerFailed
  <2>2. e \in Execs
    BY <1>7, HeadTask DEF HandleWorkerFailed, Handling, TypeOK, TaskType
  <2>3. \A m \in Node : eng.node[e][m] \in Begun => ns[m] \in Begun
    BY DEF Begun
  <2> HIDE DEF ns
  <2>4. s.node = [eng.node EXCEPT ![e] = ns]
    BY <1>0 DEF EngineState
  <2> HIDE DEF e, s, b, c
  <2>5. StaysBegun(s)
    BY <2>2, <2>3, <2>4, OneBegun
  <2> QED
    BY <2>1, <2>5, SavedBegun
<1>8. CASE HandleKilled
  <2> DEFINE ns == Blocked(eng.node[e])
             s == [eng EXCEPT
                     !.cancelled = @ \cup ({e, CompileOf[e]} \ {NoExec}),
                     !.status[e] = IF @ \in Live THEN "cancelled" ELSE @,
                     !.node[e] = ns]
             b == Propagated("ExecutionKilled", e)
  <2>1. Saved(s, b) \/ SaveFailed(s, e, 0, b)
    BY <1>8 DEF HandleKilled
  <2>2. e \in Execs
    BY <1>8, HeadExec DEF HandleKilled, Handling, TypeOK, EventType, RuntimeType
  <2>3. \A m \in Node : eng.node[e][m] \in Begun => ns[m] \in Begun
    BY DEF Begun, Blocked
  <2> HIDE DEF ns
  <2>4. s.node = [eng.node EXCEPT ![e] = ns]
    BY <1>0 DEF EngineState
  <2> HIDE DEF e, s, b
  <2>5. StaysBegun(s)
    BY <2>2, <2>3, <2>4, OneBegun
  <2> QED
    BY <2>1, <2>5, SavedBegun
<1>9. CASE HandlePaused
  <2> DEFINE s == [eng EXCEPT !.paused = @ \cup {e},
                              !.status[e] = IF @ = "running" THEN "paused" ELSE @]
             b == Propagated("ExecutionPaused", e)
  <2>1. Saved(s, b) \/ SaveFailed(s, e, 0, b)
    BY <1>9 DEF HandlePaused
  <2>2. s.node = eng.node
    BY <1>0 DEF EngineState
  <2> HIDE DEF s, b
  <2> QED
    BY <2>1, <2>2, SameNodes, SavedBegun
<1>10. CASE HandleResumed
  <2> DEFINE d == [eng EXCEPT !.paused = @ \ {e}]
             s == [d EXCEPT !.status[e] = "running"]
             b == Propagated("ExecutionResumed", e)
  <2>1. Saved(s, b) \/ SaveFailed(d, e, 0, b) \/ eng' = d
    BY <1>10 DEF HandleResumed
  <2>2. s.node = eng.node /\ d.node = eng.node
    BY <1>0 DEF EngineState
  <2> HIDE DEF s, d, b
  <2>3. StaysBegun(s) /\ StaysBegun(d)
    BY <2>2, SameNodes
  <2> QED
    BY <2>1, <2>3, SavedBegun
<1>11. CASE HandleReconciled
  <2> DEFINE again(m) == eng.node[e][m] = "interrupted"
             ns == [m \in Node |-> IF again(m) THEN "pending" ELSE eng.node[e][m]]
             os == [m \in Node |-> IF again(m) THEN 0 ELSE eng.active[e][m]]
             s == [eng EXCEPT !.status[e] = "running", !.node[e] = ns, !.active[e] = os]
             ms == Blocked(eng.node[e])
             t == [eng EXCEPT
                     !.status[e] = IF HeadEvent.arg = "cancel" THEN "cancelled" ELSE "failed",
                     !.node[e] = ms]
  <2>1. \/ Saved(s, Remaining) \/ SaveFailed(eng, e, 0, Remaining) \/ Dropped
        \/ Saved(t, Remaining) \/ SaveFailed(t, e, 0, Remaining)
    BY <1>11 DEF HandleReconciled
  <2>2. e \in Execs
    BY <1>11, HeadExec DEF HandleReconciled, Handling, TypeOK, EventType, RuntimeType
  <2>3. \A m \in Node : eng.node[e][m] \in Begun => ns[m] \in Begun /\ ms[m] \in Begun
    BY DEF Begun, Blocked
  <2> HIDE DEF ns, os, ms
  <2>4. s.node = [eng.node EXCEPT ![e] = ns] /\ t.node = [eng.node EXCEPT ![e] = ms]
    BY <1>0 DEF EngineState
  <2> HIDE DEF e, s, t
  <2>5. StaysBegun(s)
    BY <2>2, <2>3, <2>4, OneBegun
  <2>6. StaysBegun(t)
    BY <2>2, <2>3, <2>4, OneBegun
  <2> QED
    BY <2>1, <2>5, <2>6, SavedBegun
<1> QED
  BY <1>1, <1>2, <1>3, <1>4, <1>5, <1>6, <1>7, <1>8, <1>9, <1>10, <1>11 DEF EngineHandler

-----------------------------------------------------------------------------
(***************************************************************************)
(* Only the dispatch loop and the dispatcher hand anything on: the loop a  *)
(* node that waits, the dispatcher the node of the event it takes.         *)
(***************************************************************************)
LEMMA DispatchTaskFewer ==
    ASSUME TypeOK, TypeOK', SafetyInv, Once, Delivers("TaskCreated"),
           DispatchTask(HeadEvent.exec, HeadEvent.node), NotMore(bus, bus')
    PROVE  Fewer
<1>1. PICK e \in Execs, n \in Node : e = HeadEvent.exec /\ n = HeadEvent.node
  BY HeadTask DEF TypeOK, TaskType
<1>2. CASE task' = task
  BY <1>2, FewerSame DEF NoNewTask
<1>3. CASE /\ bus' = Remaining
           /\ task' = [task EXCEPT ![e][n] = [NoTask EXCEPT !.pc = "select"]]
  <2>1. /\ bus.queue \in Seq(Event) /\ bus.queue # <<>>
        /\ bus.queue[1].type = "TaskCreated" /\ bus.queue[1].exec = e /\ bus.queue[1].node = n
        /\ bus'.queue = Tail(bus.queue)
    BY <1>1, <1>3 DEF TypeOK, BusValue, Delivers, HeadEvent, Remaining
  <2>2. Cardinality(Queued(bus'.queue, e, n)) + 1 <= Cardinality(Queued(bus.queue, e, n))
    BY <2>1, QueuedHead
  <2>3. bus'.queue \in Seq(Event)
    BY DEF TypeOK, BusValue
  <2>4. \A f, m : /\ Cardinality(Queued(bus.queue, f, m)) \in Nat
                  /\ Cardinality(Queued(bus'.queue, f, m)) \in Nat
    BY <2>1, <2>3, QueuedCount
  <2>5. OthersStay(e, n)
    BY <1>1, <1>3, PutPlaces DEF TypeOK
  <2>6. HandedOut(e, n)' <= HandedOut(e, n)
    BY <2>2, <2>4 DEF HandedOut
  <2>7. ASSUME NEW f \in Execs, NEW m \in Node, ~(f = e /\ m = n)
        PROVE  HandedOut(f, m)' <= HandedOut(f, m)
    <3>1. task'[f][m].pc = task[f][m].pc
      BY <2>5, <2>7 DEF OthersStay
    <3>2. Cardinality(Queued(bus'.queue, f, m)) <= Cardinality(Queued(bus.queue, f, m))
      BY DEF NotMore
    <3> QED
      BY <2>4, <3>1, <3>2 DEF HandedOut
  <2> QED
    BY <2>6, <2>7 DEF Fewer
<1> QED
  BY <1>1, <1>2, <1>3 DEF DispatchTask, dispatcherVars

LEMMA StepFewer ==
    ASSUME TypeOK, SafetyInv, Once, [Next]_vars
    PROVE  \/ Fewer
           \/ \E n \in Node : DispatchNode(n) /\ task' = task
<1>0. TypeOK' /\ DispatcherBusOK
  BY NextType DEF TypeOK, DispatcherBusOK
<1>1. CASE LoopStep /\ \E n \in Node : DispatchNode(n)
  BY <1>1 DEF LoopStep, dispatcherVars
<1>2. CASE NotMore(bus, bus')
  <2>1. CASE EngineHandles \/ Observed \/ LoopStep \/ UNCHANGED vars
    <3>1. task' = task
      BY <2>1 DEF EngineHandles, Observed, LoopStep, vars, dispatcherVars
    <3> QED
      BY <1>0, <1>2, <3>1, FewerSame DEF NoNewTask
  <2>2. CASE DispatcherFollows
    <3>1. cur # NoEvent /\ cur \in Event
      BY <2>2 DEF DispatcherFollows, TypeOK, MutexTypeOK
    <3>2. StopOnRuntimeFailure \/ \E e \in Execs : StopExecution(e)
      BY <2>2, <3>1 DEF DispatcherFollows, Event, RuntimeType
    <3>3. NoNewTask
      BY <3>2, StopPlaces DEF TypeOK, NoNewTask
    <3> QED
      BY <1>0, <1>2, <3>3, FewerSame
  <2>3. CASE DispatcherHandles
    <3>1. CASE Delivers("TaskCreated") /\ DispatchTask(HeadEvent.exec, HeadEvent.node)
      BY <1>0, <1>2, <3>1, DispatchTaskFewer
    <3>2. CASE StopOnRuntimeFailure
      BY <1>0, <1>2, <3>2, StopPlaces, FewerSame DEF TypeOK, NoNewTask
    <3>3. CASE Delivers("TaskResultCommitRequested") /\ CommitResult
      BY <1>0, <1>2, <3>3, CommitPlaces, FewerSame DEF NoNewTask
    <3> QED
      BY <2>3, <3>1, <3>2, <3>3 DEF DispatcherHandles
  <2>4. ASSUME NEW e \in Execs, NEW n \in Node, TaskSteps(e, n)
        PROVE  Fewer
    <3>1. task[e][n].pc # "none" /\ OthersStay(e, n)
      BY <2>4, TaskPlaces DEF TaskSteps, TypeOK
    <3> QED
      BY <1>0, <1>2, <3>1, FewerSame DEF NoNewTask, OthersStay
  <2>5. ASSUME NEW e \in Execs, NEW n \in Node, DeadlinePasses(e, n)
        PROVE  Fewer
    <3>1. OthersStay(e, n) /\ task'[e][n].pc = task[e][n].pc
      BY <2>5, DeadlinePlaces DEF DeadlinePasses, TypeOK
    <3> QED
      BY <1>0, <1>2, <3>1, FewerSame DEF NoNewTask, OthersStay
  <2>6. CASE (\E e \in Execs : Submit(e)) \/ (\E t \in Controls, e \in Execs : Control(t, e))
    <3>1. task' = task
      BY <2>6 DEF Submit, Control, dispatcherVars
    <3> QED
      BY <1>0, <1>2, <3>1, FewerSame DEF NoNewTask
  <2>7. CASE Crash
    <3>1. NoNewTask
      BY <2>7 DEF Crash, NoTask, NoNewTask
    <3> QED
      BY <1>0, <1>2, <3>1, FewerSame
  <2> QED
    BY <2>1, <2>2, <2>3, <2>4, <2>5, <2>6, <2>7 DEF Next, BusStep
<1> QED
  BY <1>1, <1>2, SafetyNext DEF RecordedStep

-----------------------------------------------------------------------------
(***************************************************************************)
(* A process whose saves succeed hands a node out once.                    *)
(***************************************************************************)
LEMMA DispatchOnce ==
    ASSUME TypeOK, TypeOK', SafetyInv, Once, RootsWait, NEW n \in Node, DispatchNode(n),
           task' = task, ~restartRequired'
    PROVE  Once' /\ RootsWait'
<1>0. PICK e \in Execs : e = loop.exec
  BY LoopExec DEF DispatchNode, TypeOK, MutexTypeOK
<1> DEFINE node == [eng.node EXCEPT ![e][n] = "running"]
           s == [eng EXCEPT !.node[e][n] = "running"]
           ev == TaskEvent("TaskCreated", e, n, 0, "none")
<1>1. /\ loop.owner # "none" /\ n \in loop.todo /\ MayDispatch(n)
      /\ eng' = s /\ bus' = Publish(bus, ev)
      /\ loop' = [loop EXCEPT !.todo = @ \ {n}]
  BY <1>0 DEF DispatchNode, Saved, SaveFailed
<1>2. eng \in EngineState /\ bus \in BusValue(Event)
  BY DEF TypeOK, StateTypeOK
<1>3. eng.node[e][n] = "pending"
  BY <1>0, <1>1 DEF MayDispatch, RootsWait
<1>4. eng'.node = node
  BY <1>1, <1>2 DEF EngineState
<1>5. \A f \in Execs : \A m \in Node :
         node[f][m] = IF f = e /\ m = n THEN "running" ELSE eng.node[f][m]
  BY <1>2 DEF EngineState
<1>6. /\ loop'.owner = loop.owner /\ loop'.exec = e
      /\ loop'.todo = loop.todo \ {n} /\ loop.todo \subseteq Node
  BY <1>0, <1>1, LoopExec DEF TypeOK, MutexTypeOK
<1>7. ev \in Event /\ ev.type = "TaskCreated" /\ ev.exec = e /\ ev.node = n
  BY <1>2, TaskEventType DEF TaskEvent
<1> HIDE DEF node, s, ev
<1>8. RootsWait'
  BY <1>0, <1>2, <1>4, <1>5, <1>6 DEF RootsWait
<1>9. HandedOut(e, n) = 0
  BY <1>2, <1>3, HandedOutKnown DEF Once, Begun
<1>10. Queued(bus.queue, e, n) = {} /\ task[e][n].pc = "none"
  BY <1>2, <1>9, HandedOutKnown
<1>11. HandedOut(e, n)' <= 1
  <2>1. Cardinality(Queued(bus'.queue, e, n)) <= 1
    BY <1>1, <1>2, <1>7, <1>10, FirstCount
  <2>2. bus'.queue \in Seq(Event)
    BY DEF TypeOK, BusValue
  <2>3. Cardinality(Queued(bus'.queue, e, n)) \in Nat
    BY <2>2, QueuedCount
  <2> QED
    BY <1>10, <2>1, <2>3 DEF HandedOut
<1>12. ASSUME NEW f \in Execs, NEW m \in Node, ~(f = e /\ m = n)
       PROVE  HandedOut(f, m)' <= HandedOut(f, m)
  <2>1. Cardinality(Queued(bus'.queue, f, m)) <= Cardinality(Queued(bus.queue, f, m))
    BY <1>1, <1>2, <1>7, <1>12, PublishCount
  <2>2. bus'.queue \in Seq(Event) /\ bus.queue \in Seq(Event)
    BY DEF TypeOK, BusValue
  <2>3. /\ Cardinality(Queued(bus'.queue, f, m)) \in Nat
        /\ Cardinality(Queued(bus.queue, f, m)) \in Nat
    BY <2>2, QueuedCount
  <2> QED
    BY <2>1, <2>3 DEF HandedOut
<1>13. ASSUME NEW f \in Execs, NEW m \in Node
       PROVE  HandedOut(f, m)' <= 1 /\ (HandedOut(f, m)' > 0 => eng'.node[f][m] \in Begun)
  <2>1. CASE f = e /\ m = n
    BY <1>4, <1>5, <1>11, <2>1 DEF Begun
  <2>2. CASE ~(f = e /\ m = n)
    <3>1. /\ HandedOut(f, m) <= 1 /\ HandedOut(f, m)' <= HandedOut(f, m)
          /\ HandedOut(f, m) > 0 => eng.node[f][m] \in Begun
      BY <1>12, <2>2 DEF Once
    <3>2. HandedOut(f, m) \in Nat
      BY HandedOutKnown
    <3>3. HandedOut(f, m)' \in Nat
      <4>1. bus'.queue \in Seq(Event)
        BY DEF TypeOK, BusValue
      <4> QED
        BY <4>1, QueuedCount DEF HandedOut
    <3>4. eng'.node[f][m] = eng.node[f][m]
      BY <1>4, <1>5, <2>2
    <3> QED
      BY <3>1, <3>2, <3>3, <3>4
  <2> QED
    BY <2>1, <2>2
<1> QED
  BY <1>8, <1>13 DEF Once

LEMMA FewerOnce ==
    ASSUME TypeOK, TypeOK', SafetyInv, Once, Fewer, StaysBegun(eng')
    PROVE  Once'
<1>1. ASSUME NEW e \in Execs, NEW n \in Node
      PROVE  HandedOut(e, n)' <= 1 /\ (HandedOut(e, n)' > 0 => eng'.node[e][n] \in Begun)
  <2>1. bus'.queue \in Seq(Event)
    BY DEF TypeOK, BusValue
  <2>2. HandedOut(e, n)' \in Nat
    BY <2>1, QueuedCount DEF HandedOut
  <2>3. /\ HandedOut(e, n) \in Nat /\ HandedOut(e, n)' <= HandedOut(e, n)
        /\ HandedOut(e, n) <= 1
        /\ HandedOut(e, n) > 0 => n <= eng.count[e] /\ eng.node[e][n] \in Begun
    BY HandedOutKnown DEF Fewer, Once
  <2> QED
    BY <2>2, <2>3 DEF StaysBegun
<1> QED
  BY <1>1 DEF Once

(* After a start nothing is handed out. *)
LEMMA NothingHandedOut ==
    ASSUME NEW q, NEW t, NEW e, NEW n, q = <<>>, t = NoTask
    PROVE  Cardinality(Queued(q, e, n)) + (IF t.pc = "none" THEN 0 ELSE 1) = 0
<1>1. Queued(q, e, n) = {} /\ t.pc = "none"
  BY DEF Queued, NoTask
<1>2. Cardinality(Queued(q, e, n)) = 0
  BY <1>1, FS_EmptySet
<1> QED
  BY <1>1, <1>2

LEMMA CrashOnce ==
    ASSUME Crash
    PROVE  Once' /\ RootsWait'
<1>1. /\ bus'.queue = <<>> /\ loop' = Idle
      /\ \A e \in Execs : \A n \in Node : task'[e][n] = NoTask
  BY DEF Crash, EmptyBus
<1>2. \A e \in Execs : \A n \in Node : HandedOut(e, n)' = 0
  BY <1>1, NothingHandedOut DEF HandedOut
<1>3. 0 <= 1 /\ ~(0 > 0)
  OBVIOUS
<1> QED
  BY <1>1, <1>2, <1>3 DEF Once, RootsWait, Idle

LEMMA OnceInit == Init => OnceInv
<1> SUFFICES ASSUME Init PROVE OnceInv
  OBVIOUS
<1>1. /\ bus.queue = <<>> /\ loop = Idle
      /\ \A e \in Execs : \A n \in Node : task[e][n] = NoTask
  BY DEF Init, EngineInit, DispatcherInit, EmptyBus
<1>2. \A e \in Execs : \A n \in Node : HandedOut(e, n) = 0
  BY <1>1, NothingHandedOut DEF HandedOut
<1>3. 0 <= 1 /\ ~(0 > 0)
  OBVIOUS
<1> QED
  BY <1>1, <1>2, <1>3 DEF OnceInv, Once, RootsWait, Idle

(* Only a restart takes back that a save has failed. *)
LEMMA FailureStays ==
    ASSUME [Next]_vars, restartRequired
    PROVE  restartRequired' \/ Crash
<1> USE DEF Saved, SaveFailed, Dropped, Unsaved
<1>1. CASE EngineHandles
  <2>1. CASE HandleOverloaded \/ HandleAttemptStarted \/ HandleAttemptFinished
    BY <2>1 DEF HandleOverloaded, HandleAttemptStarted, HandleAttemptFinished
  <2>2. CASE HandleGraphMutation \/ HandleArtifact
    BY <2>2 DEF HandleGraphMutation, HandleArtifact
  <2>3. CASE HandleWorkerCompleted \/ HandleWorkerFailed
    BY <2>3 DEF HandleWorkerCompleted, HandleWorkerFailed
  <2>4. CASE HandleKilled \/ HandlePaused \/ HandleResumed
    BY <2>4 DEF HandleKilled, HandlePaused, HandleResumed
  <2>5. CASE HandleReconciled
    BY <2>5 DEF HandleReconciled
  <2> QED
    BY <1>1, <2>1, <2>2, <2>3, <2>4, <2>5 DEF EngineHandles, EngineHandler
<1>2. CASE LoopStep
  BY <1>2 DEF LoopStep, EngineLoop, EndLoop, DispatchNode
<1>3. CASE \E e \in Execs : Submit(e)
  BY <1>3 DEF Submit, SubmitWorkflow
<1>4. CASE \/ DispatcherFollows \/ DispatcherHandles \/ Observed \/ UNCHANGED vars
           \/ \E e \in Execs, n \in Node : TaskSteps(e, n) \/ DeadlinePasses(e, n)
           \/ \E t \in Controls, e \in Execs : Control(t, e)
  BY <1>4 DEF DispatcherFollows, DispatcherHandles, Observed, TaskSteps, DeadlinePasses,
              Control, vars, engineVars
<1> QED
  BY <1>1, <1>2, <1>3, <1>4 DEF Next, BusStep

LEMMA SubmitBegun ==
    ASSUME TypeOK, SafetyInv, NEW e \in Execs, SubmitWorkflow(e), RootsWait
    PROVE  StaysBegun(eng') /\ RootsWait'
<1> DEFINE s == NewExecution(eng, e)
<1>1. CASE /\ MaySubmit(e)
           /\ eng' = s
           /\ loop' = [owner |-> "submit", exec |-> e, todo |-> Roots(s, e), node |-> 0]
  <2>1. eng \in EngineState
    BY DEF TypeOK, StateTypeOK
  <2>2. /\ s.count[e] = StaticCount[e]
        /\ \A n \in Node : s.node[e][n] = IF n <= StaticCount[e] THEN "pending"
                                          ELSE "absent"
        /\ \A f \in Execs : f # e => s.node[f] = eng.node[f]
    BY <2>1, NewExecutionFacts
  <2>3. eng.count[e] = 0
    BY <1>1 DEF MaySubmit, SafetyInv, StateInv, Sound, AbsentBeyond
  <2> HIDE DEF s
  <2>4. StaysBegun(s)
    BY <2>2, <2>3 DEF StaysBegun, Node
  <2>5. \A n \in Roots(s, e) : s.node[e][n] = "pending"
    BY <2>2 DEF Roots, NodesOf
  <2> QED
    BY <1>1, <2>4, <2>5 DEF RootsWait
<1>2. CASE UNCHANGED <<eng, loop>>
  BY <1>2 DEF StaysBegun, RootsWait
<1> QED
  BY <1>1, <1>2 DEF SubmitWorkflow, Saved

(* A handler's loop is not that of a submission. *)
LEMMA HandlerLoop ==
    ASSUME EngineHandler
    PROVE  loop'.owner # "submit"
<1>1. CASE HandleWorkerCompleted
  BY <1>1 DEF HandleWorkerCompleted, Dropped, Finished, Loops, Idle
<1>2. CASE HandleResumed
  BY <1>2 DEF HandleResumed, Finished, Loops, Idle
<1>3. CASE HandleReconciled
  BY <1>3 DEF HandleReconciled, Dropped, Finished, Loops, Idle
<1>4. CASE Dropped \/ Finished \/ ForDispatcher
  BY <1>4 DEF Dropped, Finished, ForDispatcher, Idle
<1>5. CASE HandleOverloaded \/ HandleAttemptStarted \/ HandleAttemptFinished
           \/ HandleGraphMutation \/ HandleArtifact
  BY <1>4, <1>5 DEF HandleOverloaded, HandleAttemptStarted, HandleAttemptFinished,
                    HandleGraphMutation, HandleArtifact
<1>6. CASE HandleWorkerFailed \/ HandleKilled \/ HandlePaused
  BY <1>4, <1>6 DEF HandleWorkerFailed, HandleKilled, HandlePaused
<1> QED
  BY <1>1, <1>2, <1>3, <1>5, <1>6 DEF EngineHandler

LEMMA OnceNext ==
    ASSUME TypeOK, SafetyInv, OnceInv, [Next]_vars
    PROVE  OnceInv'
<1>0. TypeOK'
  BY NextType
<1>1. CASE restartRequired'
  BY <1>1 DEF OnceInv
<1>2. CASE Crash
  BY <1>2, CrashOnce DEF OnceInv
<1>3. CASE ~restartRequired' /\ ~Crash
  <2>1. Once /\ RootsWait
    BY <1>3, FailureStays DEF OnceInv
  <2>2. CASE \E n \in Node : DispatchNode(n) /\ task' = task
    BY <1>0, <1>3, <2>1, <2>2, DispatchOnce DEF OnceInv
  <2>3. CASE Fewer /\ ~\E n \in Node : DispatchNode(n) /\ task' = task
    <3>1. StaysBegun(eng') /\ RootsWait'
      <4>1. CASE EngineHandles
        <5>1. EngineHandler
          BY <4>1 DEF EngineHandles
        <5>2. loop'.owner # "submit"
          BY <5>1, HandlerLoop
        <5> QED
          BY <1>3, <5>1, <5>2, HandlerBegun DEF RootsWait
      <4>2. CASE LoopStep
        <5>1. EndLoop
          BY <2>3, <4>2 DEF LoopStep, EngineLoop, dispatcherVars
        <5>2. eng'.node = eng.node
          BY <1>3, <5>1 DEF EndLoop, Saved, SaveFailed, Unsaved, TypeOK, StateTypeOK, EngineState
        <5> QED
          BY <5>1, <5>2, SameNodes DEF EndLoop, RootsWait, Idle
      <4>3. CASE \E e \in Execs : Submit(e)
        BY <2>1, <4>3, SubmitBegun DEF Submit
      <4>4. CASE UNCHANGED <<eng, loop>>
        BY <2>1, <4>4, SameNodes DEF RootsWait
      <4>5. ASSUME NEW t \in Controls, NEW e \in Execs, Control(t, e)
            PROVE  UNCHANGED <<eng, loop>>
        BY <4>5 DEF Control, engineVars
      <4>6. ASSUME NEW e \in Execs, NEW n \in Node, TaskSteps(e, n) \/ DeadlinePasses(e, n)
            PROVE  UNCHANGED <<eng, loop>>
        BY <4>6 DEF TaskSteps, DeadlinePasses, engineVars
      <4>7. CASE DispatcherFollows \/ DispatcherHandles \/ Observed \/ UNCHANGED vars
        BY <4>4, <4>7 DEF DispatcherFollows, DispatcherHandles, Observed, vars, engineVars
      <4> QED
        BY <1>3, <4>1, <4>2, <4>3, <4>4, <4>5, <4>6, <4>7 DEF Next, BusStep
    <3> QED
      BY <1>0, <2>1, <2>3, <3>1, FewerOnce DEF OnceInv
  <2> QED
    BY <2>1, <2>2, <2>3, StepFewer
<1> QED
  BY <1>1, <1>2, <1>3

(***************************************************************************)
(* A node never has a goroutine and a TaskCreated, or two of either, at the*)
(* same time, however delegations, pauses, resumes, kills, reconciliations *)
(* and restarts are ordered, in a process whose saves succeed              *)
(* (checkAndDispatch, dispatchNode, SubmitWorkflow).                       *)
(***************************************************************************)
THEOREM HandedOutOnce == Spec => []SingleDispatch
<1>1. Init => OnceInv
  BY OnceInit
<1>2. TypeOK /\ SafetyInv /\ OnceInv /\ [Next]_vars => OnceInv'
  BY OnceNext
<1>3. OnceInv => SingleDispatch
  BY DEF OnceInv, Once, HandedOut, SingleDispatch
<1> QED
  BY <1>1, <1>2, <1>3, TypeCorrect, Safety, PTL DEF Spec

-----------------------------------------------------------------------------
(***************************************************************************)
(* The order of the attempts.  A goroutine announces an attempt, reports   *)
(* its end, and only then announces the next one or the end of the task,   *)
(* its followers.  So between the start of an attempt and a follower, in   *)
(* the queue or already recorded, there is the end of the attempt; and     *)
(* unless the goroutine has the attempt open, or the bus takes no events,  *)
(* the end of what has started is in the queue.                            *)
(***************************************************************************)
Starts(ev, e, n, a) ==
    ev.type = "AttemptStarted" /\ ev.exec = e /\ ev.node = n /\ ev.attempt = a

Ends(ev, e, n, a) ==
    ev.type = "AttemptFinished" /\ ev.exec = e /\ ev.node = n /\ ev.attempt = a

FollowerType == {"AttemptStarted", "WorkerFailed", "WorkerCompleted"}
Follower(ev, e, n) == ev.type \in FollowerType /\ ev.exec = e /\ ev.node = n

(* Between places i and j of the queue the attempt ends. *)
EndedIn(q, i, j, e, n, a) == \E k \in (i + 1)..(j - 1) : Ends(q[k], e, n, a)

(* An attempt that starts at place i, or is recorded as running if i = 0. *)
Begins(s, q, i, e, n, a) ==
    IF i = 0 THEN s.attempt[e][n][a] = "running" ELSE Starts(q[i], e, n, a)

InTurn(s, q, e, n) ==
    \A j \in 1..Len(q) : Follower(q[j], e, n) =>
        \A i \in 0..(j - 1) : \A a \in Attempt :
            Begins(s, q, i, e, n, a) => EndedIn(q, i, j, e, n, a)

WillEnd(s, q, e, n, a) ==
    \A i \in 0..Len(q) : Begins(s, q, i, e, n, a) => EndedIn(q, i, Len(q) + 1, e, n, a)

AttemptsInTurn(s, b, e, n, open) ==
    /\ InTurn(s, b.queue, e, n)
    /\ \/ b.overloaded \/ b.closed
       \/ \A a \in Attempt \ open : WillEnd(s, b.queue, e, n, a)

(* The attempt that a goroutine has begun and not ended. *)
Open(t) == IF t.pc \in Attempting THEN {t.attempt} ELSE {}

NoneRuns(s, e, n) == \A a \in Attempt : s.attempt[e][n][a] # "running"
ActiveRuns(s, e, n) ==
    \A a \in Attempt : s.attempt[e][n][a] = "running" => s.active[e][n] = a

(* The snapshot has the attempts that memory has. *)
SameAttempts == disk.attempt = eng.attempt /\ disk.active = eng.active

AttemptsOrdered ==
    /\ ~restartRequired
    /\ SameAttempts
    /\ \A e \in Execs : \A n \in Node :
          /\ AttemptsInTurn(eng, bus, e, n, Open(task[e][n]))
          /\ ActiveRuns(eng, e, n)
          /\ eng.status[e] \in {"absent", "interrupted"} => NoneRuns(eng, e, n)

OrderInv == faults = 0 => AttemptsOrdered

(***************************************************************************)
(* A follower is published only when no attempt is open; the end of an     *)
(* attempt closes it.                                                      *)
(***************************************************************************)
LEMMA EndedAppend ==
    ASSUME NEW q \in Seq(Event), NEW ev \in Event, NEW e, NEW n, NEW a,
           NEW i \in 0..Len(q), NEW j \in 0..(Len(q) + 1), EndedIn(q, i, j, e, n, a)
    PROVE  /\ EndedIn(Append(q, ev), i, j, e, n, a)
           /\ EndedIn(Append(q, ev), i, j + 1, e, n, a)
<1>1. PICK k \in (i + 1)..(j - 1) : Ends(q[k], e, n, a)
  BY DEF EndedIn
<1>2. k \in 1..Len(q) /\ k \in (i + 1)..((j + 1) - 1)
  BY <1>1
<1>3. Append(q, ev)[k] = q[k]
  BY <1>2
<1> QED
  BY <1>1, <1>2, <1>3 DEF EndedIn

LEMMA BeginsAppend ==
    ASSUME NEW q \in Seq(Event), NEW ev \in Event, NEW s, NEW e, NEW n, NEW a,
           NEW i \in 0..(Len(q) + 1)
    PROVE  /\ i # Len(q) + 1 =>
                 (Begins(s, Append(q, ev), i, e, n, a) <=> Begins(s, q, i, e, n, a))
           /\ i = Len(q) + 1 =>
                 (Begins(s, Append(q, ev), i, e, n, a) <=> Starts(ev, e, n, a))
<1>1. CASE i = 0
  BY <1>1 DEF Begins
<1>2. CASE i \in 1..Len(q)
  <2>1. Append(q, ev)[i] = q[i]
    BY <1>2
  <2> QED
    BY <1>2, <2>1 DEF Begins
<1>3. CASE i = Len(q) + 1
  <2>1. Append(q, ev)[i] = ev
    BY <1>3
  <2> QED
    BY <1>3, <2>1 DEF Begins
<1> QED
  BY <1>1, <1>2, <1>3

LEMMA OrderAppend ==
    ASSUME NEW q \in Seq(Event), NEW ev \in Event, NEW s, NEW e, NEW n,
           NEW open, NEW left,
           InTurn(s, q, e, n),
           \A a \in Attempt \ open : WillEnd(s, q, e, n, a),
           Follower(ev, e, n) => open = {},
           \A a \in Attempt \ left :
               Ends(ev, e, n, a) \/ (a \notin open /\ ~Starts(ev, e, n, a))
    PROVE  /\ InTurn(s, Append(q, ev), e, n)
           /\ \A a \in Attempt \ left : WillEnd(s, Append(q, ev), e, n, a)
<1> DEFINE r == Append(q, ev)
<1>1. Len(r) = Len(q) + 1 /\ Len(q) \in Nat /\ r[Len(q) + 1] = ev
      /\ \A k \in 1..Len(q) : r[k] = q[k]
  OBVIOUS
<1> HIDE DEF r
<1>2. ASSUME NEW j \in 1..Len(r), Follower(r[j], e, n), NEW i \in 0..(j - 1),
             NEW a \in Attempt, Begins(s, r, i, e, n, a)
      PROVE  EndedIn(r, i, j, e, n, a)
  <2>1. i \in 0..Len(q) /\ Begins(s, q, i, e, n, a)
    BY <1>1, <1>2, BeginsAppend DEF r
  <2>2. CASE j \in 1..Len(q)
    <3>1. EndedIn(q, i, j, e, n, a)
      BY <1>1, <1>2, <2>1, <2>2 DEF InTurn
    <3> QED
      BY <1>1, <2>1, <2>2, <3>1, EndedAppend DEF r
  <2>3. CASE j = Len(q) + 1
    <3>1. EndedIn(q, i, Len(q) + 1, e, n, a)
      BY <1>1, <1>2, <2>1, <2>3 DEF WillEnd
    <3> QED
      BY <1>1, <2>1, <2>3, <3>1, EndedAppend DEF r
  <2> QED
    BY <1>1, <2>2, <2>3
<1>3. ASSUME NEW a \in Attempt \ left, NEW i \in 0..Len(r), Begins(s, r, i, e, n, a)
      PROVE  EndedIn(r, i, Len(r) + 1, e, n, a)
  <2>1. CASE Ends(ev, e, n, a)
    <3>1. i # Len(q) + 1
      BY <1>1, <1>3, <2>1, BeginsAppend DEF r, Starts, Ends
    <3>2. Len(r) \in (i + 1)..((Len(r) + 1) - 1)
      BY <1>1, <3>1
    <3> QED
      BY <1>1, <2>1, <3>2 DEF EndedIn
  <2>2. CASE a \notin open /\ ~Starts(ev, e, n, a)
    <3>1. i \in 0..Len(q) /\ Begins(s, q, i, e, n, a)
      BY <1>1, <1>3, <2>2, BeginsAppend DEF r
    <3>2. EndedIn(q, i, Len(q) + 1, e, n, a)
      BY <2>2, <3>1 DEF WillEnd
    <3> QED
      BY <1>1, <3>1, <3>2, EndedAppend DEF r
  <2> QED
    BY <2>1, <2>2
<1> QED
  BY <1>2, <1>3 DEF InTurn, WillEnd, r

LEMMA OrderPublish ==
    ASSUME NEW b \in BusValue(Event), NEW ev \in Event, NEW s, NEW e, NEW n,
           NEW open, NEW left, AttemptsInTurn(s, b, e, n, open),
           Follower(ev, e, n) => open = {},
           \A a \in Attempt \ left :
               Ends(ev, e, n, a) \/ (a \notin open /\ ~Starts(ev, e, n, a))
    PROVE  AttemptsInTurn(s, Publish(b, ev), e, n, left)
<1> DEFINE c == Publish(b, ev)
<1>1. b.queue \in Seq(Event)
  BY DEF BusValue
<1>2. CASE b.closed \/ b.overloaded
  BY <1>2 DEF Publish, Enqueue, Refused, AttemptsInTurn
<1>3. CASE ~b.closed /\ ~b.overloaded /\ Len(b.queue) >= Capacity
  <2>1. c.queue = <<RuntimeOverloaded>> /\ c.overloaded
    BY <1>3 DEF Publish, Enqueue, Refused, BusValue
  <2> HIDE DEF c
  <2>2. InTurn(s, c.queue, e, n)
    BY <2>1 DEF InTurn, Follower, FollowerType, RuntimeOverloaded, ExecEvent, TaskEvent
  <2> QED
    BY <2>1, <2>2 DEF AttemptsInTurn, c
<1>4. CASE ~b.closed /\ ~b.overloaded /\ ~(Len(b.queue) >= Capacity)
  <2>1. c.queue = Append(b.queue, ev)
    BY <1>4 DEF Publish, Enqueue, Refused, BusValue
  <2> HIDE DEF c
  <2>2. /\ InTurn(s, c.queue, e, n)
        /\ \A a \in Attempt \ left : WillEnd(s, c.queue, e, n, a)
    BY <1>1, <1>4, <2>1, OrderAppend DEF AttemptsInTurn
  <2> QED
    BY <2>2 DEF AttemptsInTurn, c
<1> QED
  BY <1>2, <1>3, <1>4

(***************************************************************************)
(* Taking the head off: the start of an attempt may be recorded, and an    *)
(* attempt whose end it is runs no more.                                   *)
(***************************************************************************)
HeadRecorded(s, t, ev, e, n) ==
    \A a \in Attempt : t.attempt[e][n][a] = "running" =>
        \/ s.attempt[e][n][a] = "running" /\ ~Ends(ev, e, n, a)
        \/ Starts(ev, e, n, a)

LEMMA EndedTail ==
    ASSUME NEW q \in Seq(Event), q # <<>>, NEW e, NEW n, NEW a,
           NEW i \in Nat, NEW j \in 0..(Len(q) + 1), EndedIn(q, i, j, e, n, a),
           i # 0 \/ ~Ends(q[1], e, n, a)
    PROVE  \A h \in {i - 1, i} : h >= 0 /\ (h = i => i = 0) =>
               EndedIn(Tail(q), h, j - 1, e, n, a)
<1>1. PICK k \in (i + 1)..(j - 1) : Ends(q[k], e, n, a)
  BY DEF EndedIn
<1>2. k \in 2..Len(q)
  BY <1>1
<1>3. Tail(q)[k - 1] = q[k]
  BY <1>2
<1>4. ASSUME NEW h \in {i - 1, i}, h >= 0, h = i => i = 0
      PROVE  k - 1 \in (h + 1)..((j - 1) - 1)
  BY <1>1, <1>2, <1>4
<1> QED
  BY <1>1, <1>3, <1>4 DEF EndedIn

LEMMA OrderTail ==
    ASSUME NEW q \in Seq(Event), q # <<>>, NEW s, NEW t, NEW e, NEW n, NEW open,
           InTurn(s, q, e, n), HeadRecorded(s, t, q[1], e, n)
    PROVE  /\ InTurn(t, Tail(q), e, n)
           /\ (\A a \in Attempt \ open : WillEnd(s, q, e, n, a)) =>
                 \A a \in Attempt \ open : WillEnd(t, Tail(q), e, n, a)
<1> DEFINE r == Tail(q)
<1>1. /\ r \in Seq(Event) /\ Len(q) \in Nat \ {0} /\ Len(r) = Len(q) - 1
      /\ \A k \in 1..Len(r) : r[k] = q[k + 1]
  OBVIOUS
<1> HIDE DEF r
(* What begins at a place of the tail begins one place later in the queue, or is recorded. *)
<1>2. ASSUME NEW a \in Attempt, NEW i \in 0..Len(r), Begins(t, r, i, e, n, a)
      PROVE  \/ Begins(s, q, i + 1, e, n, a)
             \/ i = 0 /\ Begins(s, q, 0, e, n, a) /\ ~Ends(q[1], e, n, a)
  <2>1. CASE i = 0
    BY <1>2, <2>1 DEF Begins, HeadRecorded
  <2>2. CASE i # 0
    BY <1>1, <1>2, <2>2 DEF Begins
  <2> QED
    BY <2>1, <2>2
<1>3. ASSUME NEW a \in Attempt, NEW i \in 0..Len(r), Begins(t, r, i, e, n, a),
             NEW j \in 1..(Len(q) + 1), i < j - 1,
             \A h \in 0..(j - 1) : Begins(s, q, h, e, n, a) => EndedIn(q, h, j, e, n, a)
      PROVE  EndedIn(r, i, j - 1, e, n, a)
  <2>1. CASE Begins(s, q, i + 1, e, n, a)
    <3>1. EndedIn(q, i + 1, j, e, n, a)
      BY <1>3, <2>1
    <3>2. i + 1 \in Nat /\ i + 1 # 0 /\ i = (i + 1) - 1 /\ i >= 0
      OBVIOUS
    <3> QED
      BY <1>1, <1>3, <3>1, <3>2, EndedTail DEF r
  <2>2. CASE i = 0 /\ Begins(s, q, 0, e, n, a) /\ ~Ends(q[1], e, n, a)
    <3>1. EndedIn(q, 0, j, e, n, a)
      BY <1>3, <2>2
    <3> QED
      BY <1>1, <1>3, <2>2, <3>1, EndedTail DEF r
  <2> QED
    BY <1>2, <1>3, <2>1, <2>2
<1>4. ASSUME NEW j \in 1..Len(r), Follower(r[j], e, n), NEW i \in 0..(j - 1),
             NEW a \in Attempt, Begins(t, r, i, e, n, a)
      PROVE  EndedIn(r, i, j, e, n, a)
  <2>1. j + 1 \in 1..Len(q) /\ Follower(q[j + 1], e, n)
    BY <1>1, <1>4
  <2>2. \A h \in 0..((j + 1) - 1) : Begins(s, q, h, e, n, a) => EndedIn(q, h, j + 1, e, n, a)
    BY <2>1 DEF InTurn
  <2>3. i \in 0..Len(r) /\ i < (j + 1) - 1 /\ (j + 1) - 1 = j /\ j + 1 \in 1..(Len(q) + 1)
    BY <1>1
  <2> QED
    BY <1>3, <1>4, <2>2, <2>3
<1>5. ASSUME NEW a \in Attempt \ open, WillEnd(s, q, e, n, a),
             NEW i \in 0..Len(r), Begins(t, r, i, e, n, a)
      PROVE  EndedIn(r, i, Len(r) + 1, e, n, a)
  <2>1. \A h \in 0..((Len(q) + 1) - 1) : Begins(s, q, h, e, n, a) =>
            EndedIn(q, h, Len(q) + 1, e, n, a)
    BY <1>1, <1>5 DEF WillEnd
  <2>2. i < (Len(q) + 1) - 1 /\ (Len(q) + 1) - 1 = Len(r) + 1 /\ Len(q) + 1 \in 1..(Len(q) + 1)
    BY <1>1
  <2> QED
    BY <1>3, <1>5, <2>1, <2>2
<1> QED
  BY <1>4, <1>5 DEF InTurn, WillEnd, r

LEMMA OrderRemaining ==
    ASSUME bus \in BusValue(Event), bus.queue # <<>>, NEW s, NEW t, NEW e, NEW n, NEW open,
           AttemptsInTurn(s, bus, e, n, open), HeadRecorded(s, t, HeadEvent, e, n)
    PROVE  AttemptsInTurn(t, Remaining, e, n, open)
<1>1. /\ bus.queue \in Seq(Event) /\ HeadEvent = bus.queue[1]
      /\ Remaining.queue = Tail(bus.queue)
      /\ Remaining.overloaded = bus.overloaded /\ Remaining.closed = bus.closed
  BY DEF BusValue, HeadEvent, Remaining
<1>2. HeadRecorded(s, t, bus.queue[1], e, n) /\ InTurn(s, bus.queue, e, n)
  BY <1>1 DEF AttemptsInTurn
<1> DEFINE q == bus.queue
           r == Tail(q)
<1>3. q \in Seq(Event) /\ q # <<>>
  BY <1>1
<1> HIDE DEF q
<1>4. /\ InTurn(t, r, e, n)
      /\ (\A a \in Attempt \ open : WillEnd(s, q, e, n, a)) =>
            \A a \in Attempt \ open : WillEnd(t, r, e, n, a)
  BY <1>2, <1>3, OrderTail DEF q
<1>5. Remaining.queue = r
  BY <1>1 DEF q
<1> HIDE DEF r
<1> QED
  BY <1>1, <1>4, <1>5 DEF AttemptsInTurn, q

(* Before a follower of the node at the head nothing runs. *)
LEMMA HeadFollows ==
    ASSUME bus \in BusValue(Event), bus.queue # <<>>, NEW s, NEW e, NEW n, NEW open,
           AttemptsInTurn(s, bus, e, n, open), Follower(HeadEvent, e, n)
    PROVE  NoneRuns(s, e, n)
<1>1. /\ bus.queue \in Seq(Event) /\ HeadEvent = bus.queue[1] /\ 1 \in 1..Len(bus.queue)
  BY DEF BusValue, HeadEvent
<1>2. \A a \in Attempt : Begins(s, bus.queue, 0, e, n, a) =>
         EndedIn(bus.queue, 0, 1, e, n, a)
  BY <1>1 DEF AttemptsInTurn, InTurn
<1> QED
  BY <1>2 DEF EndedIn, Begins, NoneRuns

(* The events that do not matter to the order of node n of e. *)
LEMMA OrderOther ==
    ASSUME NEW b \in BusValue(Event), NEW ev \in Event, NEW s, NEW e, NEW n, NEW open,
           AttemptsInTurn(s, b, e, n, open), ~Follower(ev, e, n)
    PROVE  AttemptsInTurn(s, Publish(b, ev), e, n, open)
<1>1. \A a \in Attempt : ~Starts(ev, e, n, a)
  BY DEF Starts, Follower, FollowerType
<1> QED
  BY <1>1, OrderPublish

-----------------------------------------------------------------------------
(***************************************************************************)
(* The engine takes the head event.  Where no save fails, memory and       *)
(* snapshot agree on the attempts afterwards, an attempt that runs is the  *)
(* active one, and only events that are no followers are published.        *)
(***************************************************************************)
OtherEvent == {ev \in Event : ev.type \notin FollowerType}

AddsOthers(b, c) ==
    \/ c = b
    \/ \E ev \in OtherEvent : c = Publish(b, ev)
    \/ \E ev, last \in OtherEvent : c = Publish(Publish(b, ev), last)

Turn(s) ==
    \A e \in Execs : \A n \in Node :
        /\ HeadRecorded(eng, s, HeadEvent, e, n)
        /\ ActiveRuns(s, e, n)
        /\ s.status[e] \in {"absent", "interrupted"} => NoneRuns(s, e, n)

Taken ==
    /\ Turn(eng')
    /\ AddsOthers(Remaining, bus')
    /\ disk'.attempt = eng'.attempt /\ disk'.active = eng'.active
    /\ ~restartRequired'

LEMMA OthersKeepOrder ==
    ASSUME NEW b \in BusValue(Event), NEW c, AddsOthers(b, c),
           NEW s, NEW e, NEW n, NEW open, AttemptsInTurn(s, b, e, n, open)
    PROVE  AttemptsInTurn(s, c, e, n, open)
<1>1. ASSUME NEW ev \in OtherEvent
      PROVE  ev \in Event /\ ~Follower(ev, e, n)
  BY <1>1 DEF OtherEvent, Follower
<1>2. ASSUME NEW ev \in OtherEvent
      PROVE  /\ AttemptsInTurn(s, Publish(b, ev), e, n, open)
             /\ Publish(b, ev) \in BusValue(Event)
  BY <1>1, <1>2, OrderOther, PublishType
<1>3. ASSUME NEW ev \in OtherEvent, NEW last \in OtherEvent
      PROVE  AttemptsInTurn(s, Publish(Publish(b, ev), last), e, n, open)
  <2> DEFINE d == Publish(b, ev)
  <2>1. d \in BusValue(Event) /\ AttemptsInTurn(s, d, e, n, open)
    BY <1>2, <1>3
  <2> HIDE DEF d
  <2>2. AttemptsInTurn(s, Publish(d, last), e, n, open)
    BY <1>1, <1>3, <2>1, OrderOther
  <2> QED
    BY <2>2 DEF d
<1> QED
  BY <1>2, <1>3 DEF AddsOthers

LEMMA NoSaveFailed ==
    ASSUME TypeOK, faults' = 0, NEW s, NEW x, NEW m, NEW b, SaveFailed(s, x, m, b)
    PROVE  FALSE
  BY EngineAssumption DEF EngineAssumption, TypeOK, StateTypeOK, SaveFailed

LEMMA SavedTaken ==
    ASSUME TypeOK, AttemptsOrdered, faults' = 0, NEW s, NEW b, Turn(s), AddsOthers(Remaining, b),
           NEW t, NEW x, NEW m, NEW c, Saved(s, b) \/ SaveFailed(t, x, m, c)
    PROVE  Taken
  BY NoSaveFailed DEF Saved, Taken, AttemptsOrdered

(* A handler that leaves the attempts as they are. *)
LEMMA MovedTurn ==
    ASSUME AttemptsOrdered, HeadEvent.type # "AttemptFinished", NEW s,
           s.attempt = eng.attempt,
           \A e \in Execs : \A n \in Node :
               s.active[e][n] = eng.active[e][n] \/ NoneRuns(eng, e, n),
           \A e \in Execs : s.status[e] \in {"absent", "interrupted"} =>
               eng.status[e] \in {"absent", "interrupted"}
    PROVE  Turn(s)
<1> SUFFICES ASSUME NEW e \in Execs, NEW n \in Node
             PROVE  /\ HeadRecorded(eng, s, HeadEvent, e, n)
                    /\ ActiveRuns(s, e, n)
                    /\ s.status[e] \in {"absent", "interrupted"} => NoneRuns(s, e, n)
  BY DEF Turn
<1>1. HeadRecorded(eng, s, HeadEvent, e, n)
  BY DEF HeadRecorded, Ends
<1>2. ActiveRuns(s, e, n)
  BY DEF AttemptsOrdered, ActiveRuns, NoneRuns
<1>3. s.status[e] \in {"absent", "interrupted"} => NoneRuns(s, e, n)
  BY DEF AttemptsOrdered, NoneRuns
<1> QED
  BY <1>1, <1>2, <1>3

LEMMA SameTurn ==
    ASSUME AttemptsOrdered, HeadEvent.type # "AttemptFinished", NEW s,
           s.attempt = eng.attempt, s.active = eng.active,
           \A e \in Execs : s.status[e] \in {"absent", "interrupted"} =>
               eng.status[e] \in {"absent", "interrupted"}
    PROVE  Turn(s)
  BY MovedTurn

LEMMA DroppedTaken ==
    ASSUME AttemptsOrdered, Dropped,
           \/ HeadEvent.type # "AttemptFinished"
           \/ HeadEvent.exec \in Execs /\ eng.status[HeadEvent.exec] = "absent"
    PROVE  Taken
<1>1. eng' = eng /\ disk' = disk /\ bus' = Remaining /\ restartRequired' = restartRequired
  BY DEF Dropped, Unsaved
<1>2. Turn(eng)
  <2>1. CASE HeadEvent.type # "AttemptFinished"
    BY <2>1, SameTurn
  <2>2. CASE HeadEvent.exec \in Execs /\ eng.status[HeadEvent.exec] = "absent"
    BY <2>2 DEF AttemptsOrdered, Turn, HeadRecorded, NoneRuns, Ends
  <2> QED
    BY <2>1, <2>2
<1> QED
  BY <1>1, <1>2 DEF Taken, AddsOthers, AttemptsOrdered, SameAttempts

LEMMA OtherExecEvent ==
    ASSUME NEW t \in EventType \ (TaskType \cup AttemptType), NEW e \in Execs,
           NEW x \in EventArg
    PROVE  ExecEvent(t, e, x) \in OtherEvent
<1>1. ExecEvent(t, e, x).type = t
  BY DEF ExecEvent, TaskEvent
<1>2. t \notin FollowerType
  BY DEF FollowerType, TaskType, AttemptType
<1> QED
  BY <1>1, <1>2, ExecEventType DEF OtherEvent

LEMMA PropagatedOthers ==
    ASSUME NEW e \in Execs, NEW t \in {"ExecutionKilled", "ExecutionPaused", "ExecutionResumed"}
    PROVE  AddsOthers(Remaining, Propagated(t, e))
<1>1. CASE CompileOf[e] = NoExec
  BY <1>1 DEF Propagated, AddsOthers
<1>2. CASE CompileOf[e] # NoExec
  <2>1. CompileOf[e] \in Execs
    BY <1>2, BusAssumption DEF BusAssumption
  <2>2. /\ t \in EventType \ (TaskType \cup AttemptType)
        /\ "none" \in EventArg
    BY DEF EventType, TaskType, AttemptType, EventArg
  <2>3. ExecEvent(t, CompileOf[e], "none") \in OtherEvent
    BY <2>1, <2>2, OtherExecEvent
  <2> QED
    BY <1>2, <2>3 DEF Propagated, AddsOthers
<1> QED
  BY <1>1, <1>2

(* One entry of the record of the attempts. *)
LEMMA AttemptPut ==
    ASSUME eng \in EngineState, NEW e \in Execs, NEW n \in Node, NEW a \in Attempt, NEW x
    PROVE  \A f \in Execs : \A m \in Node : \A b \in Attempt :
              [eng.attempt EXCEPT ![e][n][a] = x][f][m][b] =
                  IF f = e /\ m = n /\ b = a THEN x ELSE eng.attempt[f][m][b]
<1>1. eng.attempt \in [Execs -> [Node -> [Attempt -> AttemptState]]]
  BY DEF EngineState
<1> QED
  BY <1>1

LEMMA ActivePut ==
    ASSUME eng \in EngineState, NEW e \in Execs, NEW n \in Node, NEW x
    PROVE  \A f \in Execs : \A m \in Node :
              [eng.active EXCEPT ![e][n] = x][f][m] =
                  IF f = e /\ m = n THEN x ELSE eng.active[f][m]
<1>1. eng.active \in [Execs -> [Node -> 0..MaxAttempts]]
  BY DEF EngineState
<1> QED
  BY <1>1

(* Before a follower at the head, and in an execution that does not run. *)
LEMMA HeadNoneRuns ==
    ASSUME TypeOK, AttemptsOrdered, NEW t \in FollowerType, Delivers(t),
           NEW e \in Execs, NEW n \in Node, e = HeadEvent.exec, n = HeadEvent.node
    PROVE  NoneRuns(eng, e, n)
<1>1. bus.queue # <<>> /\ Follower(HeadEvent, e, n)
  BY DEF Delivers, Follower
<1>2. AttemptsInTurn(eng, bus, e, n, Open(task[e][n]))
  BY DEF AttemptsOrdered
<1> QED
  BY <1>1, <1>2, HeadFollows DEF TypeOK

LEMMA AttemptStartedTaken ==
    ASSUME TypeOK, AttemptsOrdered, HandleAttemptStarted, faults' = 0
    PROVE  Taken
<1>1. PICK e \in Execs, n \in Node, a \in Attempt :
         e = HeadEvent.exec /\ n = HeadEvent.node /\ a = HeadEvent.attempt
  BY HeadTask, HeadAttempt DEF HandleAttemptStarted, Handling, TypeOK, AttemptType
<1> DEFINE s == [eng EXCEPT !.attempt[e][n][a] = "running", !.active[e][n] = a]
<1>2. /\ Delivers("AttemptStarted")
      /\ \/ Dropped
         \/ /\ eng.status[e] = "running"
            /\ Saved(s, Remaining) \/ SaveFailed(s, NoExec, 0, Remaining)
  BY <1>1 DEF HandleAttemptStarted, Handling
<1>3. HeadEvent.type = "AttemptStarted"
  BY <1>2 DEF Delivers
<1>4. CASE Dropped
  BY <1>3, <1>4, DroppedTaken
<1>5. CASE /\ eng.status[e] = "running"
           /\ Saved(s, Remaining) \/ SaveFailed(s, NoExec, 0, Remaining)
  <2>1. eng \in EngineState
    BY DEF TypeOK, StateTypeOK
  <2>2. /\ s.attempt = [eng.attempt EXCEPT ![e][n][a] = "running"]
        /\ s.active = [eng.active EXCEPT ![e][n] = a]
        /\ s.status = eng.status
    BY <2>1 DEF EngineState
  <2> HIDE DEF s
  <2>3. \A f \in Execs : \A m \in Node : \A b \in Attempt :
           s.attempt[f][m][b] = IF f = e /\ m = n /\ b = a THEN "running"
                                ELSE eng.attempt[f][m][b]
    BY <2>1, <2>2, AttemptPut
  <2>4. \A f \in Execs : \A m \in Node :
           s.active[f][m] = IF f = e /\ m = n THEN a ELSE eng.active[f][m]
    BY <2>1, <2>2, ActivePut
  <2>5. NoneRuns(eng, e, n)
    BY <1>1, <1>2, HeadNoneRuns DEF FollowerType
  <2>6. ASSUME NEW f \in Execs, NEW m \in Node
        PROVE  /\ HeadRecorded(eng, s, HeadEvent, f, m)
               /\ ActiveRuns(s, f, m)
               /\ s.status[f] \in {"absent", "interrupted"} => NoneRuns(s, f, m)
    <3>1. HeadRecorded(eng, s, HeadEvent, f, m)
      BY <1>1, <1>3, <2>3 DEF HeadRecorded, Starts, Ends
    <3>2. ActiveRuns(s, f, m)
      BY <2>3, <2>4, <2>5 DEF AttemptsOrdered, ActiveRuns, NoneRuns
    <3>3. s.status[f] \in {"absent", "interrupted"} => NoneRuns(s, f, m)
      BY <1>5, <2>2, <2>3 DEF AttemptsOrdered, NoneRuns
    <3> QED
      BY <3>1, <3>2, <3>3
  <2>7. Turn(s)
    BY <2>6 DEF Turn
  <2> QED
    BY <1>5, <2>7, SavedTaken DEF AddsOthers
<1> QED
  BY <1>2, <1>4, <1>5

LEMMA AttemptFinishedTaken ==
    ASSUME TypeOK, AttemptsOrdered, HandleAttemptFinished, faults' = 0
    PROVE  Taken
<1>1. PICK e \in Execs, n \in Node, a \in Attempt :
         e = HeadEvent.exec /\ n = HeadEvent.node /\ a = HeadEvent.attempt
  BY HeadTask, HeadAttempt DEF HandleAttemptFinished, Handling, TypeOK, AttemptType
<1> DEFINE x == IF eng.attempt[e][n][a] = "running" THEN HeadEvent.arg
                ELSE eng.attempt[e][n][a]
           s == [eng EXCEPT !.attempt[e][n][a] = IF @ = "running" THEN HeadEvent.arg ELSE @]
<1>2. /\ Delivers("AttemptFinished")
      /\ \/ Dropped /\ eng.status[e] = "absent"
         \/ Saved(s, Remaining) \/ SaveFailed(s, NoExec, 0, Remaining)
  BY <1>1 DEF HandleAttemptFinished, Handling
<1>3. CASE Dropped /\ eng.status[e] = "absent"
  BY <1>1, <1>3, DroppedTaken
<1>4. CASE Saved(s, Remaining) \/ SaveFailed(s, NoExec, 0, Remaining)
  <2>1. eng \in EngineState
    BY DEF TypeOK, StateTypeOK
  <2>2. x # "running"
    <3>1. HeadEvent \in Event /\ HeadEvent.type = "AttemptFinished"
      BY <1>2, RemainingType DEF Delivers, TypeOK
    <3>2. HeadEvent.arg \in {"succeeded", "failed"}
      BY <3>1 DEF Event
    <3> QED
      BY <3>2
  <2>3. /\ s.attempt = [eng.attempt EXCEPT ![e][n][a] = x]
        /\ s.active = eng.active /\ s.status = eng.status
    BY <2>1 DEF EngineState
  <2> HIDE DEF s
  <2> DEFINE record == [eng.attempt EXCEPT ![e][n][a] = x]
  <2> HIDE DEF x
  <2>4. \A f \in Execs : \A m \in Node : \A b \in Attempt :
           record[f][m][b] = IF f = e /\ m = n /\ b = a THEN x ELSE eng.attempt[f][m][b]
    <3>1. eng.attempt \in [Execs -> [Node -> [Attempt -> AttemptState]]]
      BY <2>1 DEF EngineState
    <3> QED
      BY ONLY <3>1
  <2>5. s.attempt = record
    BY <2>3
  <2> HIDE DEF record
  <2>6. \A f \in Execs : \A m \in Node : \A b \in Attempt :
           s.attempt[f][m][b] = IF f = e /\ m = n /\ b = a THEN x ELSE eng.attempt[f][m][b]
    BY <2>4, <2>5
  <2>7. ASSUME NEW f \in Execs, NEW m \in Node
        PROVE  /\ HeadRecorded(eng, s, HeadEvent, f, m)
               /\ ActiveRuns(s, f, m)
               /\ s.status[f] \in {"absent", "interrupted"} => NoneRuns(s, f, m)
    <3>1. HeadRecorded(eng, s, HeadEvent, f, m)
      BY <1>1, <2>2, <2>6 DEF HeadRecorded, Ends
    <3>2. ActiveRuns(s, f, m)
      BY <2>2, <2>3, <2>6 DEF AttemptsOrdered, ActiveRuns
    <3>3. s.status[f] \in {"absent", "interrupted"} => NoneRuns(s, f, m)
      BY <2>2, <2>3, <2>6 DEF AttemptsOrdered, NoneRuns
    <3> QED
      BY <3>1, <3>2, <3>3
  <2>8. Turn(s)
    BY <2>7 DEF Turn
  <2> QED
    BY <1>4, <2>8, SavedTaken DEF AddsOthers
<1> QED
  BY <1>2, <1>3, <1>4

LEMMA OverloadedTaken ==
    ASSUME TypeOK, AttemptsOrdered, HandleOverloaded, faults' = 0
    PROVE  Taken
<1> DEFINE hit == {e \in Execs : eng.status[e] \in Live}
           status == [e \in Execs |-> IF e \in hit THEN "failed" ELSE eng.status[e]]
           s == [eng EXCEPT
                   !.status = [e \in Execs |-> IF e \in hit THEN "failed" ELSE @[e]],
                   !.cancelled = @ \cup hit,
                   !.node = [e \in Execs |-> [n \in Node |->
                               IF e \in hit /\ @[e][n] \notin {"done", "absent"}
                               THEN "failed" ELSE @[e][n]]]]
<1>1. /\ HeadEvent.type = "RuntimeOverloaded"
      /\ Saved(s, Remaining) \/ SaveFailed(s, NoExec, 0, Remaining)
  BY DEF HandleOverloaded, Handling, Delivers
<1>2. /\ s.attempt = eng.attempt /\ s.active = eng.active
      /\ s.status = status
  BY DEF TypeOK, StateTypeOK, EngineState
<1> HIDE DEF s
<1>3. \A e \in Execs : s.status[e] \in {"absent", "interrupted"} =>
         eng.status[e] \in {"absent", "interrupted"}
  BY <1>2
<1>4. Turn(s)
  BY <1>1, <1>2, <1>3, SameTurn
<1> QED
  BY <1>1, <1>4, SavedTaken DEF AddsOthers

LEMMA GraphMutationTaken ==
    ASSUME TypeOK, AttemptsOrdered, HandleGraphMutation, faults' = 0
    PROVE  Taken
<1> DEFINE e == HeadEvent.exec
           n == HeadEvent.node
           k == IF HeadEvent.arg = "return" THEN 2 ELSE 1
           s == Grown(eng, e, n, k)
<1>1. /\ HeadEvent.type = "GraphMutationRequested"
      /\ Saved(s, Remaining) \/ SaveFailed(eng, e, n, Remaining) \/ Dropped
  BY DEF HandleGraphMutation, Handling, Delivers
<1>2. s.attempt = eng.attempt /\ s.active = eng.active /\ s.status = eng.status
  BY DEF TypeOK, StateTypeOK, EngineState, Grown
<1> HIDE DEF s
<1>3. Turn(s)
  BY <1>1, <1>2, SameTurn
<1> QED
  BY <1>1, <1>3, SavedTaken, DroppedTaken DEF AddsOthers

LEMMA ArtifactTaken ==
    ASSUME TypeOK, AttemptsOrdered, HandleArtifact, faults' = 0
    PROVE  Taken
<1> DEFINE e == HeadEvent.exec
           n == HeadEvent.node
           s == [eng EXCEPT !.artifact[e] = @ \cup {n}]
<1>1. /\ HeadEvent.type = "ArtifactStored"
      /\ Saved(s, Remaining) \/ SaveFailed(s, e, n, Remaining) \/ Dropped
  BY DEF HandleArtifact, Handling, Delivers
<1>2. s.attempt = eng.attempt /\ s.active = eng.active /\ s.status = eng.status
  BY DEF TypeOK, StateTypeOK, EngineState
<1> HIDE DEF s
<1>3. Turn(s)
  BY <1>1, <1>2, SameTurn
<1> QED
  BY <1>1, <1>3, SavedTaken, DroppedTaken DEF AddsOthers

LEMMA WorkerCompletedTaken ==
    ASSUME TypeOK, AttemptsOrdered, HandleWorkerCompleted, faults' = 0
    PROVE  Taken
<1>1. PICK e \in Execs, n \in Node : e = HeadEvent.exec /\ n = HeadEvent.node
  BY HeadTask DEF HandleWorkerCompleted, Handling, TypeOK, AttemptType
<1> DEFINE d == [eng EXCEPT !.node[e][n] = "done"]
           s == [d EXCEPT !.active[e][n] = 0]
<1>2. /\ Delivers("WorkerCompleted")
      /\ Saved(s, Remaining) \/ SaveFailed(d, e, n, Remaining) \/ Dropped
  BY <1>1 DEF HandleWorkerCompleted, Handling
<1>3. eng \in EngineState
  BY DEF TypeOK, StateTypeOK
<1>4. /\ s.attempt = eng.attempt /\ s.status = eng.status
      /\ s.active = [eng.active EXCEPT ![e][n] = 0]
  BY <1>3 DEF EngineState
<1> HIDE DEF s, d
<1>5. NoneRuns(eng, e, n)
  BY <1>1, <1>2, HeadNoneRuns DEF FollowerType
<1>6. \A f \in Execs : \A m \in Node :
         s.active[f][m] = IF f = e /\ m = n THEN 0 ELSE eng.active[f][m]
  BY <1>3, <1>4, ActivePut
<1>7. HeadEvent.type # "AttemptFinished"
  BY <1>2 DEF Delivers
<1>8. Turn(s)
  <2>1. \A f \in Execs : \A m \in Node :
           s.active[f][m] = eng.active[f][m] \/ NoneRuns(eng, f, m)
    BY <1>5, <1>6
  <2> QED
    BY <1>4, <1>7, <2>1, MovedTurn
<1> QED
  BY <1>2, <1>7, <1>8, SavedTaken, DroppedTaken DEF AddsOthers

LEMMA WorkerFailedTaken ==
    ASSUME TypeOK, AttemptsOrdered, HandleWorkerFailed, faults' = 0
    PROVE  Taken
<1>1. PICK e \in Execs, n \in Node : e = HeadEvent.exec /\ n = HeadEvent.node
  BY HeadTask DEF HandleWorkerFailed, Handling, TypeOK, TaskType
<1> DEFINE s == [eng EXCEPT
                   !.status[e] = "failed",
                   !.active[e][n] = 0,
                   !.node[e] = [m \in Node |-> IF m = n THEN "failed"
                                               ELSE IF @[m] = "pending" THEN "blocked"
                                               ELSE @[m]]]
           killed == ExecEvent("ExecutionKilled", e, "none")
           failed == ExecEvent("WorkflowFailed", e, "none")
           b == Publish(Remaining, killed)
           c == Publish(b, failed)
<1>2. /\ Delivers("WorkerFailed")
      /\ Saved(s, c) \/ SaveFailed(s, e, n, b) \/ Dropped
  BY <1>1 DEF HandleWorkerFailed, Handling
<1>3. eng \in EngineState
  BY DEF TypeOK, StateTypeOK
<1>4. /\ s.attempt = eng.attempt
      /\ s.status = [eng.status EXCEPT ![e] = "failed"]
      /\ s.active = [eng.active EXCEPT ![e][n] = 0]
  BY <1>3 DEF EngineState
<1> HIDE DEF s
<1>5. NoneRuns(eng, e, n)
  BY <1>1, <1>2, HeadNoneRuns DEF FollowerType
<1>6. \A f \in Execs : \A m \in Node :
         s.active[f][m] = IF f = e /\ m = n THEN 0 ELSE eng.active[f][m]
  BY <1>3, <1>4, ActivePut
<1>7. \A f \in Execs : s.status[f] \in {"absent", "interrupted"} =>
         eng.status[f] \in {"absent", "interrupted"}
  BY <1>3, <1>4 DEF EngineState
<1>8. HeadEvent.type # "AttemptFinished"
  BY <1>2 DEF Delivers
<1>9. Turn(s)
  <2>1. \A f \in Execs : \A m \in Node :
           s.active[f][m] = eng.active[f][m] \/ NoneRuns(eng, f, m)
    BY <1>5, <1>6
  <2> QED
    BY <1>4, <1>7, <1>8, <2>1, MovedTurn
<1>10. AddsOthers(Remaining, c)
  <2>1. /\ {"ExecutionKilled", "WorkflowFailed"} \subseteq EventType \ (TaskType \cup AttemptType)
        /\ "none" \in EventArg
    BY DEF EventType, TaskType, AttemptType, EventArg
  <2>2. killed \in OtherEvent /\ failed \in OtherEvent
    BY <2>1, OtherExecEvent
  <2> HIDE DEF killed, failed
  <2> QED
    BY <2>2 DEF AddsOthers
<1> HIDE DEF b, c
<1> QED
  BY <1>2, <1>8, <1>9, <1>10, SavedTaken, DroppedTaken

LEMMA KilledTaken ==
    ASSUME TypeOK, AttemptsOrdered, HandleKilled, faults' = 0
    PROVE  Taken
<1>1. PICK e \in Execs : e = HeadEvent.exec
  BY HeadExec DEF HandleKilled, Handling, TypeOK, EventType, RuntimeType
<1> DEFINE x == IF eng.status[e] \in Live THEN "cancelled" ELSE eng.status[e]
           s == [eng EXCEPT
                   !.cancelled = @ \cup ({e, CompileOf[e]} \ {NoExec}),
                   !.status[e] = IF @ \in Live THEN "cancelled" ELSE @,
                   !.node[e] = Blocked(@)]
           b == Propagated("ExecutionKilled", e)
<1>2. /\ HeadEvent.type = "ExecutionKilled"
      /\ Saved(s, b) \/ SaveFailed(s, e, 0, b)
  BY <1>1 DEF HandleKilled, Handling, Delivers
<1>3. /\ s.attempt = eng.attempt /\ s.active = eng.active
      /\ s.status = [eng.status EXCEPT ![e] = x]
      /\ eng.status \in [Execs -> ExecStatus]
  BY DEF TypeOK, StateTypeOK, EngineState
<1> HIDE DEF s
<1>4. \A f \in Execs : s.status[f] \in {"absent", "interrupted"} =>
         eng.status[f] \in {"absent", "interrupted"}
  BY <1>3
<1>5. Turn(s)
  BY <1>2, <1>3, <1>4, SameTurn
<1>6. AddsOthers(Remaining, b)
  BY PropagatedOthers
<1> HIDE DEF b
<1> QED
  BY <1>2, <1>5, <1>6, SavedTaken

LEMMA PausedTaken ==
    ASSUME TypeOK, AttemptsOrdered, HandlePaused, faults' = 0
    PROVE  Taken
<1>1. PICK e \in Execs : e = HeadEvent.exec
  BY HeadExec DEF HandlePaused, Handling, TypeOK, EventType, RuntimeType
<1> DEFINE x == IF eng.status[e] = "running" THEN "paused" ELSE eng.status[e]
           s == [eng EXCEPT !.paused = @ \cup {e},
                            !.status[e] = IF @ = "running" THEN "paused" ELSE @]
           b == Propagated("ExecutionPaused", e)
<1>2. /\ HeadEvent.type = "ExecutionPaused"
      /\ Saved(s, b) \/ SaveFailed(s, e, 0, b)
  BY <1>1 DEF HandlePaused, Handling, Delivers
<1>3. /\ s.attempt = eng.attempt /\ s.active = eng.active
      /\ s.status = [eng.status EXCEPT ![e] = x]
      /\ eng.status \in [Execs -> ExecStatus]
  BY DEF TypeOK, StateTypeOK, EngineState
<1> HIDE DEF s
<1>4. \A f \in Execs : s.status[f] \in {"absent", "interrupted"} =>
         eng.status[f] \in {"absent", "interrupted"}
  BY <1>3
<1>5. Turn(s)
  BY <1>2, <1>3, <1>4, SameTurn
<1>6. AddsOthers(Remaining, b)
  BY PropagatedOthers
<1> HIDE DEF b
<1> QED
  BY <1>2, <1>5, <1>6, SavedTaken

LEMMA ResumedTaken ==
    ASSUME TypeOK, AttemptsOrdered, HandleResumed, faults' = 0
    PROVE  Taken
<1>1. PICK e \in Execs : e = HeadEvent.exec
  BY HeadExec DEF HandleResumed, Handling, TypeOK, EventType, RuntimeType
<1> DEFINE d == [eng EXCEPT !.paused = @ \ {e}]
           s == [d EXCEPT !.status[e] = "running"]
           b == Propagated("ExecutionResumed", e)
<1>2. /\ HeadEvent.type = "ExecutionResumed"
      /\ \/ Saved(s, b) \/ SaveFailed(d, e, 0, b)
         \/ eng' = d /\ bus' = b /\ Unsaved
  BY <1>1 DEF HandleResumed, Handling, Delivers
<1>3. /\ s.attempt = eng.attempt /\ s.active = eng.active
      /\ s.status = [eng.status EXCEPT ![e] = "running"]
      /\ d.attempt = eng.attempt /\ d.active = eng.active /\ d.status = eng.status
      /\ eng.status \in [Execs -> ExecStatus]
  BY DEF TypeOK, StateTypeOK, EngineState
<1> HIDE DEF s, d
<1>4. \A f \in Execs : s.status[f] \in {"absent", "interrupted"} =>
         eng.status[f] \in {"absent", "interrupted"}
  BY <1>3
<1>5. Turn(s)
  BY <1>2, <1>3, <1>4, SameTurn
<1>6. Turn(d)
  BY <1>2, <1>3, SameTurn
<1>7. AddsOthers(Remaining, b)
  BY PropagatedOthers
<1> HIDE DEF b
<1>8. CASE Saved(s, b) \/ SaveFailed(d, e, 0, b)
  BY <1>5, <1>7, <1>8, SavedTaken
<1>9. CASE eng' = d /\ bus' = b /\ Unsaved
  BY <1>3, <1>6, <1>7, <1>9 DEF Taken, Unsaved, AttemptsOrdered, SameAttempts
<1> QED
  BY <1>2, <1>8, <1>9

LEMMA ReconciledTaken ==
    ASSUME TypeOK, AttemptsOrdered, HandleReconciled, faults' = 0
    PROVE  Taken
<1>1. PICK e \in Execs : e = HeadEvent.exec
  BY HeadExec DEF HandleReconciled, Handling, TypeOK, EventType, RuntimeType
<1> DEFINE again(m) == eng.node[e][m] = "interrupted"
           active == [m \in Node |-> IF again(m) THEN 0 ELSE eng.active[e][m]]
           x == IF HeadEvent.arg = "cancel" THEN "cancelled" ELSE "failed"
           s == [eng EXCEPT
                   !.status[e] = "running",
                   !.node[e] = [m \in Node |-> IF again(m) THEN "pending" ELSE @[m]],
                   !.active[e] = [m \in Node |-> IF again(m) THEN 0 ELSE @[m]]]
           t == [eng EXCEPT
                   !.status[e] = IF HeadEvent.arg = "cancel" THEN "cancelled" ELSE "failed",
                   !.node[e] = Blocked(@)]
<1>2. /\ HeadEvent.type = "ExecutionReconciled"
      /\ \/ Dropped
         \/ /\ eng.status[e] = "interrupted"
            /\ \/ Saved(s, Remaining) \/ SaveFailed(eng, e, 0, Remaining)
               \/ Saved(t, Remaining) \/ SaveFailed(t, e, 0, Remaining)
  BY <1>1 DEF HandleReconciled, Handling, Delivers
<1>3. eng \in EngineState
  BY DEF TypeOK, StateTypeOK
<1>4. /\ s.attempt = eng.attempt
      /\ s.active = [eng.active EXCEPT ![e] = active]
      /\ s.status = [eng.status EXCEPT ![e] = "running"]
  BY <1>3 DEF EngineState
<1>5. /\ t.attempt = eng.attempt /\ t.active = eng.active
      /\ t.status = [eng.status EXCEPT ![e] = x]
  BY <1>3 DEF EngineState
<1> HIDE DEF s, t, active
<1>6. CASE Dropped
  BY <1>2, <1>6, DroppedTaken
<1>7. CASE /\ eng.status[e] = "interrupted"
           /\ Saved(s, Remaining) \/ SaveFailed(eng, e, 0, Remaining)
  <2>1. \A m \in Node : NoneRuns(eng, e, m)
    BY <1>7 DEF AttemptsOrdered
  <2>2. /\ \A f \in Execs : f # e => s.active[f] = eng.active[f]
        /\ \A f \in Execs : s.status[f] = IF f = e THEN "running" ELSE eng.status[f]
    BY <1>3, <1>4 DEF EngineState
  <2>3. Turn(s)
    BY <1>2, <1>4, <2>1, <2>2, MovedTurn
  <2> QED
    BY <1>7, <2>3, SavedTaken DEF AddsOthers
<1>8. CASE Saved(t, Remaining) \/ SaveFailed(t, e, 0, Remaining)
  <2>1. \A f \in Execs : t.status[f] \in {"absent", "interrupted"} =>
           eng.status[f] \in {"absent", "interrupted"}
    BY <1>3, <1>5 DEF EngineState
  <2>2. Turn(t)
    BY <1>2, <1>5, <2>1, SameTurn
  <2> QED
    BY <1>8, <2>2, SavedTaken DEF AddsOthers
<1> QED
  BY <1>2, <1>6, <1>7, <1>8

LEMMA HandlerTaken ==
    ASSUME TypeOK, AttemptsOrdered, EngineHandler, faults' = 0
    PROVE  Taken
  BY OverloadedTaken, AttemptStartedTaken, AttemptFinishedTaken, GraphMutationTaken,
     ArtifactTaken, WorkerCompletedTaken, WorkerFailedTaken, KilledTaken, PausedTaken,
     ResumedTaken, ReconciledTaken DEF EngineHandler

LEMMA HandlerDelivers ==
    ASSUME EngineHandler
    PROVE  bus.queue # <<>>
<1>1. PICK t \in EventType : Handling(t)
  <2>1. CASE HandleOverloaded \/ HandleAttemptStarted \/ HandleAttemptFinished
    BY <2>1 DEF HandleOverloaded, HandleAttemptStarted, HandleAttemptFinished, EventType
  <2>2. CASE HandleGraphMutation \/ HandleArtifact \/ HandleWorkerCompleted
    BY <2>2 DEF HandleGraphMutation, HandleArtifact, HandleWorkerCompleted, EventType
  <2>3. CASE HandleWorkerFailed \/ HandleKilled \/ HandlePaused
    BY <2>3 DEF HandleWorkerFailed, HandleKilled, HandlePaused, EventType
  <2>4. CASE HandleResumed \/ HandleReconciled
    BY <2>4 DEF HandleResumed, HandleReconciled, EventType
  <2> QED
    BY <2>1, <2>2, <2>3, <2>4 DEF EngineHandler
<1> QED
  BY <1>1 DEF Handling, Delivers

-----------------------------------------------------------------------------
(***************************************************************************)
(* The other steps leave the record of the attempts as it is; what they    *)
(* publish and what they take keeps the order.                             *)
(***************************************************************************)
SameOrder(b, t) ==
    \A e \in Execs : \A n \in Node : AttemptsInTurn(eng, b, e, n, Open(t[e][n]))

LEMMA SameRecord ==
    ASSUME AttemptsOrdered, ~restartRequired',
           eng'.attempt = eng.attempt, eng'.active = eng.active,
           disk'.attempt = eng.attempt, disk'.active = eng.active,
           \A e \in Execs : eng'.status[e] \in {"absent", "interrupted"} =>
               eng.status[e] \in {"absent", "interrupted"},
           SameOrder(bus', task')
    PROVE  AttemptsOrdered'
<1>1. ASSUME NEW e \in Execs, NEW n \in Node
      PROVE  /\ AttemptsInTurn(eng', bus', e, n, Open(task'[e][n]))
             /\ ActiveRuns(eng', e, n)
             /\ eng'.status[e] \in {"absent", "interrupted"} => NoneRuns(eng', e, n)
  <2>1. AttemptsInTurn(eng, bus', e, n, Open(task'[e][n]))
    BY DEF SameOrder
  <2>2. \A q, i, a : Begins(eng', q, i, e, n, a) <=> Begins(eng, q, i, e, n, a)
    BY DEF Begins
  <2>3. AttemptsInTurn(eng', bus', e, n, Open(task'[e][n]))
    BY <2>1, <2>2 DEF AttemptsInTurn, InTurn, WillEnd
  <2>4. ActiveRuns(eng', e, n)
    BY DEF AttemptsOrdered, ActiveRuns
  <2>5. eng'.status[e] \in {"absent", "interrupted"} => NoneRuns(eng', e, n)
    BY DEF AttemptsOrdered, NoneRuns
  <2> QED
    BY <2>3, <2>4, <2>5
<1> QED
  BY <1>1 DEF AttemptsOrdered, SameAttempts

LEMMA HandlerOrdered ==
    ASSUME TypeOK, AttemptsOrdered, EngineHandler, task' = task, faults' = 0
    PROVE  AttemptsOrdered'
<1>1. Taken /\ bus.queue # <<>> /\ bus \in BusValue(Event)
  BY HandlerTaken, HandlerDelivers DEF TypeOK
<1>2. Remaining \in BusValue(Event)
  BY <1>1, RemainingType
<1>3. ASSUME NEW e \in Execs, NEW n \in Node
      PROVE  AttemptsInTurn(eng', bus', e, n, Open(task'[e][n]))
  <2> DEFINE open == Open(task[e][n])
  <2>1. AttemptsInTurn(eng, bus, e, n, open)
    BY DEF AttemptsOrdered
  <2>2. HeadRecorded(eng, eng', HeadEvent, e, n)
    BY <1>1 DEF Taken, Turn
  <2> HIDE DEF open
  <2>3. AttemptsInTurn(eng', Remaining, e, n, open)
    BY <1>1, <2>1, <2>2, OrderRemaining
  <2>4. AttemptsInTurn(eng', bus', e, n, open)
    BY <1>1, <1>2, <2>3, OthersKeepOrder DEF Taken
  <2> QED
    BY <2>4 DEF open
<1> QED
  BY <1>1, <1>3 DEF Taken, Turn, AttemptsOrdered, SameAttempts

(* Taking an event that does not end an attempt. *)
LEMMA RemainingOrder ==
    ASSUME TypeOK, AttemptsOrdered, bus.queue # <<>>, HeadEvent.type # "AttemptFinished"
    PROVE  Remaining \in BusValue(Event) /\ SameOrder(Remaining, task)
<1>1. bus \in BusValue(Event)
  BY DEF TypeOK
<1>2. ASSUME NEW e \in Execs, NEW n \in Node
      PROVE  AttemptsInTurn(eng, Remaining, e, n, Open(task[e][n]))
  <2>1. HeadRecorded(eng, eng, HeadEvent, e, n)
    BY DEF HeadRecorded, Ends
  <2>2. AttemptsInTurn(eng, bus, e, n, Open(task[e][n]))
    BY DEF AttemptsOrdered
  <2> QED
    BY <1>1, <2>1, <2>2, OrderRemaining
<1> QED
  BY <1>1, <1>2, RemainingType DEF SameOrder

LEMMA OtherOrder ==
    ASSUME NEW b \in BusValue(Event), NEW t, SameOrder(b, t), NEW ev \in OtherEvent
    PROVE  SameOrder(Publish(b, ev), t)
<1>1. AddsOthers(b, Publish(b, ev))
  BY DEF AddsOthers
<1> HIDE DEF Publish
<1> QED
  BY <1>1, OthersKeepOrder DEF SameOrder

(* What changes a goroutine but not the attempt it has open. *)
KeepsOpen == \A e \in Execs : \A n \in Node : Open(task'[e][n]) = Open(task[e][n])

LEMMA CancelOpen ==
    ASSUME DispatcherTypeOK,
           StopOnRuntimeFailure \/ \E e \in Execs : StopExecution(e)
    PROVE  KeepsOpen
<1>1. PICK T : task' = Cancel(T)
  BY DEF StopOnRuntimeFailure, StopExecution
<1>2. ASSUME NEW e \in Execs, NEW n \in Node
      PROVE  Open(task'[e][n]) = Open(task[e][n])
  <2>1. /\ [task[e][n] EXCEPT !.done = TRUE].pc = task[e][n].pc
        /\ [task[e][n] EXCEPT !.done = TRUE].attempt = task[e][n].attempt
    BY TaskFields
  <2>2. task'[e][n] = task[e][n] \/ task'[e][n] = [task[e][n] EXCEPT !.done = TRUE]
    BY <1>1 DEF Cancel
  <2> QED
    BY <2>1, <2>2 DEF Open
<1> QED
  BY <1>2 DEF KeepsOpen

LEMMA MoveTask ==
    ASSUME DispatcherTypeOK, NEW e \in Execs, NEW n \in Node, NEW pc, Move(e, n, pc)
    PROVE  /\ \A f \in Execs : \A m \in Node :
                 ~(f = e /\ m = n) => task'[f][m] = task[f][m]
           /\ task'[e][n].pc = pc /\ task'[e][n].attempt = task[e][n].attempt
<1> DEFINE t == [task[e][n] EXCEPT !.pc = pc]
<1>1. t.pc = pc /\ t.attempt = task[e][n].attempt
  BY TaskFields
<1>2. task' = [task EXCEPT ![e][n] = t]
  BY DEF Move
<1> HIDE DEF t
<1>3. /\ \A f \in Execs : \A m \in Node :
            ~(f = e /\ m = n) => task'[f][m] = task[f][m]
      /\ task'[e][n] = t
  BY <1>2 DEF DispatcherTypeOK
<1> QED
  BY <1>1, <1>3

-----------------------------------------------------------------------------
(***************************************************************************)
(* What a goroutine publishes concerns its own node: it begins an attempt  *)
(* when it has none open, and fails or completes the task when it has      *)
(* closed the last one.                                                    *)
(***************************************************************************)
NodeOrder(b, e, n, open) ==
    /\ b \in BusValue(Event)
    /\ AttemptsInTurn(eng, b, e, n, open)
    /\ \A f \in Execs : \A m \in Node :
          ~(f = e /\ m = n) => AttemptsInTurn(eng, b, f, m, Open(task[f][m]))

LEMMA NodePublish ==
    ASSUME NEW e, NEW n, NEW b, NEW open, NodeOrder(b, e, n, open),
           NEW ev \in Event, ev.exec = e, ev.node = n, NEW left,
           ev.type \in FollowerType => open = {},
           \A a \in Attempt \ left :
               Ends(ev, e, n, a) \/ (a \notin open /\ ~Starts(ev, e, n, a))
    PROVE  NodeOrder(Publish(b, ev), e, n, left)
<1>1. b \in BusValue(Event) /\ AttemptsInTurn(eng, b, e, n, open)
  BY DEF NodeOrder
<1>2. Follower(ev, e, n) => open = {}
  BY DEF Follower
<1>3. AttemptsInTurn(eng, Publish(b, ev), e, n, left)
  BY <1>1, <1>2, OrderPublish
<1>4. ASSUME NEW f \in Execs, NEW m \in Node, ~(f = e /\ m = n)
      PROVE  AttemptsInTurn(eng, Publish(b, ev), f, m, Open(task[f][m]))
  <2>1. ~Follower(ev, f, m) /\ AttemptsInTurn(eng, b, f, m, Open(task[f][m]))
    BY <1>4 DEF Follower, NodeOrder
  <2> QED
    BY <1>1, <2>1, OrderOther
<1>5. Publish(b, ev) \in BusValue(Event)
  BY <1>1, PublishType
<1> HIDE DEF Publish
<1> QED
  BY <1>3, <1>4, <1>5 DEF NodeOrder

LEMMA NodeStarts ==
    ASSUME NEW e \in Execs, NEW n \in Node, NEW a \in Attempt, NEW b, NodeOrder(b, e, n, {})
    PROVE  NodeOrder(Publish(b, TaskEvent("AttemptStarted", e, n, a, "none")), e, n, {a})
<1> DEFINE ev == TaskEvent("AttemptStarted", e, n, a, "none")
<1>1. /\ ev \in Event /\ ev.exec = e /\ ev.node = n /\ ev.attempt = a
  BY AttemptEventType DEF TaskEvent
<1> HIDE DEF ev
<1>2. \A c \in Attempt \ {a} : ~Starts(ev, e, n, c)
  BY <1>1 DEF Starts
<1>3. NodeOrder(Publish(b, ev), e, n, {a})
  BY <1>1, <1>2, NodePublish
<1> QED
  BY <1>3 DEF ev

LEMMA NodeEnds ==
    ASSUME NEW e \in Execs, NEW n \in Node, NEW a \in Attempt, NEW b, NodeOrder(b, e, n, {a}),
           NEW x \in {"succeeded", "failed"}
    PROVE  NodeOrder(Publish(b, TaskEvent("AttemptFinished", e, n, a, x)), e, n, {})
<1> DEFINE ev == TaskEvent("AttemptFinished", e, n, a, x)
<1>1. /\ ev \in Event /\ ev.type = "AttemptFinished"
      /\ ev.exec = e /\ ev.node = n /\ ev.attempt = a
  BY AttemptEventType DEF TaskEvent
<1> HIDE DEF ev
<1>2. ev.type \notin FollowerType
  BY <1>1 DEF FollowerType
<1>3. \A c \in Attempt : Ends(ev, e, n, c) \/ (c \notin {a} /\ ~Starts(ev, e, n, c))
  BY <1>1 DEF Starts, Ends
<1>4. NodeOrder(Publish(b, ev), e, n, {})
  BY <1>1, <1>2, <1>3, NodePublish
<1> QED
  BY <1>4 DEF ev

LEMMA NodeFollows ==
    ASSUME NEW e \in Execs, NEW n \in Node, NEW b, NodeOrder(b, e, n, {}),
           NEW ev \in Event, ev.exec = e, ev.node = n,
           ev.type \in {"WorkerFailed", "WorkerCompleted"}
    PROVE  NodeOrder(Publish(b, ev), e, n, {})
<1>1. \A c \in Attempt : ~Starts(ev, e, n, c)
  BY DEF Starts
<1> QED
  BY <1>1, NodePublish

LEMMA NodeFails ==
    ASSUME NEW e \in Execs, NEW n \in Node, NEW b, NodeOrder(b, e, n, {})
    PROVE  NodeOrder(WorkerFailed(b, e, n), e, n, {})
<1> DEFINE ev == TaskEvent("WorkerFailed", e, n, 0, "none")
<1>1. ev \in Event /\ ev.exec = e /\ ev.node = n /\ ev.type = "WorkerFailed"
  BY TaskEventType DEF TaskEvent
<1> HIDE DEF ev
<1>2. NodeOrder(Publish(b, ev), e, n, {})
  BY <1>1, NodeFollows
<1> QED
  BY <1>2 DEF ev, WorkerFailed

LEMMA NodeAsks ==
    ASSUME NEW e \in Execs, NEW n \in Node, NEW a \in Attempt, NEW b, NEW open,
           NodeOrder(b, e, n, open),
           NEW t \in {"TaskResultCommitRequested", "GraphMutationRequested"}, NEW x,
           TaskEvent(t, e, n, a, x) \in Event
    PROVE  NodeOrder(Publish(b, TaskEvent(t, e, n, a, x)), e, n, open)
<1> DEFINE ev == TaskEvent(t, e, n, a, x)
<1>1. ev \in Event /\ ev.exec = e /\ ev.node = n /\ ev.type = t
  BY DEF TaskEvent
<1> HIDE DEF ev
<1>2. ev.type \notin FollowerType /\ \A c \in Attempt : ~Starts(ev, e, n, c)
  BY <1>1 DEF Starts, FollowerType
<1>3. NodeOrder(Publish(b, ev), e, n, open)
  BY <1>1, <1>2, NodePublish
<1> QED
  BY <1>3 DEF ev

(* The goroutines but that of node n of e are as they were. *)
OthersSame(e, n) ==
    \A f \in Execs : \A m \in Node : ~(f = e /\ m = n) => task'[f][m] = task[f][m]

LEMMA StartOrder ==
    ASSUME TypeOK, NEW e \in Execs, NEW n \in Node, StartAttempt(e, n),
           NodeOrder(bus, e, n, Open(task[e][n]))
    PROVE  NodeOrder(bus', e, n, Open(task'[e][n])) /\ OthersSame(e, n)
<1> DEFINE k == issued[e][n] + 1
           t == [task[e][n] EXCEPT !.tries = @ + 1, !.attempt = k]
           b == Publish(bus, TaskEvent("AttemptStarted", e, n, k, "none"))
           c == Publish(b, TaskEvent("AttemptFinished", e, n, k, "failed"))
           slot == [t EXCEPT !.pc = "slot"]
           exit == [t EXCEPT !.pc = "exit"]
<1>1. DispatcherTypeOK
  BY DEF TypeOK
<1>2. k \in Attempt
  BY <1>1, BusAssumption DEF BusAssumption, StartAttempt, DispatcherTypeOK, Attempt
<1>3. /\ task[e][n].pc = "select"
      /\ \/ bus' = b /\ task' = [task EXCEPT ![e][n] = slot]
         \/ bus' = WorkerFailed(c, e, n) /\ task' = [task EXCEPT ![e][n] = exit]
  BY DEF StartAttempt
<1>4. slot.pc = "slot" /\ slot.attempt = k /\ exit.pc = "exit"
  BY <1>1, TaskFields
<1> HIDE DEF k, t
<1>5. NodeOrder(bus, e, n, {})
  BY <1>3 DEF Open, Attempting
<1>6. NodeOrder(b, e, n, {k})
  BY <1>2, <1>5, NodeStarts
<1> HIDE DEF b
<1>7. NodeOrder(c, e, n, {})
  BY <1>2, <1>6, NodeEnds
<1> HIDE DEF c
<1>8. NodeOrder(WorkerFailed(c, e, n), e, n, {})
  BY <1>7, NodeFails
<1> HIDE DEF slot, exit
<1>9. CASE bus' = b /\ task' = [task EXCEPT ![e][n] = slot]
  <2>1. task'[e][n] = slot /\ OthersSame(e, n)
    BY <1>1, <1>9 DEF DispatcherTypeOK, OthersSame
  <2>2. Open(task'[e][n]) = {k}
    BY <1>4, <2>1 DEF Open, Attempting
  <2> QED
    BY <1>6, <1>9, <2>1, <2>2
<1>10. CASE bus' = WorkerFailed(c, e, n) /\ task' = [task EXCEPT ![e][n] = exit]
  <2>1. task'[e][n] = exit /\ OthersSame(e, n)
    BY <1>1, <1>10 DEF DispatcherTypeOK, OthersSame
  <2>2. Open(task'[e][n]) = {}
    BY <1>4, <2>1 DEF Open, Attempting
  <2> QED
    BY <1>8, <1>10, <2>1, <2>2
<1> QED
  BY <1>3, <1>9, <1>10

LEMMA TaskOrder ==
    ASSUME TypeOK, NEW e \in Execs, NEW n \in Node, TaskStep(e, n),
           NodeOrder(bus, e, n, Open(task[e][n]))
    PROVE  NodeOrder(bus', e, n, Open(task'[e][n])) /\ OthersSame(e, n)
<1> DEFINE a == task[e][n].attempt
<1>0. DispatcherTypeOK
  BY DEF TypeOK
<1>1. task[e][n].pc \in Attempting => a \in Attempt /\ Open(task[e][n]) = {a}
  BY <1>0, TaskFields DEF Open
<1>2. task[e][n].pc \notin Attempting => Open(task[e][n]) = {}
  BY DEF Open
<1>3. ASSUME NEW pc, Move(e, n, pc)
      PROVE  /\ OthersSame(e, n)
             /\ Open(task'[e][n]) = IF pc \in Attempting THEN {a} ELSE {}
  <2>1. OthersSame(e, n) /\ task'[e][n].pc = pc /\ task'[e][n].attempt = a
    BY <1>0, <1>3, MoveTask DEF OthersSame
  <2> QED
    BY <2>1 DEF Open
<1>4. CASE GiveUp(e, n)
  <2>1. /\ task[e][n].pc \notin Attempting /\ Move(e, n, "exit")
        /\ bus' = WorkerFailed(bus, e, n)
    BY <1>4 DEF GiveUp, Attempting
  <2>2. NodeOrder(bus', e, n, {})
    BY <1>2, <2>1, NodeFails
  <2>3. OthersSame(e, n) /\ Open(task'[e][n]) = {}
    BY <1>3, <2>1 DEF Attempting
  <2> QED
    BY <2>2, <2>3
<1>5. CASE StartAttempt(e, n)
  BY <1>5, StartOrder
<1>6. CASE AcquireSlot(e, n)
  <2>1. task[e][n].pc \in Attempting /\ Move(e, n, "execute") /\ bus' = bus
    BY <1>6 DEF AcquireSlot, Attempting
  <2>2. OthersSame(e, n) /\ Open(task'[e][n]) = {a}
    BY <1>3, <2>1 DEF Attempting
  <2> QED
    BY <1>1, <2>1, <2>2
<1>7. CASE Abandon(e, n) \/ FailAttempt(e, n)
  <2> DEFINE b == AttemptFinished(bus, e, n, "failed")
  <2>1. /\ task[e][n].pc \in Attempting
        /\ bus' = b \/ bus' = WorkerFailed(b, e, n)
        /\ Move(e, n, "select") \/ Move(e, n, "exit")
    BY <1>7 DEF Abandon, FailAttempt, Attempting
  <2>2. NodeOrder(b, e, n, {})
    BY <1>1, <2>1, NodeEnds DEF AttemptFinished
  <2> HIDE DEF b
  <2>3. NodeOrder(WorkerFailed(b, e, n), e, n, {})
    BY <2>2, NodeFails
  <2>4. OthersSame(e, n) /\ Open(task'[e][n]) = {}
    BY <1>3, <2>1 DEF Attempting
  <2> QED
    BY <2>1, <2>2, <2>3, <2>4
<1>8. CASE RequestCommit(e, n)
  <2> DEFINE ev == TaskEvent("TaskResultCommitRequested", e, n, a, "none")
  <2>1. /\ task[e][n].pc \in Attempting /\ Move(e, n, "commit")
        /\ bus' = Publish(bus, ev)
    BY <1>8 DEF RequestCommit, Attempting
  <2>2. ev \in Event
    BY <1>1, <2>1, AttemptEventType
  <2>3. NodeOrder(Publish(bus, ev), e, n, {a})
    BY <1>1, <2>1, <2>2, NodeAsks
  <2>4. OthersSame(e, n) /\ Open(task'[e][n]) = {a}
    BY <1>3, <2>1 DEF Attempting
  <2> QED
    BY <2>1, <2>3, <2>4
<1>9. CASE ReturnResult(e, n)
  <2>1. task[e][n].pc \in Attempting /\ Move(e, n, "returned")
    BY <1>9 DEF ReturnResult, Attempting
  <2>2. PICK x \in {"none", "once", "return"} :
          bus' = IF x = "none" THEN bus
                 ELSE Publish(bus, TaskEvent("GraphMutationRequested", e, n, a, x))
    BY <1>9 DEF ReturnResult
  <2> DEFINE ev == TaskEvent("GraphMutationRequested", e, n, a, x)
  <2>3. x # "none" => ev \in Event
    BY <1>1, <2>1, AttemptEventType
  <2>4. x # "none" => NodeOrder(Publish(bus, ev), e, n, {a})
    BY <1>1, <2>1, <2>3, NodeAsks
  <2>5. OthersSame(e, n) /\ Open(task'[e][n]) = {a}
    BY <1>3, <2>1 DEF Attempting
  <2> QED
    BY <1>1, <2>1, <2>2, <2>4, <2>5
<1>10. CASE SucceedAttempt(e, n)
  <2> DEFINE b == AttemptFinished(bus, e, n, "succeeded")
             ev == TaskEvent("WorkerCompleted", e, n, a, "none")
  <2>1. /\ task[e][n].pc \in Attempting /\ Move(e, n, "exit")
        /\ bus' = Publish(b, ev)
    BY <1>10 DEF SucceedAttempt, Attempting
  <2>2. NodeOrder(b, e, n, {})
    BY <1>1, <2>1, NodeEnds DEF AttemptFinished
  <2>3. ev \in Event /\ ev.exec = e /\ ev.node = n /\ ev.type = "WorkerCompleted"
    BY <1>1, <2>1, AttemptEventType DEF TaskEvent
  <2> HIDE DEF b, ev
  <2>4. NodeOrder(Publish(b, ev), e, n, {})
    BY <2>2, <2>3, NodeFollows
  <2>5. OthersSame(e, n) /\ Open(task'[e][n]) = {}
    BY <1>3, <2>1 DEF Attempting
  <2> QED
    BY <2>1, <2>4, <2>5
<1>11. CASE Cleanup(e, n)
  <2>1. /\ task[e][n].pc \notin Attempting /\ bus' = bus
        /\ task' = [task EXCEPT ![e][n] = NoTask]
    BY <1>11 DEF Cleanup, Attempting
  <2>2. task'[e][n] = NoTask /\ OthersSame(e, n)
    BY <1>0, <2>1 DEF DispatcherTypeOK, OthersSame
  <2>3. Open(task'[e][n]) = {}
    BY <2>2 DEF Open, NoTask, Attempting
  <2> QED
    BY <1>2, <2>1, <2>2, <2>3
<1> QED
  BY <1>4, <1>5, <1>6, <1>7, <1>8, <1>9, <1>10, <1>11 DEF TaskStep

LEMMA TaskStepOrder ==
    ASSUME TypeOK, AttemptsOrdered, NEW e \in Execs, NEW n \in Node, TaskStep(e, n)
    PROVE  SameOrder(bus', task')
<1>1. NodeOrder(bus, e, n, Open(task[e][n]))
  BY DEF AttemptsOrdered, NodeOrder, TypeOK
<1>2. NodeOrder(bus', e, n, Open(task'[e][n])) /\ OthersSame(e, n)
  BY <1>1, TaskOrder
<1> QED
  BY <1>2 DEF NodeOrder, OthersSame, SameOrder

LEMMA KeptOrder ==
    ASSUME NEW b, SameOrder(b, task), KeepsOpen
    PROVE  SameOrder(b, task')
  BY DEF SameOrder, KeepsOpen

LEMMA DeadlineOpen ==
    ASSUME DispatcherTypeOK, NEW e \in Execs, NEW n \in Node, Deadline(e, n)
    PROVE  KeepsOpen
<1> DEFINE t == [task[e][n] EXCEPT !.done = TRUE]
<1>1. t.pc = task[e][n].pc /\ t.attempt = task[e][n].attempt
  BY TaskFields
<1>2. task' = [task EXCEPT ![e][n] = t]
  BY DEF Deadline
<1> HIDE DEF t
<1>3. OthersSame(e, n) /\ task'[e][n] = t
  BY <1>2 DEF DispatcherTypeOK, OthersSame
<1> QED
  BY <1>1, <1>3 DEF OthersSame, KeepsOpen, Open

(* The goroutine of a queued TaskCreated has not begun: nothing is open. *)
LEMMA DispatchTaskOrder ==
    ASSUME TypeOK, SafetyInv, Once, AttemptsOrdered, Delivers("TaskCreated"),
           DispatchTask(HeadEvent.exec, HeadEvent.node)
    PROVE  SameOrder(bus', task')
<1>1. PICK e \in Execs, n \in Node : e = HeadEvent.exec /\ n = HeadEvent.node
  BY HeadTask DEF TypeOK, TaskType
<1>2. bus.queue # <<>> /\ HeadEvent.type = "TaskCreated"
  BY DEF Delivers
<1>3. Remaining \in BusValue(Event) /\ SameOrder(Remaining, task)
  BY <1>2, RemainingOrder
<1>4. task[e][n].pc = "none"
  <2>1. bus.queue \in Seq(Event) /\ 1 \in Queued(bus.queue, e, n)
    BY <1>1, <1>2 DEF TypeOK, BusValue, HeadEvent, Queued
  <2>2. /\ IsFiniteSet(Queued(bus.queue, e, n))
        /\ Cardinality(Queued(bus.queue, e, n)) \in Nat
    BY <2>1, QueuedCount
  <2>3. Cardinality(Queued(bus.queue, e, n)) # 0
    BY <2>1, <2>2, FS_EmptySet
  <2>4. HandedOut(e, n) <= 1
    BY DEF Once
  <2> QED
    BY <2>2, <2>3, <2>4 DEF HandedOut
<1>5. Open(task[e][n]) = {}
  BY <1>4 DEF Open, Attempting
<1>6. CASE /\ bus' = Publish(Remaining, TaskEvent("WorkerFailed", e, n, 0, "none"))
           /\ task' = task
  <2>1. NodeOrder(Remaining, e, n, {})
    BY <1>3, <1>5 DEF NodeOrder, SameOrder
  <2>2. NodeOrder(bus', e, n, {})
    BY <1>6, <2>1, NodeFails DEF WorkerFailed
  <2> QED
    BY <1>5, <1>6, <2>2 DEF NodeOrder, SameOrder
<1>7. CASE bus' = Remaining /\ task' = task
  BY <1>3, <1>7
<1>8. CASE /\ bus' = Remaining
           /\ task' = [task EXCEPT ![e][n] = [NoTask EXCEPT !.pc = "select"]]
  <2> DEFINE t == [NoTask EXCEPT !.pc = "select"]
  <2>1. t.pc = "select"
    BY DEF NoTask
  <2> HIDE DEF t
  <2>2. OthersSame(e, n) /\ task'[e][n] = t
    BY <1>8 DEF TypeOK, DispatcherTypeOK, OthersSame, t
  <2>3. Open(task'[e][n]) = {}
    BY <2>1, <2>2 DEF Open, Attempting
  <2>4. KeepsOpen
    BY <1>5, <2>2, <2>3 DEF OthersSame, KeepsOpen
  <2> QED
    BY <1>3, <1>8, <2>4, KeptOrder
<1> QED
  BY <1>1, <1>6, <1>7, <1>8 DEF DispatchTask, dispatcherVars

LEMMA CommitOrder ==
    ASSUME TypeOK, AttemptsOrdered, Delivers("TaskResultCommitRequested"), CommitResult
    PROVE  SameOrder(bus', task')
<1>1. PICK e \in Execs, n \in Node, a \in Attempt :
         e = HeadEvent.exec /\ n = HeadEvent.node /\ a = HeadEvent.attempt
  BY HeadTask, HeadAttempt DEF TypeOK, AttemptType
<1> DEFINE ev == TaskEvent("ArtifactStored", e, n, a, "none")
           pc == IF task[e][n].pc = "commit" /\ task[e][n].attempt = a
                 THEN "acked" ELSE task[e][n].pc
<1>2. bus' = Publish(Remaining, ev) /\ Move(e, n, pc)
  BY <1>1 DEF CommitResult, Move
<1>3. pc = task[e][n].pc \/ (task[e][n].pc = "commit" /\ pc = "acked")
  OBVIOUS
<1>4. Remaining \in BusValue(Event) /\ SameOrder(Remaining, task)
  BY RemainingOrder DEF Delivers
<1>5. ev \in OtherEvent
  <2>1. ev \in Event /\ ev.type = "ArtifactStored"
    BY AttemptEventType DEF TaskEvent
  <2> QED
    BY <2>1 DEF OtherEvent, FollowerType
<1> HIDE DEF ev, pc
<1>6. SameOrder(bus', task)
  BY <1>2, <1>4, <1>5, OtherOrder
<1>7. DispatcherTypeOK
  BY DEF TypeOK
<1>8. /\ \A f \in Execs : \A m \in Node :
            ~(f = e /\ m = n) => task'[f][m] = task[f][m]
      /\ task'[e][n].pc = pc /\ task'[e][n].attempt = task[e][n].attempt
  BY <1>2, <1>7, MoveTask
<1>9. KeepsOpen
  BY <1>3, <1>8 DEF KeepsOpen, Open, Attempting
<1> QED
  BY <1>6, <1>9, KeptOrder

(* The loop and the operators publish what has no place in the order. *)
LEMMA BusOrder ==
    ASSUME TypeOK, AttemptsOrdered
    PROVE  SameOrder(bus, task) /\ bus \in BusValue(Event)
  BY DEF TypeOK, AttemptsOrdered, SameOrder

LEMMA LoopOrdered ==
    ASSUME TypeOK, AttemptsOrdered, EngineLoop, task' = task, faults' = 0
    PROVE  AttemptsOrdered'
<1>1. PICK n \in Node : EndLoop \/ DispatchNode(n)
  BY BusAssumption DEF BusAssumption, EngineLoop, Node
<1>2. loop.owner # "none"
  BY <1>1 DEF EndLoop, DispatchNode
<1>3. PICK e \in Execs : e = loop.exec
  BY <1>2, LoopExec DEF TypeOK, MutexTypeOK
<1>4. SameOrder(bus, task) /\ bus \in BusValue(Event)
  BY BusOrder
<1>5. eng \in EngineState
  BY DEF TypeOK, StateTypeOK
<1>6. CASE EndLoop
  <2> DEFINE s == [eng EXCEPT !.status[e] = "completed"]
             ev == ExecEvent("WorkflowCompleted", e, "none")
  <2>1. \/ Saved(s, Publish(bus, ev)) \/ SaveFailed(s, e, loop.node, bus)
        \/ Unsaved /\ UNCHANGED <<eng, bus>>
    BY <1>3, <1>6 DEF EndLoop
  <2>2. /\ s.attempt = eng.attempt /\ s.active = eng.active
        /\ s.status = [eng.status EXCEPT ![e] = "completed"]
        /\ eng.status \in [Execs -> ExecStatus]
    BY <1>5 DEF EngineState
  <2>3. ev \in OtherEvent
    <3>1. "WorkflowCompleted" \in EventType \ (TaskType \cup AttemptType) /\ "none" \in EventArg
      BY DEF EventType, TaskType, AttemptType, EventArg
    <3> QED
      BY <3>1, OtherExecEvent
  <2> HIDE DEF s, ev
  <2>4. SameOrder(Publish(bus, ev), task)
    BY <1>4, <2>3, OtherOrder
  <2>5. CASE Saved(s, Publish(bus, ev)) \/ SaveFailed(s, e, loop.node, bus)
    <3>1. /\ eng' = s /\ disk' = s /\ bus' = Publish(bus, ev)
          /\ restartRequired' = restartRequired
      BY <2>5, NoSaveFailed DEF Saved
    <3>2. \A f \in Execs : s.status[f] \in {"absent", "interrupted"} =>
             eng.status[f] \in {"absent", "interrupted"}
      BY <2>2
    <3>3. ~restartRequired' /\ SameOrder(bus', task')
      BY <2>4, <3>1 DEF AttemptsOrdered
    <3> QED
      BY <2>2, <3>1, <3>2, <3>3, SameRecord
  <2>6. CASE Unsaved /\ UNCHANGED <<eng, bus>>
    <3>1. /\ eng' = eng /\ disk' = disk /\ bus' = bus /\ restartRequired' = restartRequired
      BY <2>6 DEF Unsaved
    <3>2. ~restartRequired' /\ SameOrder(bus', task')
      BY <1>4, <3>1 DEF AttemptsOrdered
    <3>3. disk'.attempt = eng.attempt /\ disk'.active = eng.active
      BY <3>1 DEF AttemptsOrdered, SameAttempts
    <3> QED
      BY <3>1, <3>2, <3>3, SameRecord
  <2> QED
    BY <2>1, <2>5, <2>6
<1>7. CASE DispatchNode(n)
  <2> DEFINE s == [eng EXCEPT !.node[e][n] = "running"]
             ev == TaskEvent("TaskCreated", e, n, 0, "none")
  <2>1. Saved(s, Publish(bus, ev)) \/ SaveFailed(s, e, n, bus)
    BY <1>3, <1>7 DEF DispatchNode
  <2>2. s.attempt = eng.attempt /\ s.active = eng.active /\ s.status = eng.status
    BY <1>5 DEF EngineState
  <2>3. ev \in OtherEvent
    <3>1. ev \in Event /\ ev.type = "TaskCreated"
      BY TaskEventType DEF TaskEvent
    <3> QED
      BY <3>1 DEF OtherEvent, FollowerType
  <2> HIDE DEF s, ev
  <2>4. SameOrder(Publish(bus, ev), task)
    BY <1>4, <2>3, OtherOrder
  <2>5. /\ eng' = s /\ disk' = s /\ bus' = Publish(bus, ev)
        /\ restartRequired' = restartRequired
    BY <2>1, NoSaveFailed DEF Saved
  <2>6. ~restartRequired' /\ SameOrder(bus', task')
    BY <2>4, <2>5 DEF AttemptsOrdered
  <2> QED
    BY <2>2, <2>5, <2>6, SameRecord
<1> QED
  BY <1>1, <1>6, <1>7

(* A submission: the new execution has no attempt yet. *)
LEMMA SubmitOrdered ==
    ASSUME TypeOK, AttemptsOrdered, NEW e \in Execs, SubmitWorkflow(e), task' = task, faults' = 0
    PROVE  AttemptsOrdered'
<1> DEFINE s == NewExecution(eng, e)
<1>1. Saved(s, bus) \/ (faults < MaxFaults /\ faults' = faults + 1)
  BY DEF SubmitWorkflow
<1>2. Saved(s, bus)
  BY <1>1, EngineAssumption DEF EngineAssumption, TypeOK, StateTypeOK
<1>3. /\ s.attempt = eng.attempt /\ s.active = eng.active
      /\ \A f \in Execs : f # e => s.status[f] = eng.status[f]
      /\ s.status[e] \in Live
  BY DEF TypeOK, StateTypeOK, EngineState, NewExecution, Live
<1> HIDE DEF s
<1>4. eng' = s /\ disk' = s /\ bus' = bus /\ restartRequired' = restartRequired
  BY <1>2 DEF Saved
<1>5. ~restartRequired' /\ SameOrder(bus', task')
  BY <1>4, BusOrder DEF AttemptsOrdered
<1>6. \A f \in Execs : s.status[f] \in {"absent", "interrupted"} =>
         eng.status[f] \in {"absent", "interrupted"}
  BY <1>3 DEF Live
<1> QED
  BY <1>3, <1>4, <1>5, <1>6, SameRecord

LEMMA ControlOrder ==
    ASSUME TypeOK, AttemptsOrdered, NEW t \in Controls, NEW e \in Execs, Control(t, e)
    PROVE  SameOrder(bus', task')
<1>1. PICK x \in EventArg : bus' = Publish(bus, ExecEvent(t, e, x))
  BY DEF Control, EventArg
<1>2. t \in EventType \ (TaskType \cup AttemptType)
  BY RuntimeAssumption DEF RuntimeAssumption, EventType, TaskType, AttemptType
<1>3. ExecEvent(t, e, x) \in OtherEvent
  BY <1>2, OtherExecEvent
<1>4. SameOrder(bus', task)
  BY <1>1, <1>3, BusOrder, OtherOrder
<1>5. task' = task
  BY DEF Control, dispatcherVars
<1> QED
  BY <1>4, <1>5

-----------------------------------------------------------------------------
(* An empty queue and a record in which nothing runs are in order. *)
LEMMA NothingOpen ==
    ASSUME NEW s, NEW b, NEW e, NEW n, NEW open, b.queue = <<>>, NoneRuns(s, e, n)
    PROVE  AttemptsInTurn(s, b, e, n, open) /\ ActiveRuns(s, e, n)
<1>1. Len(b.queue) = 0
  OBVIOUS
<1> QED
  BY <1>1 DEF AttemptsInTurn, InTurn, WillEnd, Begins, NoneRuns, ActiveRuns

LEMMA OrderInit == Init => OrderInv
<1> SUFFICES ASSUME Init PROVE OrderInv
  OBVIOUS
<1>1. /\ eng = EmptyEngine /\ disk = EmptyEngine /\ ~restartRequired
      /\ bus.queue = <<>>
  BY DEF Init, EngineInit, EmptyBus
<1>2. \A e \in Execs : \A n \in Node : NoneRuns(eng, e, n)
  BY <1>1 DEF EmptyEngine, NoneRuns
<1>3. \A e \in Execs : \A n \in Node :
         /\ AttemptsInTurn(eng, bus, e, n, Open(task[e][n]))
         /\ ActiveRuns(eng, e, n)
  BY <1>1, <1>2, NothingOpen
<1> QED
  BY <1>1, <1>2, <1>3 DEF OrderInv, AttemptsOrdered, SameAttempts

LEMMA CrashOrdered ==
    ASSUME TypeOK, AttemptsOrdered, Crash
    PROVE  AttemptsOrdered'
<1> DEFINE s == Recover(disk)
<1>1. eng' = s /\ disk' = s /\ ~restartRequired' /\ bus'.queue = <<>>
  BY DEF Crash, EmptyBus
<1>2. \A e \in Execs : \A n \in Node : \A a \in Attempt :
         s.attempt[e][n][a] = IF disk.active[e][n] = a /\ disk.attempt[e][n][a] = "running"
                              THEN "interrupted" ELSE disk.attempt[e][n][a]
  BY DEF TypeOK, StateTypeOK, EngineState, Recover
<1> HIDE DEF s
<1>3. \A e \in Execs : \A n \in Node : NoneRuns(s, e, n)
  BY <1>2 DEF AttemptsOrdered, SameAttempts, ActiveRuns, NoneRuns
<1>4. \A e \in Execs : \A n \in Node :
         /\ AttemptsInTurn(eng', bus', e, n, Open(task'[e][n]))
         /\ ActiveRuns(eng', e, n)
  BY <1>1, <1>3, NothingOpen
<1> QED
  BY <1>1, <1>3, <1>4 DEF AttemptsOrdered, SameAttempts

(* Where no save fails none has failed before. *)
LEMMA NoFault ==
    ASSUME TypeOK, [Next]_vars, faults' = 0
    PROVE  faults = 0
<1>0. faults \in Nat
  BY EngineAssumption DEF EngineAssumption, TypeOK, StateTypeOK
<1>1. faults' = faults \/ faults' = faults + 1
  <2> USE DEF Saved, SaveFailed, Dropped, Unsaved
  <2>1. ASSUME EngineHandler
        PROVE  faults' = faults \/ faults' = faults + 1
    <3>1. CASE HandleOverloaded
      BY <3>1 DEF HandleOverloaded
    <3>2. CASE HandleAttemptStarted \/ HandleAttemptFinished
      BY <3>2 DEF HandleAttemptStarted, HandleAttemptFinished
    <3>3. CASE HandleGraphMutation \/ HandleArtifact
      BY <3>3 DEF HandleGraphMutation, HandleArtifact
    <3>4. CASE HandleWorkerCompleted \/ HandleWorkerFailed
      BY <3>4 DEF HandleWorkerCompleted, HandleWorkerFailed
    <3>5. CASE HandleKilled \/ HandlePaused \/ HandleResumed
      BY <3>5 DEF HandleKilled, HandlePaused, HandleResumed
    <3>6. CASE HandleReconciled
      BY <3>6 DEF HandleReconciled
    <3> QED
      BY <2>1, <3>1, <3>2, <3>3, <3>4, <3>5, <3>6 DEF EngineHandler
  <2>2. ASSUME NEW n \in Node, EndLoop \/ DispatchNode(n)
        PROVE  faults' = faults \/ faults' = faults + 1
    <3>1. CASE EndLoop
      BY <3>1 DEF EndLoop
    <3>2. CASE DispatchNode(n)
      BY <3>2 DEF DispatchNode
    <3> QED
      BY <2>2, <3>1, <3>2
  <2>3. CASE LoopStep
    <3>1. 1 \in Node
      BY BusAssumption DEF BusAssumption, Node
    <3> QED
      BY <2>2, <2>3, <3>1 DEF LoopStep, EngineLoop
  <2>4. CASE \E e \in Execs : Submit(e)
    BY <2>4 DEF Submit, SubmitWorkflow
  <2>5. CASE \/ DispatcherFollows \/ DispatcherHandles \/ Observed \/ UNCHANGED vars \/ Crash
             \/ \E e \in Execs, n \in Node : TaskSteps(e, n) \/ DeadlinePasses(e, n)
             \/ \E t \in Controls, e \in Execs : Control(t, e)
    BY <2>5 DEF DispatcherFollows, DispatcherHandles, Observed, TaskSteps, DeadlinePasses,
                Control, Crash, vars, engineVars
  <2> QED
    BY <2>1, <2>3, <2>4, <2>5 DEF Next, BusStep, EngineHandles
<1> QED
  BY <1>0, <1>1

(* A step that is none of the engine's changes nothing but the queue and the goroutines. *)
LEMMA EngineSame ==
    ASSUME AttemptsOrdered, UNCHANGED <<eng, disk, restartRequired>>, SameOrder(bus', task')
    PROVE  AttemptsOrdered'
<1>1. /\ ~restartRequired' /\ eng' = eng
      /\ disk'.attempt = eng.attempt /\ disk'.active = eng.active
  BY DEF AttemptsOrdered, SameAttempts
<1> QED
  BY <1>1, SameRecord

LEMMA OrderNext ==
    ASSUME TypeOK, SafetyInv, OnceInv, OrderInv, [Next]_vars
    PROVE  OrderInv'
<1> SUFFICES ASSUME faults' = 0
             PROVE  AttemptsOrdered'
  BY DEF OrderInv
<1>0. AttemptsOrdered
  BY NoFault DEF OrderInv
<1>1. SameOrder(bus, task) /\ bus \in BusValue(Event) /\ DispatcherTypeOK
  BY <1>0, BusOrder DEF TypeOK
<1>2. Once
  BY <1>0 DEF AttemptsOrdered, OnceInv
<1>3. CASE EngineHandles
  BY <1>0, <1>3, HandlerOrdered DEF EngineHandles, dispatcherVars
<1>4. CASE LoopStep
  BY <1>0, <1>4, LoopOrdered DEF LoopStep, dispatcherVars
<1>5. CASE \E e \in Execs : Submit(e)
  BY <1>0, <1>5, SubmitOrdered DEF Submit, dispatcherVars
<1>6. CASE Crash
  BY <1>0, <1>6, CrashOrdered
<1>7. CASE DispatcherFollows
  <2>1. cur # NoEvent /\ cur \in Event
    BY <1>7 DEF DispatcherFollows, TypeOK, MutexTypeOK
  <2>2. StopOnRuntimeFailure \/ \E e \in Execs : StopExecution(e)
    BY <1>7, <2>1 DEF DispatcherFollows, Event, RuntimeType
  <2>3. KeepsOpen
    BY <1>1, <2>2, CancelOpen
  <2>4. bus' = bus /\ UNCHANGED <<eng, disk, restartRequired>>
    BY <1>7 DEF DispatcherFollows
  <2> QED
    BY <1>0, <1>1, <2>3, <2>4, KeptOrder, EngineSame
<1>8. CASE DispatcherHandles
  <2>1. UNCHANGED <<eng, disk, restartRequired>>
    BY <1>8 DEF DispatcherHandles, engineVars
  <2>2. CASE Delivers("TaskCreated") /\ DispatchTask(HeadEvent.exec, HeadEvent.node)
    BY <1>0, <1>2, <2>1, <2>2, DispatchTaskOrder, EngineSame
  <2>3. CASE /\ Delivers("RuntimePersistenceFailed")
             /\ bus' = Remaining /\ StopOnRuntimeFailure
    <3>1. SameOrder(Remaining, task)
      BY <1>0, <2>3, RemainingOrder DEF Delivers
    <3>2. KeepsOpen
      BY <1>1, <2>3, CancelOpen
    <3> QED
      BY <1>0, <2>1, <2>3, <3>1, <3>2, KeptOrder, EngineSame
  <2>4. CASE Delivers("TaskResultCommitRequested") /\ CommitResult
    BY <1>0, <2>1, <2>4, CommitOrder, EngineSame
  <2> QED
    BY <1>8, <2>2, <2>3, <2>4 DEF DispatcherHandles
<1>9. CASE Observed
  <2>1. /\ bus.queue # <<>> /\ HeadEvent.type # "AttemptFinished"
        /\ bus' = Remaining /\ task' = task /\ UNCHANGED <<eng, disk, restartRequired>>
    BY <1>9 DEF Observed, Delivers, engineVars, dispatcherVars
  <2>2. SameOrder(bus', task')
    BY <1>0, <2>1, RemainingOrder
  <2> QED
    BY <1>0, <2>1, <2>2, EngineSame
<1>10. ASSUME NEW e \in Execs, NEW n \in Node, TaskSteps(e, n)
       PROVE  AttemptsOrdered'
  BY <1>0, <1>10, TaskStepOrder, EngineSame DEF TaskSteps, engineVars
<1>11. ASSUME NEW e \in Execs, NEW n \in Node, DeadlinePasses(e, n)
       PROVE  AttemptsOrdered'
  <2>1. KeepsOpen
    BY <1>1, <1>11, DeadlineOpen DEF DeadlinePasses
  <2>2. bus' = bus /\ UNCHANGED <<eng, disk, restartRequired>>
    BY <1>11 DEF DeadlinePasses, Deadline, engineVars
  <2> QED
    BY <1>0, <1>1, <2>1, <2>2, KeptOrder, EngineSame
<1>12. ASSUME NEW t \in Controls, NEW e \in Execs, Control(t, e)
       PROVE  AttemptsOrdered'
  BY <1>0, <1>12, ControlOrder, EngineSame DEF Control, engineVars
<1>13. CASE UNCHANGED vars
  <2>1. bus' = bus /\ task' = task /\ UNCHANGED <<eng, disk, restartRequired>>
    BY <1>13 DEF vars, engineVars, dispatcherVars
  <2> QED
    BY <1>0, <1>1, <2>1, EngineSame
<1> QED
  BY <1>3, <1>4, <1>5, <1>6, <1>7, <1>8, <1>9, <1>10, <1>11, <1>12, <1>13 DEF Next, BusStep

(***************************************************************************)
(* One attempt at a time: a node is handed out once, and no attempt but    *)
(* the active one is recorded as running, in memory and in the snapshot,   *)
(* however attempts, retries, kills, overloads and restarts are ordered    *)
(* (dispatchNode, AttemptStarted, AttemptFinished, runTask).               *)
(***************************************************************************)
THEOREM OneAttempt == Spec => []OneAttemptAtATime
<1>1. Init => OnceInv /\ OrderInv
  BY OnceInit, OrderInit
<1>2. TypeOK /\ SafetyInv /\ OnceInv /\ OrderInv /\ [Next]_vars => OnceInv' /\ OrderInv'
  BY OnceNext, OrderNext
<1>3. OrderInv => RunningAttemptIsActive
  BY DEF OrderInv, AttemptsOrdered, SameAttempts, ActiveRuns, RunningAttemptIsActive
<1>4. SingleDispatch /\ RunningAttemptIsActive => OneAttemptAtATime
  BY DEF OneAttemptAtATime
<1> QED
  BY <1>1, <1>2, <1>3, <1>4, TypeCorrect, Safety, HandedOutOnce, PTL DEF Spec

-----------------------------------------------------------------------------
(***************************************************************************)
(* Artifacts.  The artifact of a result is announced, in ArtifactStored,   *)
(* before the attempt that returned it can complete.  So WorkerCompleted   *)
(* finds the artifact recorded, unless the recording was refused because   *)
(* the execution was no longer live; then the completion is refused too.   *)
(* What could come between is an execution that is live again while the    *)
(* completion still waits: a reconciliation.  Where every save succeeds    *)
(* only a restart interrupts executions, and it takes the queue with it.   *)
(***************************************************************************)
Completes(ev, e, n) == ev.type = "WorkerCompleted" /\ ev.exec = e /\ ev.node = n
Stores(ev, e, n) == ev.type = "ArtifactStored" /\ ev.exec = e /\ ev.node = n

StoredFirst(q, e, n) ==
    \A j \in 1..Len(q) : Completes(q[j], e, n) => \E i \in 1..(j - 1) : Stores(q[i], e, n)

StoreQueued(q, e, n) == \E i \in 1..Len(q) : Stores(q[i], e, n)

(* Published, or thrown away with everything after it. *)
StoreSent(b, e, n) == StoreQueued(b.queue, e, n) \/ b.overloaded \/ b.closed

(* The engine needs the announcement no more. *)
Provided(s, e, n) == n \in s.artifact[e] \/ s.status[e] \notin Live

Acknowledged(e, n) == task[e][n].pc \in {"acked", "returned"}

NodeProvided(e, n) ==
    \/ Provided(eng, e, n)
    \/ StoredFirst(bus.queue, e, n) /\ (Acknowledged(e, n) => StoreSent(bus, e, n))

DoneStored(s) ==
    \A e \in Execs : \A n \in Producers : s.node[e][n] = "done" => n \in s.artifact[e]

StoreInv ==
    /\ DoneStored(eng) /\ DoneStored(disk)
    /\ \A e \in Execs : \A n \in Producers : NodeProvided(e, n)

-----------------------------------------------------------------------------
(* The queue. *)

LEMMA PublishStores ==
    ASSUME NEW b \in BusValue(Event), NEW ev \in Event, NEW e, NEW n
    PROVE  LET c == Publish(b, ev)
           IN  /\ StoreSent(b, e, n) => StoreSent(c, e, n)
               /\ Stores(ev, e, n) => StoreSent(c, e, n)
               /\ StoredFirst(b.queue, e, n) /\ (Completes(ev, e, n) => StoreSent(b, e, n))
                     => StoredFirst(c.queue, e, n)
<1> DEFINE c == Publish(b, ev)
<1>1. b.queue \in Seq(Event)
  BY DEF BusValue
<1>2. CASE b.closed \/ b.overloaded
  BY <1>2 DEF Publish, Enqueue, Refused, StoreSent
<1>3. CASE ~b.closed /\ ~b.overloaded /\ Len(b.queue) >= Capacity
  <2>1. c.queue = <<RuntimeOverloaded>> /\ c.overloaded
    BY <1>3 DEF Publish, Enqueue, Refused, BusValue
  <2> HIDE DEF c
  <2>2. StoredFirst(c.queue, e, n)
    BY <2>1 DEF StoredFirst, Completes, RuntimeOverloaded, ExecEvent, TaskEvent
  <2> QED
    BY <2>1, <2>2 DEF c, StoreSent
<1>4. CASE ~b.closed /\ ~b.overloaded /\ ~(Len(b.queue) >= Capacity)
  <2>1. /\ c.queue = Append(b.queue, ev)
        /\ c.overloaded = b.overloaded /\ c.closed = b.closed
    BY <1>4 DEF Publish, Enqueue, Refused, BusValue
  <2> HIDE DEF c
  <2>2. /\ Len(c.queue) = Len(b.queue) + 1
        /\ Len(b.queue) \in Nat
        /\ c.queue[Len(b.queue) + 1] = ev
        /\ \A i \in 1..Len(b.queue) : c.queue[i] = b.queue[i]
    BY <1>1, <2>1
  <2>3. StoreQueued(b.queue, e, n) \/ Stores(ev, e, n) => StoreQueued(c.queue, e, n)
    BY <2>2 DEF StoreQueued
  <2>4. ASSUME StoredFirst(b.queue, e, n), Completes(ev, e, n) => StoreSent(b, e, n)
        PROVE  StoredFirst(c.queue, e, n)
    <3> SUFFICES ASSUME NEW j \in 1..Len(c.queue), Completes(c.queue[j], e, n)
                 PROVE  \E i \in 1..(j - 1) : Stores(c.queue[i], e, n)
      BY DEF StoredFirst
    <3>1. CASE j \in 1..Len(b.queue)
      <4>1. PICK i \in 1..(j - 1) : Stores(b.queue[i], e, n)
        BY <2>2, <2>4, <3>1 DEF StoredFirst
      <4>2. i \in 1..Len(b.queue)
        BY <2>2, <3>1
      <4> QED
        BY <2>2, <4>1, <4>2
    <3>2. CASE j = Len(b.queue) + 1
      <4>1. PICK i \in 1..Len(b.queue) : Stores(b.queue[i], e, n)
        BY <1>4, <2>2, <2>4, <3>2 DEF StoreSent, StoreQueued
      <4>2. i \in 1..(j - 1)
        BY <2>2, <3>2
      <4> QED
        BY <2>2, <4>1, <4>2
    <3> QED
      BY <2>2, <3>1, <3>2
  <2> QED
    BY <2>1, <2>3, <2>4 DEF c, StoreSent
<1> QED
  BY <1>2, <1>3, <1>4

LEMMA RemainingStores ==
    ASSUME bus \in BusValue(Event), bus.queue # <<>>, NEW e, NEW n,
           ~Stores(HeadEvent, e, n)
    PROVE  /\ StoreSent(bus, e, n) => StoreSent(Remaining, e, n)
           /\ StoredFirst(bus.queue, e, n) => StoredFirst(Remaining.queue, e, n)
<1> DEFINE q == bus.queue
           t == Tail(q)
<1>1. q \in Seq(Event)
  BY DEF BusValue
<1>2. /\ Remaining.queue = t
      /\ Remaining.closed = bus.closed
      /\ Remaining.overloaded = bus.overloaded
  BY DEF Remaining, BusValue
<1>3. /\ Len(q) \in Nat
      /\ Len(t) = Len(q) - 1
      /\ \A i \in 1..Len(t) : t[i] = q[i + 1]
      /\ q[1] = HeadEvent
  BY <1>1 DEF HeadEvent
<1> HIDE DEF q, t
<1>4. ASSUME NEW i \in 1..Len(q), Stores(q[i], e, n)
      PROVE  i - 1 \in 1..Len(t) /\ Stores(t[i - 1], e, n)
  <2>1. i # 1
    BY <1>3, <1>4
  <2>2. i - 1 \in 1..Len(t) /\ (i - 1) + 1 = i
    BY <1>3, <2>1
  <2> QED
    BY <1>3, <1>4, <2>2
<1>5. StoreQueued(q, e, n) => StoreQueued(t, e, n)
  BY <1>4 DEF StoreQueued
<1>6. ASSUME StoredFirst(q, e, n), NEW j \in 1..Len(t), Completes(t[j], e, n)
      PROVE  \E i \in 1..(j - 1) : Stores(t[i], e, n)
  <2>1. j + 1 \in 1..Len(q) /\ Completes(q[j + 1], e, n)
    BY <1>3, <1>6
  <2>2. PICK i \in 1..((j + 1) - 1) : Stores(q[i], e, n)
    BY <1>6, <2>1 DEF StoredFirst
  <2>3. i \in 1..Len(q)
    BY <1>3, <2>1
  <2>4. i - 1 \in 1..Len(t) /\ Stores(t[i - 1], e, n)
    BY <1>4, <2>2, <2>3
  <2>5. i - 1 \in 1..(j - 1)
    BY <2>2, <2>4
  <2> QED
    BY <2>4, <2>5
<1> QED
  BY <1>2, <1>5, <1>6 DEF q, t, StoredFirst, StoreSent

(***************************************************************************)
(* A handler of the engine publishes signals: events about no task.        *)
(***************************************************************************)
Employs(ev, e) == ev.type \in {"TaskCreated", "WorkerCompleted"} /\ ev.exec = e
Unemployed(b, e) == \A i \in 1..Len(b.queue) : ~Employs(b.queue[i], e)

KeepsStores(b, c) ==
    /\ c \in BusValue(Event)
    /\ \A e \in Execs : \A n \in Node :
          /\ StoreSent(b, e, n) => StoreSent(c, e, n)
          /\ StoredFirst(b.queue, e, n) => StoredFirst(c.queue, e, n)
    /\ \A e \in Execs : Unemployed(b, e) => Unemployed(c, e)

LEMMA KeepsStoresTrans ==
    ASSUME NEW b, NEW c, NEW d, KeepsStores(b, c), KeepsStores(c, d)
    PROVE  KeepsStores(b, d)
  BY DEF KeepsStores

LEMMA SameStores ==
    ASSUME NEW b \in BusValue(Event)
    PROVE  KeepsStores(b, b)
  BY DEF KeepsStores

LEMMA PublishUnemployed ==
    ASSUME NEW b \in BusValue(Event), NEW ev \in Event, NEW e, ~Employs(ev, e),
           Unemployed(b, e)
    PROVE  Unemployed(Publish(b, ev), e)
<1> DEFINE r == Publish(b, ev).queue
<1>1. b.queue \in Seq(Event)
  BY DEF BusValue
<1>2. r = b.queue \/ r = <<RuntimeOverloaded>> \/ r = Append(b.queue, ev)
  BY DEF Publish, Enqueue, BusValue
<1> HIDE DEF r
<1>3. \A i \in 1..Len(r) : ~Employs(r[i], e)
  <2>1. CASE r = <<RuntimeOverloaded>>
    BY <2>1 DEF Employs, RuntimeOverloaded, ExecEvent, TaskEvent
  <2>2. CASE r = b.queue
    BY <2>2 DEF Unemployed
  <2>3. CASE r = Append(b.queue, ev)
    BY <1>1, <2>3 DEF Unemployed
  <2> QED
    BY <1>2, <2>1, <2>2, <2>3
<1> QED
  BY <1>3 DEF r, Unemployed

LEMMA OtherStores ==
    ASSUME NEW b \in BusValue(Event), NEW ev \in Event,
           ev.type \notin {"TaskCreated", "WorkerCompleted"}
    PROVE  KeepsStores(b, Publish(b, ev))
<1>1. \A e, n : ~Completes(ev, e, n) /\ ~Employs(ev, e)
  BY DEF Completes, Employs
<1> QED
  BY <1>1, PublishType, PublishStores, PublishUnemployed DEF KeepsStores

LEMMA RemainingKeeps ==
    ASSUME bus \in BusValue(Event), bus.queue # <<>>, HeadEvent.type # "ArtifactStored"
    PROVE  KeepsStores(bus, Remaining)
<1>1. \A e, n : ~Stores(HeadEvent, e, n)
  BY DEF Stores
<1>2. \A e : Unemployed(bus, e) => Unemployed(Remaining, e)
  <2>1. bus.queue \in Seq(Event) /\ Remaining.queue = Tail(bus.queue)
    BY DEF BusValue, Remaining
  <2>2. \A i \in 1..Len(Tail(bus.queue)) : i + 1 \in 1..Len(bus.queue)
                                        /\ Tail(bus.queue)[i] = bus.queue[i + 1]
    BY <2>1
  <2> QED
    BY <2>1, <2>2 DEF Unemployed
<1> QED
  BY <1>1, <1>2, RemainingStores, RemainingType DEF KeepsStores

LEMMA PropagatedKeeps ==
    ASSUME NEW e \in Execs, Remaining \in BusValue(Event),
           NEW t \in {"ExecutionKilled", "ExecutionPaused", "ExecutionResumed"}
    PROVE  KeepsStores(Remaining, Propagated(t, e))
<1>1. CASE CompileOf[e] = NoExec
  BY <1>1, SameStores DEF Propagated
<1>2. CASE CompileOf[e] # NoExec
  <2>1. CompileOf[e] \in Execs
    BY <1>2, BusAssumption DEF BusAssumption
  <2>2. ExecEvent(t, CompileOf[e], "none") \in Event
    BY <2>1, ExecEventType DEF EventType, EventArg, RuntimeType, TaskType, AttemptType
  <2>3. ExecEvent(t, CompileOf[e], "none").type = t
    BY DEF ExecEvent, TaskEvent
  <2> QED
    BY <1>2, <2>2, <2>3, OtherStores DEF Propagated
<1> QED
  BY <1>1, <1>2

-----------------------------------------------------------------------------
(***************************************************************************)
(* What a step of the engine makes of its state: nothing becomes live but  *)
(* an execution of R, nothing is interrupted, no artifact is lost, a node  *)
(* is done that was, or whose completion ev is accepted, and an artifact   *)
(* that ev announces is recorded, unless the execution is over.            *)
(***************************************************************************)
Bears(s, ev, R) ==
    \A e \in Execs :
        /\ s.status[e] \in Live => eng.status[e] \in Live \/ e \in R
        /\ s.status[e] = "interrupted" => eng.status[e] = "interrupted"
        /\ eng.artifact[e] \subseteq s.artifact[e]
        /\ \A n \in Node :
              /\ s.node[e][n] = "done" =>
                    eng.node[e][n] = "done" \/ (Completes(ev, e, n) /\ eng.status[e] \in Live)
              /\ Stores(ev, e, n) => Provided(s, e, n)

(* The simple case: no artifact is recorded, no node gets done. *)
Calm(s) ==
    \A e \in Execs :
        /\ s.status[e] \in Live => eng.status[e] \in Live
        /\ s.status[e] = "interrupted" => eng.status[e] = "interrupted"
        /\ s.artifact[e] = eng.artifact[e]
        /\ \A n \in Node : s.node[e][n] = "done" => eng.node[e][n] = "done"

EngineEnds(s, b) ==
    \/ Saved(s, b)
    \/ \E x, m : SaveFailed(s, x, m, b)
    \/ eng' = s /\ bus' = b /\ Unsaved

EngineBears(ev, b, R) == \E s, c : /\ KeepsStores(b, c)
                                   /\ Bears(s, ev, R)
                                   /\ EngineEnds(s, c)

LEMMA CalmBears ==
    ASSUME NEW s, Calm(s), NEW ev, ev.type # "ArtifactStored"
    PROVE  Bears(s, ev, {})
<1>1. \A e, n : ~Stores(ev, e, n)
  BY DEF Stores
<1> QED
  BY <1>1 DEF Calm, Bears

LEMMA CalmEnds ==
    ASSUME NEW s, Calm(s), NEW ev, ev.type # "ArtifactStored", NEW b, NEW c,
           KeepsStores(b, c), EngineEnds(s, c)
    PROVE  EngineBears(ev, b, {})
  BY CalmBears DEF EngineBears

LEMMA EngineCalm == Calm(eng)
  BY DEF Calm

HandlerReady ==
    /\ bus \in BusValue(Event) /\ bus.queue # <<>> /\ eng \in EngineState
    /\ Remaining \in BusValue(Event) /\ KeepsStores(Remaining, Remaining)

LEMMA HandlerIsReady ==
    ASSUME TypeOK, NEW t, Handling(t)
    PROVE  HandlerReady /\ HeadEvent.type = t
  BY RemainingType, SameStores DEF HandlerReady, Handling, Delivers, TypeOK, StateTypeOK

LEMMA DroppedBears ==
    ASSUME HandlerReady, Dropped, HeadEvent.type # "ArtifactStored"
    PROVE  EngineBears(HeadEvent, Remaining, {})
<1>1. EngineEnds(eng, Remaining)
  BY DEF Dropped, EngineEnds
<1> QED
  BY <1>1, EngineCalm, CalmEnds DEF HandlerReady

LEMMA OverloadedBears ==
    ASSUME TypeOK, HandleOverloaded
    PROVE  EngineBears(HeadEvent, Remaining, {})
<1> DEFINE hit == {e \in Execs : eng.status[e] \in Live}
           status == [e \in Execs |-> IF e \in hit THEN "failed" ELSE eng.status[e]]
           node == [e \in Execs |-> [n \in Node |->
                      IF e \in hit /\ eng.node[e][n] \notin {"done", "absent"}
                      THEN "failed" ELSE eng.node[e][n]]]
<1>1. HandlerReady /\ HeadEvent.type = "RuntimeOverloaded"
  BY HandlerIsReady DEF HandleOverloaded
<1>2. PICK s : /\ s.status = status /\ s.node = node /\ s.artifact = eng.artifact
               /\ EngineEnds(s, Remaining)
  BY <1>1 DEF HandleOverloaded, HandlerReady, EngineState, EngineEnds
<1>3. Calm(s)
  BY <1>2 DEF Calm, Live
<1> QED
  BY <1>1, <1>2, <1>3, CalmEnds DEF HandlerReady

LEMMA AttemptBears ==
    ASSUME TypeOK, HandleAttemptStarted \/ HandleAttemptFinished
    PROVE  EngineBears(HeadEvent, Remaining, {})
<1>1. /\ HandlerReady /\ HeadEvent.type \in {"AttemptStarted", "AttemptFinished"}
      /\ \/ Dropped
         \/ \E s : /\ s.status = eng.status /\ s.node = eng.node
                   /\ s.artifact = eng.artifact
                   /\ EngineEnds(s, Remaining)
  <2> DEFINE e == HeadEvent.exec
             n == HeadEvent.node
             a == HeadEvent.attempt
  <2>1. CASE HandleAttemptStarted
    <3> DEFINE s == [eng EXCEPT !.attempt[e][n][a] = "running", !.active[e][n] = a]
    <3>1. HandlerReady /\ HeadEvent.type = "AttemptStarted"
      BY <2>1, HandlerIsReady DEF HandleAttemptStarted
    <3>2. Dropped \/ EngineEnds(s, Remaining)
      BY <2>1 DEF HandleAttemptStarted, EngineEnds
    <3>3. s.status = eng.status /\ s.node = eng.node /\ s.artifact = eng.artifact
      BY <3>1 DEF HandlerReady, EngineState
    <3> HIDE DEF s
    <3> QED
      BY <3>1, <3>2, <3>3
  <2>2. CASE HandleAttemptFinished
    <3> DEFINE s == [eng EXCEPT !.attempt[e][n][a] =
                        IF @ = "running" THEN HeadEvent.arg ELSE @]
    <3>1. HandlerReady /\ HeadEvent.type = "AttemptFinished"
      BY <2>2, HandlerIsReady DEF HandleAttemptFinished
    <3>2. Dropped \/ EngineEnds(s, Remaining)
      BY <2>2 DEF HandleAttemptFinished, EngineEnds
    <3>3. s.status = eng.status /\ s.node = eng.node /\ s.artifact = eng.artifact
      BY <3>1 DEF HandlerReady, EngineState
    <3> HIDE DEF s
    <3> QED
      BY <3>1, <3>2, <3>3
  <2> QED
    BY <2>1, <2>2
<1>2. CASE Dropped
  BY <1>1, <1>2, DroppedBears
<1>3. ASSUME NEW s, s.status = eng.status, s.node = eng.node, s.artifact = eng.artifact,
             EngineEnds(s, Remaining)
      PROVE  EngineBears(HeadEvent, Remaining, {})
  <2>1. Calm(s)
    BY <1>3 DEF Calm
  <2> QED
    BY <1>1, <1>3, <2>1, CalmEnds DEF HandlerReady
<1> QED
  BY <1>1, <1>2, <1>3

(* The nodes that a delegation adds are pending. *)
LEMMA MutationBears ==
    ASSUME TypeOK, HandleGraphMutation
    PROVE  EngineBears(HeadEvent, Remaining, {})
<1> DEFINE e == HeadEvent.exec
           n == HeadEvent.node
           g(k) == Grown(eng, e, n, k)
<1>1. HandlerReady /\ HeadEvent.type = "GraphMutationRequested" /\ e \in Execs
  BY HandlerIsReady, HeadTask
     DEF HandleGraphMutation, Handling, HandlerReady, TaskType, AttemptType
<1>2. Dropped \/ EngineEnds(eng, Remaining) \/ \E k : EngineEnds(g(k), Remaining)
  BY DEF HandleGraphMutation, EngineEnds
<1>3. ASSUME NEW k
      PROVE  Calm(g(k))
  <2> DEFINE node == [eng.node EXCEPT ![e] = [m \in Node |->
                        IF m \in (eng.count[e] + 1)..(eng.count[e] + k) THEN "pending"
                        ELSE @[m]]]
  <2>1. g(k).status = eng.status /\ g(k).artifact = eng.artifact /\ g(k).node = node
    BY <1>1 DEF Grown, HandlerReady, EngineState
  <2>2. \A f \in Execs : \A m \in Node : node[f][m] = "done" => eng.node[f][m] = "done"
    BY <1>1 DEF HandlerReady, EngineState
  <2> HIDE DEF g, node
  <2> QED
    BY <2>1, <2>2 DEF Calm
<1> HIDE DEF g
<1> QED
  BY <1>1, <1>2, <1>3, EngineCalm, CalmEnds, DroppedBears DEF HandlerReady

(***************************************************************************)
(* The artifact is recorded, or its execution is not live.                 *)
(***************************************************************************)
LEMMA ArtifactBears ==
    ASSUME TypeOK, HandleArtifact
    PROVE  EngineBears(HeadEvent, Remaining, {})
<1> DEFINE e == HeadEvent.exec
           n == HeadEvent.node
           artifact == [eng.artifact EXCEPT ![e] = @ \cup {n}]
<1>1. HandlerReady /\ HeadEvent.type = "ArtifactStored" /\ e \in Execs
  BY HandlerIsReady, HeadTask
     DEF HandleArtifact, Handling, HandlerReady, TaskType, AttemptType
<1>2. \/ eng.status[e] \notin Live /\ EngineEnds(eng, Remaining)
      \/ \E s : /\ s.status = eng.status /\ s.node = eng.node /\ s.artifact = artifact
                /\ EngineEnds(s, Remaining)
  BY <1>1 DEF HandleArtifact, HandlerReady, EngineState, EngineEnds, Dropped
<1>3. /\ n \in artifact[e]
      /\ \A f \in Execs : eng.artifact[f] \subseteq artifact[f]
  BY <1>1 DEF HandlerReady, EngineState
<1>4. \A f, m : Stores(HeadEvent, f, m) => f = e /\ m = n
  BY DEF Stores
<1> HIDE DEF e, n, artifact
<1>5. CASE eng.status[e] \notin Live /\ EngineEnds(eng, Remaining)
  <2>1. Bears(eng, HeadEvent, {})
    BY <1>4, <1>5 DEF Bears, Provided
  <2> QED
    BY <1>1, <1>5, <2>1 DEF EngineBears, HandlerReady
<1>6. ASSUME NEW s, s.status = eng.status, s.node = eng.node, s.artifact = artifact,
             EngineEnds(s, Remaining)
      PROVE  EngineBears(HeadEvent, Remaining, {})
  <2>1. Bears(s, HeadEvent, {})
    BY <1>3, <1>4, <1>6 DEF Bears, Provided
  <2> QED
    BY <1>1, <1>6, <2>1 DEF EngineBears, HandlerReady
<1> QED
  BY <1>2, <1>5, <1>6

LEMMA CompletedBears ==
    ASSUME TypeOK, HandleWorkerCompleted
    PROVE  EngineBears(HeadEvent, Remaining, {})
<1> DEFINE e == HeadEvent.exec
           n == HeadEvent.node
           node == [eng.node EXCEPT ![e][n] = "done"]
<1>1. HandlerReady /\ HeadEvent.type = "WorkerCompleted" /\ e \in Execs /\ n \in Node
  BY HandlerIsReady, HeadTask
     DEF HandleWorkerCompleted, Handling, HandlerReady, TaskType, AttemptType
<1>2. \/ Dropped
      \/ \E s : /\ eng.status[e] \in Live
                /\ s.status = eng.status /\ s.node = node /\ s.artifact = eng.artifact
                /\ EngineEnds(s, Remaining)
  <2> DEFINE d == [eng EXCEPT !.node[e][n] = "done"]
             s == [d EXCEPT !.active[e][n] = 0]
  <2>1. \/ Dropped
        \/ eng.status[e] \in Live /\ (EngineEnds(s, Remaining) \/ EngineEnds(d, Remaining))
    BY DEF HandleWorkerCompleted, EngineEnds
  <2>2. \A t \in {s, d} : /\ t.status = eng.status /\ t.node = node
                          /\ t.artifact = eng.artifact
    BY <1>1 DEF HandlerReady, EngineState
  <2> HIDE DEF s, d
  <2> QED
    BY <2>1, <2>2
<1>3. \A f \in Execs : \A m \in Node :
         node[f][m] = "done" => eng.node[f][m] = "done" \/ (f = e /\ m = n)
  BY <1>1 DEF HandlerReady, EngineState
<1>4. Completes(HeadEvent, e, n) /\ \A f, m : ~Stores(HeadEvent, f, m)
  BY <1>1 DEF Completes, Stores
<1>5. CASE Dropped
  BY <1>1, <1>5, DroppedBears
<1> HIDE DEF e, n, node
<1>6. ASSUME NEW s, eng.status[e] \in Live, s.status = eng.status, s.node = node,
             s.artifact = eng.artifact, EngineEnds(s, Remaining)
      PROVE  EngineBears(HeadEvent, Remaining, {})
  <2>1. Bears(s, HeadEvent, {})
    BY <1>3, <1>4, <1>6 DEF Bears
  <2> QED
    BY <1>1, <1>6, <2>1 DEF EngineBears, HandlerReady
<1> QED
  BY <1>2, <1>5, <1>6

LEMMA FailedBears ==
    ASSUME TypeOK, HandleWorkerFailed
    PROVE  EngineBears(HeadEvent, Remaining, {})
<1> DEFINE e == HeadEvent.exec
           n == HeadEvent.node
           status == [eng.status EXCEPT ![e] = "failed"]
           node == [eng.node EXCEPT ![e] = [m \in Node |->
                      IF m = n THEN "failed" ELSE IF @[m] = "pending" THEN "blocked" ELSE @[m]]]
           b == Publish(Remaining, ExecEvent("ExecutionKilled", e, "none"))
           c == Publish(b, ExecEvent("WorkflowFailed", e, "none"))
<1>1. HandlerReady /\ HeadEvent.type = "WorkerFailed" /\ e \in Execs
  BY HandlerIsReady, HeadTask DEF HandleWorkerFailed, Handling, HandlerReady, TaskType
<1>2. \/ Dropped
      \/ \E s : /\ s.status = status /\ s.node = node /\ s.artifact = eng.artifact
                /\ EngineEnds(s, b) \/ EngineEnds(s, c)
  BY <1>1 DEF HandleWorkerFailed, HandlerReady, EngineState, EngineEnds
<1>3. KeepsStores(Remaining, b) /\ KeepsStores(b, c)
  <2>1. \A t \in {"ExecutionKilled", "WorkflowFailed"} :
           /\ ExecEvent(t, e, "none") \in Event
           /\ ExecEvent(t, e, "none").type = t
    <3>1. \A t \in {"ExecutionKilled", "WorkflowFailed"} : ExecEvent(t, e, "none") \in Event
      BY <1>1, ExecEventType DEF EventType, EventArg, RuntimeType, TaskType, AttemptType
    <3> QED
      BY <3>1 DEF ExecEvent, TaskEvent
  <2>2. KeepsStores(Remaining, b)
    BY <1>1, <2>1, OtherStores DEF HandlerReady
  <2>3. b \in BusValue(Event)
    BY <2>2 DEF KeepsStores
  <2> HIDE DEF b
  <2> QED
    BY <2>1, <2>2, <2>3, OtherStores
<1>4. KeepsStores(Remaining, c)
  BY <1>3, KeepsStoresTrans
<1>5. CASE Dropped
  BY <1>1, <1>5, DroppedBears
<1>6. \A f \in Execs : /\ status[f] \in {eng.status[f], "failed"}
                       /\ \A m \in Node : node[f][m] = "done" => eng.node[f][m] = "done"
  BY <1>1 DEF HandlerReady, EngineState
<1> HIDE DEF e, n, status, node, b, c
<1>7. ASSUME NEW s, s.status = status, s.node = node, s.artifact = eng.artifact,
             EngineEnds(s, b) \/ EngineEnds(s, c)
      PROVE  EngineBears(HeadEvent, Remaining, {})
  <2>1. Calm(s)
    BY <1>6, <1>7 DEF Calm, Live
  <2>2. HeadEvent.type # "ArtifactStored"
    BY <1>1
  <2> QED
    BY <1>3, <1>4, <1>7, <2>1, <2>2, CalmEnds
<1> QED
  BY <1>2, <1>5, <1>7

LEMMA KilledBears ==
    ASSUME TypeOK, HandleKilled
    PROVE  EngineBears(HeadEvent, Remaining, {})
<1> DEFINE e == HeadEvent.exec
           status == [eng.status EXCEPT ![e] = IF @ \in Live THEN "cancelled" ELSE @]
           node == [eng.node EXCEPT ![e] = Blocked(@)]
           b == Propagated("ExecutionKilled", e)
<1>1. HandlerReady /\ HeadEvent.type = "ExecutionKilled" /\ e \in Execs
  BY HandlerIsReady, HeadExec
     DEF HandleKilled, Handling, HandlerReady, EventType, RuntimeType
<1>2. \E s : /\ s.status = status /\ s.node = node /\ s.artifact = eng.artifact
             /\ EngineEnds(s, b)
  BY <1>1 DEF HandleKilled, HandlerReady, EngineState, EngineEnds
<1>3. KeepsStores(Remaining, b)
  BY <1>1, PropagatedKeeps DEF HandlerReady
<1>4. \A f \in Execs : /\ status[f] \in {eng.status[f], "cancelled"}
                       /\ \A m \in Node : node[f][m] = "done" => eng.node[f][m] = "done"
  BY <1>1 DEF HandlerReady, EngineState, Blocked
<1> HIDE DEF e, status, node, b
<1>5. ASSUME NEW s, s.status = status, s.node = node, s.artifact = eng.artifact,
             EngineEnds(s, b)
      PROVE  EngineBears(HeadEvent, Remaining, {})
  <2>1. Calm(s)
    BY <1>4, <1>5 DEF Calm, Live
  <2> QED
    BY <1>1, <1>3, <1>5, <2>1, CalmEnds
<1> QED
  BY <1>2, <1>5

LEMMA PausedBears ==
    ASSUME TypeOK, HandlePaused
    PROVE  EngineBears(HeadEvent, Remaining, {})
<1> DEFINE e == HeadEvent.exec
           status == [eng.status EXCEPT ![e] = IF @ = "running" THEN "paused" ELSE @]
           b == Propagated("ExecutionPaused", e)
<1>1. HandlerReady /\ HeadEvent.type = "ExecutionPaused" /\ e \in Execs
  BY HandlerIsReady, HeadExec
     DEF HandlePaused, Handling, HandlerReady, EventType, RuntimeType
<1>2. \E s : /\ s.status = status /\ s.node = eng.node /\ s.artifact = eng.artifact
             /\ EngineEnds(s, b)
  BY <1>1 DEF HandlePaused, HandlerReady, EngineState, EngineEnds
<1>3. KeepsStores(Remaining, b)
  BY <1>1, PropagatedKeeps DEF HandlerReady
<1>4. \A f \in Execs : status[f] # eng.status[f] =>
                          eng.status[f] = "running" /\ status[f] = "paused"
  BY <1>1 DEF HandlerReady, EngineState
<1> HIDE DEF e, status, b
<1>5. ASSUME NEW s, s.status = status, s.node = eng.node, s.artifact = eng.artifact,
             EngineEnds(s, b)
      PROVE  EngineBears(HeadEvent, Remaining, {})
  <2>1. Calm(s)
    BY <1>4, <1>5 DEF Calm, Live
  <2> QED
    BY <1>1, <1>3, <1>5, <2>1, CalmEnds
<1> QED
  BY <1>2, <1>5

LEMMA ResumedBears ==
    ASSUME TypeOK, HandleResumed
    PROVE  EngineBears(HeadEvent, Remaining, {})
<1> DEFINE e == HeadEvent.exec
           cleared == [eng EXCEPT !.paused = @ \ {e}]
           s == [cleared EXCEPT !.status[e] = "running"]
           b == Propagated("ExecutionResumed", e)
<1>1. HandlerReady /\ HeadEvent.type = "ExecutionResumed" /\ e \in Execs
  BY HandlerIsReady, HeadExec
     DEF HandleResumed, Handling, HandlerReady, EventType, RuntimeType
<1>2. EngineEnds(cleared, b) \/ (eng.status[e] = "paused" /\ EngineEnds(s, b))
  BY DEF HandleResumed, EngineEnds
<1>3. KeepsStores(Remaining, b)
  BY <1>1, PropagatedKeeps DEF HandlerReady
<1>4. /\ cleared.status = eng.status /\ cleared.node = eng.node
      /\ cleared.artifact = eng.artifact
      /\ s.node = eng.node /\ s.artifact = eng.artifact
      /\ s.status = [eng.status EXCEPT ![e] = "running"]
  BY <1>1 DEF HandlerReady, EngineState
<1>5. eng.status \in [Execs -> ExecStatus]
  BY <1>1 DEF HandlerReady, EngineState
<1> HIDE DEF e, cleared, s, b
<1>6. Calm(cleared)
  BY <1>4 DEF Calm
<1>7. eng.status[e] = "paused" => Calm(s)
  BY <1>1, <1>4, <1>5 DEF Calm, Live
<1> QED
  BY <1>1, <1>2, <1>3, <1>6, <1>7, CalmEnds

(***************************************************************************)
(* A retry makes an interrupted execution live again.                      *)
(***************************************************************************)
Revived(R) ==
    \/ R = {}
    \/ HeadEvent.type = "ExecutionReconciled" /\ \A e \in R : eng.status[e] = "interrupted"

LEMMA ReconciledBears ==
    ASSUME TypeOK, HandleReconciled
    PROVE  \E R : Revived(R) /\ EngineBears(HeadEvent, Remaining, R)
<1> DEFINE e == HeadEvent.exec
           again(n) == eng.node[e][n] = "interrupted"
           s == [eng EXCEPT
                    !.status[e] = "running",
                    !.node[e] = [n \in Node |-> IF again(n) THEN "pending" ELSE @[n]],
                    !.active[e] = [n \in Node |-> IF again(n) THEN 0 ELSE @[n]]]
           t == [eng EXCEPT
                    !.status[e] = IF HeadEvent.arg = "cancel" THEN "cancelled" ELSE "failed",
                    !.node[e] = Blocked(@)]
<1>1. HandlerReady /\ HeadEvent.type = "ExecutionReconciled" /\ e \in Execs
  BY HandlerIsReady, HeadExec
     DEF HandleReconciled, Handling, HandlerReady, EventType, RuntimeType
<1>2. \/ Dropped \/ EngineEnds(eng, Remaining) \/ EngineEnds(t, Remaining)
      \/ (eng.status[e] = "interrupted" /\ EngineEnds(s, Remaining))
  <2>1. \/ Dropped
        \/ SaveFailed(eng, e, 0, Remaining)
        \/ Saved(t, Remaining) \/ SaveFailed(t, e, 0, Remaining)
        \/ (eng.status[e] = "interrupted" /\ Saved(s, Remaining))
    BY DEF HandleReconciled
  <2> HIDE DEF e, s, t
  <2> QED
    BY <2>1 DEF EngineEnds
<1>3. /\ s.artifact = eng.artifact /\ t.artifact = eng.artifact
      /\ \A f \in Execs : /\ f # e => s.status[f] = eng.status[f]
                          /\ (s.status[f] # "interrupted" \/ f # e)
                          /\ t.status[f] \in {eng.status[f], "cancelled", "failed"}
  BY <1>1 DEF HandlerReady, EngineState
<1>4. \A f \in Execs : \A m \in Node : /\ s.node[f][m] = "done" => eng.node[f][m] = "done"
                                       /\ t.node[f][m] = "done" => eng.node[f][m] = "done"
  BY <1>1 DEF HandlerReady, EngineState, Blocked
<1>5. Revived({}) /\ (eng.status[e] = "interrupted" => Revived({e}))
  BY <1>1 DEF Revived
<1>6. KeepsStores(Remaining, Remaining)
  BY <1>1 DEF HandlerReady
<1>7. \A f, m : ~Stores(HeadEvent, f, m)
  BY <1>1 DEF Stores
<1> HIDE DEF e, s, t
<1>8. CASE Dropped
  BY <1>1, <1>5, <1>8, DroppedBears
<1>9. CASE EngineEnds(eng, Remaining) \/ EngineEnds(t, Remaining)
  <2>1. Calm(t)
    BY <1>3, <1>4 DEF Calm, Live
  <2> QED
    BY <1>1, <1>5, <1>6, <1>9, <2>1, EngineCalm, CalmEnds
<1>10. CASE eng.status[e] = "interrupted" /\ EngineEnds(s, Remaining)
  <2>1. Bears(s, HeadEvent, {e})
    BY <1>3, <1>4, <1>7, <1>10 DEF Bears
  <2> QED
    BY <1>5, <1>6, <1>10, <2>1 DEF EngineBears
<1> QED
  BY <1>2, <1>8, <1>9, <1>10

LEMMA HandlerBears ==
    ASSUME TypeOK, EngineHandler
    PROVE  \E R : Revived(R) /\ EngineBears(HeadEvent, Remaining, R)
<1>1. Revived({})
  BY DEF Revived
<1>2. CASE \/ HandleOverloaded \/ HandleAttemptStarted \/ HandleAttemptFinished
           \/ HandleGraphMutation \/ HandleArtifact \/ HandleWorkerCompleted
  BY <1>1, <1>2, OverloadedBears, AttemptBears, MutationBears, ArtifactBears, CompletedBears
<1>3. CASE HandleWorkerFailed \/ HandleKilled \/ HandlePaused \/ HandleResumed
  BY <1>1, <1>3, FailedBears, KilledBears, PausedBears, ResumedBears
<1> QED
  BY <1>2, <1>3, ReconciledBears DEF EngineHandler

-----------------------------------------------------------------------------
(***************************************************************************)
(* An execution at rest has no goroutine, and nothing is queued that could *)
(* start one or complete a node.                                           *)
(***************************************************************************)
AtRest(e) == Unemployed(bus, e) /\ \A n \in Node : task[e][n].pc = "none"

(* What taking ev off the queue, or leaving the queue alone, leaves in b. *)
Leaves(b, ev) ==
    /\ \A e \in Execs : \A n \in Node : ~Stores(ev, e, n) =>
          /\ StoreSent(bus, e, n) => StoreSent(b, e, n)
          /\ StoredFirst(bus.queue, e, n) => StoredFirst(b.queue, e, n)
    /\ \A e \in Execs : Unemployed(bus, e) => Unemployed(b, e)

LEMMA ReportStored ==
    ASSUME NEW s, NEW x, NEW m, DoneStored(s)
    PROVE  DoneStored(Report(s, x, m)) /\ NoneLive(Report(s, x, m))
<1>1. Report(s, x, m).artifact = s.artifact
  BY DEF Report
<1>2. \A e \in Execs : \A n \in Node :
         Report(s, x, m).node[e][n] = "done" => s.node[e][n] = "done"
  BY DEF Report
<1>3. Producers \subseteq Node
  BY DispatcherAssumption DEF DispatcherAssumption
<1> QED
  BY <1>1, <1>2, <1>3, ReportDead DEF DoneStored

LEMMA BearsStored ==
    ASSUME StoreInv, NEW ev, NEW b, NEW R, EngineBears(ev, b, R), Leaves(b, ev),
           task' = task,
           \A e \in Execs : \A n \in Producers :
               Completes(ev, e, n) /\ eng.status[e] \in Live => n \in eng.artifact[e],
           \A e \in Execs : e \in R => AtRest(e)
    PROVE  StoreInv'
<1>0. Producers \subseteq Node
  BY DispatcherAssumption DEF DispatcherAssumption
<1>1. PICK s, c : KeepsStores(b, c) /\ Bears(s, ev, R) /\ EngineEnds(s, c)
  BY DEF EngineBears
<1>2. DoneStored(s)
  BY <1>0, <1>1 DEF StoreInv, DoneStored, Bears
<1>3. CASE eng' = s /\ bus' = c /\ disk' \in {s, disk}
  <2>1. DoneStored(eng') /\ DoneStored(disk')
    BY <1>2, <1>3 DEF StoreInv
  <2>2. ASSUME NEW e \in Execs, NEW n \in Producers
        PROVE  NodeProvided(e, n)'
    <3>1. /\ NodeProvided(e, n) /\ n \in Node
          /\ Acknowledged(e, n)' = Acknowledged(e, n)
      BY <1>0 DEF StoreInv, Acknowledged
    <3>2. CASE e \in R
      <4>1. Unemployed(c, e) /\ ~Acknowledged(e, n)
        BY <1>1, <3>1, <3>2 DEF AtRest, Leaves, KeepsStores, Acknowledged
      <4>2. StoredFirst(c.queue, e, n)
        BY <4>1 DEF Unemployed, Employs, StoredFirst, Completes
      <4> QED
        BY <1>3, <3>1, <4>1, <4>2 DEF NodeProvided
    <3>3. CASE Stores(ev, e, n)
      BY <1>1, <1>3, <3>1, <3>3 DEF Bears, NodeProvided, Provided
    <3>4. CASE e \notin R /\ Provided(eng, e, n)
      BY <1>1, <1>3, <3>1, <3>4 DEF Bears, NodeProvided, Provided
    <3>5. CASE ~Stores(ev, e, n) /\ ~Provided(eng, e, n)
      BY <1>1, <1>3, <3>1, <3>5 DEF NodeProvided, Leaves, KeepsStores
    <3> QED
      BY <3>2, <3>3, <3>4, <3>5
  <2> QED
    BY <2>1, <2>2 DEF StoreInv
<1>4. ASSUME NEW x, NEW m, SaveFailed(s, x, m, c)
      PROVE  StoreInv'
  <2>1. eng' = Report(s, x, m) /\ disk' = disk
    BY <1>4 DEF SaveFailed
  <2>2. DoneStored(eng') /\ DoneStored(disk') /\ NoneLive(eng')
    BY <1>2, <2>1, ReportStored DEF StoreInv
  <2> QED
    BY <2>2 DEF StoreInv, NodeProvided, Provided, NoneLive
<1> QED
  BY <1>1, <1>3, <1>4 DEF EngineEnds, Saved, Unsaved

(* A step that no node loses anything by. *)
StoresMove ==
    \A e \in Execs : \A n \in Producers :
        /\ StoreSent(bus, e, n) => StoreSent(bus', e, n)
        /\ StoredFirst(bus.queue, e, n) /\ (Acknowledged(e, n) => StoreSent(bus, e, n))
              => StoredFirst(bus'.queue, e, n)
        /\ Acknowledged(e, n)' => Acknowledged(e, n) \/ StoreSent(bus', e, n)

LEMMA QuietStored ==
    ASSUME StoreInv, DoneStored(eng'), DoneStored(disk'), StoresMove,
           \A e \in Execs : \A n \in Producers : Provided(eng, e, n) => Provided(eng', e, n)
    PROVE  StoreInv'
  BY DEF StoreInv, NodeProvided, StoresMove

LEMMA RemainingLeaves ==
    ASSUME bus \in BusValue(Event), bus.queue # <<>>
    PROVE  Leaves(Remaining, HeadEvent)
<1>1. bus.queue \in Seq(Event) /\ Remaining.queue = Tail(bus.queue)
  BY DEF BusValue, Remaining
<1>2. \A i \in 1..Len(Tail(bus.queue)) : /\ i + 1 \in 1..Len(bus.queue)
                                        /\ Tail(bus.queue)[i] = bus.queue[i + 1]
  BY <1>1
<1>3. \A e : Unemployed(bus, e) => Unemployed(Remaining, e)
  BY <1>1, <1>2 DEF Unemployed
<1> QED
  BY <1>3, RemainingStores DEF Leaves

(* The artifact of a completion that is accepted is recorded. *)
LEMMA HeadProvided ==
    ASSUME StoreInv, bus \in BusValue(Event), bus.queue # <<>>, NEW e \in Execs,
           NEW n \in Producers, Completes(HeadEvent, e, n), eng.status[e] \in Live
    PROVE  n \in eng.artifact[e]
<1>1. 1 \in 1..Len(bus.queue) /\ bus.queue[1] = HeadEvent
  BY DEF BusValue, HeadEvent
<1>2. ~StoredFirst(bus.queue, e, n)
  BY <1>1 DEF StoredFirst
<1> QED
  BY <1>2 DEF StoreInv, NodeProvided, Provided

LEMMA HandlerStored ==
    ASSUME TypeOK, StoreInv, EngineHandler, task' = task,
           \A e \in Execs : eng.status[e] = "interrupted" /\ Delivers("ExecutionReconciled")
               => AtRest(e)
    PROVE  StoreInv'
<1>1. PICK R : Revived(R) /\ EngineBears(HeadEvent, Remaining, R)
  BY HandlerBears
<1>2. bus \in BusValue(Event) /\ bus.queue # <<>>
  BY HandlerDelivers DEF TypeOK
<1>3. Leaves(Remaining, HeadEvent)
  BY <1>2, RemainingLeaves
<1>4. \A e \in Execs : e \in R => AtRest(e)
  BY <1>1, <1>2 DEF Revived, Delivers
<1>5. \A e \in Execs : \A n \in Producers :
         Completes(HeadEvent, e, n) /\ eng.status[e] \in Live => n \in eng.artifact[e]
  BY <1>2, HeadProvided
<1> QED
  BY <1>1, <1>3, <1>4, <1>5, BearsStored

-----------------------------------------------------------------------------
(* Nothing has to do with an execution that was not submitted. *)
LEMMA AbsentRests ==
    ASSUME TypeOK, SafetyInv, NEW e \in Execs, eng.status[e] = "absent"
    PROVE  AtRest(e)
<1>1. eng.count[e] = 0
  BY DEF SafetyInv, StateInv, Sound, AbsentBeyond
<1>2. bus.queue \in Seq(Event)
  BY DEF TypeOK, BusValue
<1>3. ASSUME NEW i \in 1..Len(bus.queue), Employs(bus.queue[i], e)
      PROVE  FALSE
  <2>1. bus.queue[i] \in Event /\ bus.queue[i].type \in TaskType \cup AttemptType
    BY <1>2, <1>3 DEF Employs, TaskType, AttemptType
  <2>2. bus.queue[i].node \in Node
    BY <2>1 DEF Event
  <2>3. bus.queue[i].node <= 0
    BY <1>1, <1>3, <2>1 DEF SafetyInv, StateInv, Known, About, Employs
  <2> QED
    BY <2>2, <2>3 DEF Node
<1>4. ASSUME NEW n \in Node, task[e][n].pc # "none"
      PROVE  FALSE
  BY <1>1, <1>4 DEF SafetyInv, KnownTasks, Node
<1> QED
  BY <1>3, <1>4 DEF AtRest, Unemployed

LEMMA SubmitStored ==
    ASSUME TypeOK, SafetyInv, StoreInv, NEW e \in Execs, SubmitWorkflow(e), task' = task
    PROVE  StoreInv'
<1> DEFINE s == NewExecution(eng, e)
           status == [eng.status EXCEPT ![e] = IF e \in eng.paused THEN "paused" ELSE "running"]
           node == [eng.node EXCEPT ![e] = [n \in Node |-> IF n <= StaticCount[e]
                                            THEN "pending" ELSE "absent"]]
<1>1. Saved(s, bus) \/ UNCHANGED <<eng, disk, bus>>
  BY DEF SubmitWorkflow
<1>2. eng \in EngineState /\ bus \in BusValue(Event) /\ AtRest(e)
  BY AbsentRests DEF TypeOK, StateTypeOK, SubmitWorkflow, MaySubmit
<1>3. s.artifact = eng.artifact /\ s.status = status /\ s.node = node
  BY <1>2 DEF EngineState, NewExecution
<1>4. \A f \in Execs : /\ f # e => status[f] = eng.status[f]
                       /\ status[e] # "interrupted"
                       /\ \A n \in Node : node[f][n] = "done" => eng.node[f][n] = "done"
  BY <1>2 DEF EngineState
<1>5. /\ NoEvent.type \notin {"ArtifactStored", "WorkerCompleted"}
      /\ \A f, n : ~Stores(NoEvent, f, n) /\ ~Completes(NoEvent, f, n)
  BY DEF NoEvent, ExecEvent, TaskEvent, Stores, Completes
<1> HIDE DEF s, status, node
<1>6. CASE Saved(s, bus)
  <2>1. Bears(s, NoEvent, {e})
    BY <1>3, <1>4, <1>5 DEF Bears
  <2>2. KeepsStores(bus, bus) /\ Leaves(bus, NoEvent)
    BY <1>2, SameStores DEF Leaves
  <2>3. EngineBears(NoEvent, bus, {e})
    BY <1>6, <2>1, <2>2 DEF EngineBears, EngineEnds
  <2> QED
    BY <1>2, <1>5, <2>2, <2>3, BearsStored
<1>7. CASE UNCHANGED <<eng, disk, bus>>
  <2>1. \A f \in Execs : \A n \in Producers : Acknowledged(f, n)' = Acknowledged(f, n)
    BY DEF Acknowledged
  <2> QED
    BY <1>7, <2>1, QuietStored DEF StoreInv, StoresMove
<1> QED
  BY <1>1, <1>6, <1>7

LEMMA LoopStored ==
    ASSUME TypeOK, StoreInv, EngineLoop, task' = task
    PROVE  StoreInv'
<1>1. PICK n \in Node : EndLoop \/ DispatchNode(n)
  BY BusAssumption DEF BusAssumption, EngineLoop, Node
<1>2. loop.owner # "none"
  BY <1>1 DEF EndLoop, DispatchNode
<1>3. PICK e \in Execs : e = loop.exec
  BY <1>2, LoopExec DEF TypeOK, MutexTypeOK
<1>4. eng \in EngineState /\ bus \in BusValue(Event) /\ KeepsStores(bus, bus)
  BY SameStores DEF TypeOK, StateTypeOK
<1>5. /\ NoEvent.type # "ArtifactStored" /\ Leaves(bus, NoEvent)
      /\ \A f, m : ~Completes(NoEvent, f, m)
  BY DEF NoEvent, ExecEvent, TaskEvent, Leaves, Completes
<1>6. CASE EndLoop
  <2> DEFINE s == [eng EXCEPT !.status[e] = "completed"]
             ev == ExecEvent("WorkflowCompleted", e, "none")
             c == Publish(bus, ev)
  <2>1. EngineEnds(s, c) \/ EngineEnds(s, bus) \/ EngineEnds(eng, bus)
    BY <1>3, <1>6 DEF EndLoop, EngineEnds
  <2>2. Calm(s)
    BY <1>4 DEF EngineState, Calm, Live
  <2>3. KeepsStores(bus, c)
    <3>1. ev \in Event
      BY ExecEventType DEF EventType, EventArg, RuntimeType, TaskType, AttemptType
    <3>2. ev.type = "WorkflowCompleted"
      BY DEF ExecEvent, TaskEvent
    <3> QED
      BY <1>4, <3>1, <3>2, OtherStores
  <2> HIDE DEF s, c
  <2>4. EngineBears(NoEvent, bus, {})
    BY <1>4, <1>5, <2>1, <2>2, <2>3, EngineCalm, CalmEnds
  <2> QED
    BY <1>5, <2>4, BearsStored
<1>7. CASE DispatchNode(n)
  <2> DEFINE s == [eng EXCEPT !.node[e][n] = "running"]
             ev == TaskEvent("TaskCreated", e, n, 0, "none")
             node == [eng.node EXCEPT ![e][n] = "running"]
  <2>1. Saved(s, Publish(bus, ev)) \/ SaveFailed(s, e, n, bus)
    BY <1>3, <1>7 DEF DispatchNode
  <2>2. s.artifact = eng.artifact /\ s.status = eng.status /\ s.node = node
    BY <1>4 DEF EngineState
  <2>3. \A f \in Execs : \A m \in Node : node[f][m] = "done" => eng.node[f][m] = "done"
    BY <1>4 DEF EngineState
  <2>4. ev \in Event /\ ev.type = "TaskCreated"
    BY TaskEventType DEF TaskEvent
  <2> HIDE DEF s, ev, node
  <2>5. Calm(s)
    BY <2>2, <2>3 DEF Calm
  <2>6. CASE SaveFailed(s, e, n, bus)
    <3>1. EngineBears(NoEvent, bus, {})
      BY <1>4, <1>5, <2>5, <2>6, CalmEnds DEF EngineEnds
    <3> QED
      BY <1>5, <3>1, BearsStored
  <2>7. CASE Saved(s, Publish(bus, ev))
    <3>1. eng' = s /\ disk' = s /\ bus' = Publish(bus, ev)
      BY <2>7 DEF Saved
    <3>2. \A f, m : ~Completes(ev, f, m)
      BY <2>4 DEF Completes
    <3>3. \A f, m : /\ StoreSent(bus, f, m) => StoreSent(bus', f, m)
                    /\ StoredFirst(bus.queue, f, m) => StoredFirst(bus'.queue, f, m)
      BY <1>4, <2>4, <3>1, <3>2, PublishStores
    <3>4. Producers \subseteq Node
      BY DispatcherAssumption DEF DispatcherAssumption
    <3>5. DoneStored(s)
      BY <2>2, <2>3, <3>4 DEF StoreInv, DoneStored
    <3>6. \A f \in Execs : \A m \in Producers :
             /\ Provided(eng, f, m) => Provided(s, f, m)
             /\ Acknowledged(f, m)' = Acknowledged(f, m)
      BY <2>2 DEF Provided, Acknowledged
    <3> QED
      BY <3>1, <3>3, <3>5, <3>6, QuietStored DEF StoresMove
  <2> QED
    BY <2>1, <2>6, <2>7
<1> QED
  BY <1>1, <1>6, <1>7

-----------------------------------------------------------------------------
(***************************************************************************)
(* The goroutine of node n of e publishes events about e; only its last    *)
(* one, when it is back with a result, can complete the node.              *)
(***************************************************************************)
RestsOn == \A e \in Execs : AtRest(e) => AtRest(e)'

TaskKeeps(b, c, e) ==
    /\ c \in BusValue(Event)
    /\ \A f \in Execs : \A m \in Node :
          /\ StoreSent(b, f, m) => StoreSent(c, f, m)
          /\ StoredFirst(b.queue, f, m) => StoredFirst(c.queue, f, m)
    /\ \A f \in Execs : f # e => (Unemployed(b, f) => Unemployed(c, f))

LEMMA TaskPublishes ==
    ASSUME NEW b, NEW c, NEW e, TaskKeeps(b, c, e), NEW ev \in Event, ev.exec = e,
           ev.type # "WorkerCompleted"
    PROVE  TaskKeeps(b, Publish(c, ev), e)
<1>1. \A f, m : ~Completes(ev, f, m)
  BY DEF Completes
<1>2. \A f : f # e => ~Employs(ev, f)
  BY DEF Employs
<1>3. c \in BusValue(Event)
  BY DEF TaskKeeps
<1> QED
  BY <1>1, <1>2, <1>3, PublishType, PublishStores, PublishUnemployed DEF TaskKeeps

LEMMA TaskReports ==
    ASSUME NEW b, NEW c, NEW e \in Execs, NEW n \in Node, TaskKeeps(b, c, e),
           NEW a \in Attempt, NEW x \in {"succeeded", "failed"}
    PROVE  TaskKeeps(b, Publish(c, TaskEvent("AttemptFinished", e, n, a, x)), e)
<1> DEFINE ev == TaskEvent("AttemptFinished", e, n, a, x)
<1>1. ev \in Event /\ ev.exec = e /\ ev.type = "AttemptFinished"
  BY AttemptEventType DEF TaskEvent
<1> HIDE DEF ev
<1>2. TaskKeeps(b, Publish(c, ev), e)
  BY <1>1, TaskPublishes
<1> QED
  BY <1>2 DEF ev

LEMMA TaskFails ==
    ASSUME NEW b, NEW c, NEW e \in Execs, NEW n \in Node, TaskKeeps(b, c, e)
    PROVE  TaskKeeps(b, WorkerFailed(c, e, n), e)
<1> DEFINE ev == TaskEvent("WorkerFailed", e, n, 0, "none")
<1>1. ev \in Event /\ ev.exec = e /\ ev.type = "WorkerFailed"
  BY TaskEventType DEF TaskEvent
<1> HIDE DEF ev
<1>2. TaskKeeps(b, Publish(c, ev), e)
  BY <1>1, TaskPublishes
<1> QED
  BY <1>2 DEF ev, WorkerFailed

LEMMA StartKeeps ==
    ASSUME TypeOK, NEW e \in Execs, NEW n \in Node, StartAttempt(e, n),
           TaskKeeps(bus, bus, e)
    PROVE  /\ TaskKeeps(bus, bus', e)
           /\ OthersSame(e, n) /\ task'[e][n].pc \in {"slot", "exit"}
<1> DEFINE k == issued[e][n] + 1
           t == [task[e][n] EXCEPT !.tries = @ + 1, !.attempt = k]
           ev == TaskEvent("AttemptStarted", e, n, k, "none")
           b == Publish(bus, ev)
           c == Publish(b, TaskEvent("AttemptFinished", e, n, k, "failed"))
           slot == [t EXCEPT !.pc = "slot"]
           exit == [t EXCEPT !.pc = "exit"]
<1>1. DispatcherTypeOK
  BY DEF TypeOK
<1>2. k \in Attempt
  BY <1>1, BusAssumption DEF BusAssumption, StartAttempt, DispatcherTypeOK, Attempt
<1>3. \/ bus' = b /\ task' = [task EXCEPT ![e][n] = slot]
      \/ bus' = WorkerFailed(c, e, n) /\ task' = [task EXCEPT ![e][n] = exit]
  BY DEF StartAttempt
<1>4. slot.pc = "slot" /\ exit.pc = "exit"
  BY <1>1, TaskFields
<1> HIDE DEF k, t
<1>5. ev \in Event /\ ev.exec = e /\ ev.type = "AttemptStarted"
  BY <1>2, AttemptEventType DEF TaskEvent
<1> HIDE DEF ev, slot, exit
<1>6. TaskKeeps(bus, b, e)
  BY <1>5, TaskPublishes
<1> HIDE DEF b
<1>7. TaskKeeps(bus, c, e)
  BY <1>2, <1>6, TaskReports
<1> HIDE DEF c
<1>8. TaskKeeps(bus, WorkerFailed(c, e, n), e)
  BY <1>7, TaskFails
<1>9. TaskKeeps(bus, bus', e)
  BY <1>3, <1>6, <1>8
<1>10. OthersSame(e, n) /\ task'[e][n] \in {slot, exit}
  BY <1>1, <1>3 DEF DispatcherTypeOK, OthersSame
<1> QED
  BY <1>4, <1>9, <1>10

(* What a step of the goroutine publishes, and where it takes the goroutine. *)
LEMMA TaskGoes ==
    ASSUME TypeOK, NEW e \in Execs, NEW n \in Node, TaskStep(e, n)
    PROVE  /\ task[e][n].pc # "none" /\ OthersSame(e, n)
           /\ Acknowledged(e, n)' => Acknowledged(e, n) \/ n \notin Producers
           /\ \/ TaskKeeps(bus, bus', e)
              \/ \E b : /\ TaskKeeps(bus, b, e)
                        /\ Acknowledged(e, n)
                        /\ bus' = Publish(b, TaskEvent("WorkerCompleted", e, n,
                                                       task[e][n].attempt, "none"))
<1> DEFINE a == task[e][n].attempt
<1>0. DispatcherTypeOK /\ TaskKeeps(bus, bus, e)
  BY DEF TypeOK, TaskKeeps
<1>1. task[e][n].pc \in Attempting => a \in Attempt
  BY <1>0, TaskFields
<1>2. ASSUME NEW pc, Move(e, n, pc)
      PROVE  OthersSame(e, n) /\ (Acknowledged(e, n)' => pc \in {"acked", "returned"})
  BY <1>0, <1>2, MoveTask DEF OthersSame, Acknowledged
<1>3. CASE GiveUp(e, n)
  <2>1. /\ task[e][n].pc = "select" /\ Move(e, n, "exit")
        /\ bus' = WorkerFailed(bus, e, n)
    BY <1>3 DEF GiveUp
  <2>2. TaskKeeps(bus, bus', e)
    BY <1>0, <2>1, TaskFails
  <2> QED
    BY <1>2, <2>1, <2>2
<1>4. CASE StartAttempt(e, n)
  <2>1. task[e][n].pc = "select"
    BY <1>4 DEF StartAttempt
  <2> QED
    BY <1>0, <1>4, <2>1, StartKeeps DEF Acknowledged
<1>5. CASE AcquireSlot(e, n)
  <2>1. task[e][n].pc = "slot" /\ Move(e, n, "execute") /\ bus' = bus
    BY <1>5 DEF AcquireSlot
  <2> QED
    BY <1>0, <1>2, <2>1
<1>6. CASE Abandon(e, n) \/ FailAttempt(e, n)
  <2> DEFINE b == AttemptFinished(bus, e, n, "failed")
  <2>1. /\ task[e][n].pc \in Attempting
        /\ bus' = b \/ bus' = WorkerFailed(b, e, n)
        /\ Move(e, n, "select") \/ Move(e, n, "exit")
    BY <1>6 DEF Abandon, FailAttempt, Attempting
  <2>2. TaskKeeps(bus, b, e)
    BY <1>0, <1>1, <2>1, TaskReports DEF AttemptFinished
  <2> HIDE DEF b
  <2>3. TaskKeeps(bus, WorkerFailed(b, e, n), e)
    BY <2>2, TaskFails
  <2>4. task[e][n].pc # "none"
    BY <2>1 DEF Attempting
  <2>5. OthersSame(e, n) /\ ~Acknowledged(e, n)'
    BY <1>2, <2>1
  <2> QED
    BY <2>1, <2>2, <2>3, <2>4, <2>5
<1>7. CASE RequestCommit(e, n)
  <2> DEFINE ev == TaskEvent("TaskResultCommitRequested", e, n, a, "none")
  <2>1. task[e][n].pc = "execute" /\ Move(e, n, "commit") /\ bus' = Publish(bus, ev)
    BY <1>7 DEF RequestCommit
  <2>2. ev \in Event /\ ev.exec = e /\ ev.type = "TaskResultCommitRequested"
    BY <1>1, <2>1, AttemptEventType DEF TaskEvent, Attempting
  <2> HIDE DEF ev
  <2>3. TaskKeeps(bus, bus', e)
    BY <1>0, <2>1, <2>2, TaskPublishes
  <2> QED
    BY <1>2, <2>1, <2>3
<1>8. CASE ReturnResult(e, n)
  <2>1. /\ task[e][n].pc = (IF n \in Producers THEN "acked" ELSE "execute")
        /\ Move(e, n, "returned")
    BY <1>8 DEF ReturnResult
  <2>2. PICK x \in {"none", "once", "return"} :
          bus' = IF x = "none" THEN bus
                 ELSE Publish(bus, TaskEvent("GraphMutationRequested", e, n, a, x))
    BY <1>8 DEF ReturnResult
  <2> DEFINE ev == TaskEvent("GraphMutationRequested", e, n, a, x)
  <2>3. ev.exec = e /\ ev.type = "GraphMutationRequested" /\ (x # "none" => ev \in Event)
    BY <1>1, <2>1, AttemptEventType DEF TaskEvent, Attempting
  <2>4. bus' = IF x = "none" THEN bus ELSE Publish(bus, ev)
    BY <2>2
  <2> HIDE DEF ev
  <2>5. TaskKeeps(bus, bus', e)
    BY <1>0, <2>3, <2>4, TaskPublishes
  <2>6. task[e][n].pc # "none" /\ (n \in Producers => Acknowledged(e, n))
    BY <2>1 DEF Acknowledged
  <2> QED
    BY <1>2, <2>1, <2>5, <2>6
<1>9. CASE SucceedAttempt(e, n)
  <2> DEFINE b == AttemptFinished(bus, e, n, "succeeded")
  <2>1. /\ task[e][n].pc = "returned" /\ Move(e, n, "exit")
        /\ bus' = Publish(b, TaskEvent("WorkerCompleted", e, n, a, "none"))
    BY <1>9 DEF SucceedAttempt
  <2>2. TaskKeeps(bus, b, e)
    BY <1>0, <1>1, <2>1, TaskReports DEF AttemptFinished, Attempting
  <2>3. Acknowledged(e, n)
    BY <2>1 DEF Acknowledged
  <2> QED
    BY <1>2, <2>1, <2>2, <2>3
<1>10. CASE Cleanup(e, n)
  <2>1. /\ task[e][n].pc = "exit" /\ bus' = bus
        /\ task' = [task EXCEPT ![e][n] = NoTask]
    BY <1>10 DEF Cleanup
  <2>2. task'[e][n] = NoTask /\ OthersSame(e, n)
    BY <1>0, <2>1 DEF DispatcherTypeOK, OthersSame
  <2>3. ~Acknowledged(e, n)'
    BY <2>2 DEF Acknowledged, NoTask
  <2> QED
    BY <1>0, <2>1, <2>2, <2>3
<1> QED
  BY <1>3, <1>4, <1>5, <1>6, <1>7, <1>8, <1>9, <1>10 DEF TaskStep

LEMMA TaskStored ==
    ASSUME TypeOK, NEW e \in Execs, NEW n \in Node, TaskStep(e, n)
    PROVE  StoresMove /\ RestsOn
<1>0. Producers \subseteq Node
  BY DispatcherAssumption DEF DispatcherAssumption
<1>1. /\ task[e][n].pc # "none" /\ OthersSame(e, n)
      /\ Acknowledged(e, n)' => Acknowledged(e, n) \/ n \notin Producers
  BY TaskGoes
<1>2. \A f \in Execs : \A m \in Producers : Acknowledged(f, m)' => Acknowledged(f, m)
  BY <1>0, <1>1 DEF Acknowledged, OthersSame
<1>3. ~AtRest(e)
  BY <1>1 DEF AtRest
<1>4. ASSUME \A f \in Execs : f # e => (Unemployed(bus, f) => Unemployed(bus', f))
      PROVE  RestsOn
  BY <1>1, <1>3, <1>4 DEF RestsOn, AtRest, OthersSame
<1>5. CASE TaskKeeps(bus, bus', e)
  BY <1>0, <1>2, <1>4, <1>5 DEF TaskKeeps, StoresMove
<1>6. ASSUME NEW b, TaskKeeps(bus, b, e), Acknowledged(e, n),
             bus' = Publish(b, TaskEvent("WorkerCompleted", e, n, task[e][n].attempt, "none"))
      PROVE  StoresMove /\ RestsOn
  <2> DEFINE ev == TaskEvent("WorkerCompleted", e, n, task[e][n].attempt, "none")
  <2>1. ev \in Event /\ ev.type = "WorkerCompleted" /\ ev.exec = e /\ ev.node = n
    BY <1>6, TaskFields, AttemptEventType DEF TypeOK, Acknowledged, Attempting, TaskEvent
  <2> HIDE DEF ev
  <2>2. bus' = Publish(b, ev) /\ b \in BusValue(Event)
    BY <1>6 DEF ev, TaskKeeps
  <2>3. \A f, m : Completes(ev, f, m) => f = e /\ m = n
    BY <2>1 DEF Completes
  <2>4. \A f : f # e => ~Employs(ev, f)
    BY <2>1 DEF Employs
  <2>5. \A f \in Execs : f # e => (Unemployed(bus, f) => Unemployed(bus', f))
    BY <1>6, <2>1, <2>2, <2>4, PublishUnemployed DEF TaskKeeps
  <2>6. ASSUME NEW f \in Execs, NEW m \in Producers
        PROVE  /\ StoreSent(bus, f, m) => StoreSent(bus', f, m)
               /\ StoredFirst(bus.queue, f, m) /\ (Acknowledged(f, m) => StoreSent(bus, f, m))
                     => StoredFirst(bus'.queue, f, m)
    <3>1. /\ StoreSent(bus, f, m) => StoreSent(b, f, m)
          /\ StoredFirst(bus.queue, f, m) => StoredFirst(b.queue, f, m)
      BY <1>0, <1>6 DEF TaskKeeps
    <3>2. /\ StoreSent(b, f, m) => StoreSent(bus', f, m)
          /\ StoredFirst(b.queue, f, m) /\ (Completes(ev, f, m) => StoreSent(b, f, m))
                => StoredFirst(bus'.queue, f, m)
      BY <2>1, <2>2, PublishStores
    <3> QED
      BY <1>6, <2>3, <3>1, <3>2
  <2> QED
    BY <1>2, <1>4, <2>5, <2>6 DEF StoresMove
<1> QED
  BY <1>5, <1>6, TaskGoes

-----------------------------------------------------------------------------
(* The bus goroutine's other steps, the deadlines and the operators. *)
LEMMA KeptStored ==
    ASSUME KeepsStores(bus, bus'),
           \A e \in Execs : \A n \in Node : task'[e][n].pc = task[e][n].pc
    PROVE  StoresMove /\ RestsOn
<1>1. Producers \subseteq Node
  BY DispatcherAssumption DEF DispatcherAssumption
<1>2. StoresMove
  BY <1>1 DEF KeepsStores, StoresMove, Acknowledged
<1>3. RestsOn
  BY DEF KeepsStores, RestsOn, AtRest
<1> QED
  BY <1>2, <1>3

LEMMA DispatchTaskStored ==
    ASSUME TypeOK, Delivers("TaskCreated"), DispatchTask(HeadEvent.exec, HeadEvent.node)
    PROVE  StoresMove /\ RestsOn
<1>0. Producers \subseteq Node
  BY DispatcherAssumption DEF DispatcherAssumption
<1>1. PICK e \in Execs, n \in Node : e = HeadEvent.exec /\ n = HeadEvent.node
  BY HeadTask DEF TypeOK, TaskType
<1>2. /\ bus.queue # <<>> /\ HeadEvent.type = "TaskCreated"
      /\ bus \in BusValue(Event) /\ Remaining \in BusValue(Event)
  BY RemainingType DEF Delivers, TypeOK
<1>3. ~AtRest(e)
  <2>1. 1 \in 1..Len(bus.queue) /\ bus.queue[1] = HeadEvent
    BY <1>2 DEF BusValue, HeadEvent
  <2> QED
    BY <1>1, <1>2, <2>1 DEF AtRest, Unemployed, Employs
<1>4. KeepsStores(bus, bus')
  <2> DEFINE ev == TaskEvent("WorkerFailed", e, n, 0, "none")
  <2>1. bus' = Remaining \/ bus' = Publish(Remaining, ev)
    BY <1>1 DEF DispatchTask
  <2>2. ev \in Event /\ ev.type = "WorkerFailed"
    BY TaskEventType DEF TaskEvent
  <2> HIDE DEF ev
  <2>3. KeepsStores(bus, Remaining) /\ KeepsStores(Remaining, Publish(Remaining, ev))
    BY <1>2, <2>2, RemainingKeeps, OtherStores
  <2> QED
    BY <2>1, <2>3, KeepsStoresTrans
<1>5. OthersSame(e, n) /\ (Acknowledged(e, n)' => Acknowledged(e, n))
  <2>1. CASE task' = task
    BY <2>1 DEF OthersSame, Acknowledged
  <2>2. CASE task' = [task EXCEPT ![e][n] = [NoTask EXCEPT !.pc = "select"]]
    <3> DEFINE t == [NoTask EXCEPT !.pc = "select"]
    <3>1. t.pc = "select"
      BY DEF NoTask
    <3> HIDE DEF t
    <3>2. OthersSame(e, n) /\ task'[e][n] = t
      BY <2>2 DEF TypeOK, DispatcherTypeOK, OthersSame, t
    <3> QED
      BY <3>1, <3>2 DEF Acknowledged
  <2> QED
    BY <1>1, <2>1, <2>2 DEF DispatchTask, dispatcherVars
<1>6. StoresMove
  BY <1>0, <1>4, <1>5 DEF KeepsStores, StoresMove, Acknowledged, OthersSame
<1>7. RestsOn
  BY <1>3, <1>4, <1>5 DEF KeepsStores, RestsOn, AtRest, OthersSame
<1> QED
  BY <1>6, <1>7

(* The commit is acknowledged when the artifact has been announced. *)
LEMMA CommitStored ==
    ASSUME TypeOK, Delivers("TaskResultCommitRequested"), CommitResult
    PROVE  StoresMove /\ RestsOn
<1>0. Producers \subseteq Node
  BY DispatcherAssumption DEF DispatcherAssumption
<1>1. PICK e \in Execs, n \in Node, a \in Attempt :
         e = HeadEvent.exec /\ n = HeadEvent.node /\ a = HeadEvent.attempt
  BY HeadTask, HeadAttempt DEF TypeOK, AttemptType
<1> DEFINE ev == TaskEvent("ArtifactStored", e, n, a, "none")
           pc == IF task[e][n].pc = "commit" /\ task[e][n].attempt = a
                 THEN "acked" ELSE task[e][n].pc
<1>2. bus' = Publish(Remaining, ev) /\ Move(e, n, pc)
  BY <1>1 DEF CommitResult, Move
<1>3. pc = task[e][n].pc \/ (task[e][n].pc = "commit" /\ pc = "acked")
  OBVIOUS
<1>4. /\ bus.queue # <<>> /\ HeadEvent.type = "TaskResultCommitRequested"
      /\ bus \in BusValue(Event) /\ Remaining \in BusValue(Event)
  BY RemainingType DEF Delivers, TypeOK
<1>5. ev \in Event /\ ev.type = "ArtifactStored" /\ Stores(ev, e, n)
  BY AttemptEventType DEF TaskEvent, Stores
<1> HIDE DEF ev, pc
<1>6. KeepsStores(bus, bus')
  <2>1. KeepsStores(bus, Remaining) /\ KeepsStores(Remaining, Publish(Remaining, ev))
    BY <1>4, <1>5, RemainingKeeps, OtherStores
  <2> QED
    BY <1>2, <2>1, KeepsStoresTrans
<1>7. StoreSent(bus', e, n)
  BY <1>2, <1>4, <1>5, PublishStores
<1>8. OthersSame(e, n) /\ task'[e][n].pc = pc
  BY <1>2, MoveTask DEF TypeOK, OthersSame
<1>9. StoresMove
  BY <1>0, <1>6, <1>7, <1>8 DEF KeepsStores, StoresMove, Acknowledged, OthersSame
<1>10. RestsOn
  BY <1>3, <1>6, <1>8 DEF KeepsStores, RestsOn, AtRest, OthersSame
<1> QED
  BY <1>9, <1>10

LEMMA ControlStored ==
    ASSUME TypeOK, NEW t \in Controls, NEW e \in Execs, Control(t, e)
    PROVE  StoresMove /\ RestsOn
<1>1. PICK x \in EventArg : bus' = Publish(bus, ExecEvent(t, e, x))
  BY DEF Control, EventArg
<1>2. t \in EventType \ (TaskType \cup AttemptType)
  BY RuntimeAssumption DEF RuntimeAssumption, EventType, TaskType, AttemptType
<1>3. ExecEvent(t, e, x) \in Event /\ ExecEvent(t, e, x).type = t
  BY <1>2, ExecEventType DEF ExecEvent, TaskEvent
<1>4. KeepsStores(bus, bus')
  BY <1>1, <1>2, <1>3, OtherStores DEF TypeOK, TaskType, AttemptType
<1>5. task' = task
  BY DEF Control, dispatcherVars
<1> QED
  BY <1>4, <1>5, KeptStored

(* Every step but the engine's, a submission and a crash. *)
OtherStep ==
    \/ DispatcherFollows \/ DispatcherHandles \/ Observed \/ UNCHANGED vars
    \/ \E e \in Execs, n \in Node : TaskSteps(e, n) \/ DeadlinePasses(e, n)
    \/ \E t \in Controls, e \in Execs : Control(t, e)

LEMMA OtherStored ==
    ASSUME TypeOK, OtherStep
    PROVE  /\ StoresMove /\ RestsOn
           /\ UNCHANGED <<eng, disk, loop, faults>>
<1>0. bus \in BusValue(Event) /\ DispatcherTypeOK /\ KeepsStores(bus, bus)
  BY SameStores DEF TypeOK
<1>1. CASE DispatcherFollows
  <2>1. cur # NoEvent /\ cur \in Event
    BY <1>1 DEF DispatcherFollows, TypeOK, MutexTypeOK
  <2>2. StopOnRuntimeFailure \/ \E e \in Execs : StopExecution(e)
    BY <1>1, <2>1 DEF DispatcherFollows, Event, RuntimeType
  <2>3. \A f \in Execs : \A m \in Node : task'[f][m].pc = task[f][m].pc
    BY <1>0, <2>2, StopPlaces
  <2>4. bus' = bus /\ UNCHANGED <<eng, disk, loop, faults>>
    BY <1>1 DEF DispatcherFollows
  <2> QED
    BY <1>0, <2>3, <2>4, KeptStored
<1>2. CASE DispatcherHandles
  <2>1. UNCHANGED <<eng, disk, loop, faults>>
    BY <1>2 DEF DispatcherHandles, engineVars
  <2>2. CASE Delivers("TaskCreated") /\ DispatchTask(HeadEvent.exec, HeadEvent.node)
    BY <2>1, <2>2, DispatchTaskStored
  <2>3. CASE /\ Delivers("RuntimePersistenceFailed")
             /\ bus' = Remaining /\ StopOnRuntimeFailure
    <3>1. KeepsStores(bus, bus')
      BY <1>0, <2>3, RemainingKeeps DEF Delivers
    <3>2. \A f \in Execs : \A m \in Node : task'[f][m].pc = task[f][m].pc
      BY <1>0, <2>3, StopPlaces
    <3> QED
      BY <2>1, <3>1, <3>2, KeptStored
  <2>4. CASE Delivers("TaskResultCommitRequested") /\ CommitResult
    BY <2>1, <2>4, CommitStored
  <2> QED
    BY <1>2, <2>2, <2>3, <2>4 DEF DispatcherHandles
<1>3. CASE Observed
  <2>1. /\ bus.queue # <<>> /\ HeadEvent.type # "ArtifactStored"
        /\ bus' = Remaining /\ task' = task /\ UNCHANGED <<eng, disk, loop, faults>>
    BY <1>3 DEF Observed, Delivers, engineVars, dispatcherVars
  <2>2. KeepsStores(bus, bus')
    BY <1>0, <2>1, RemainingKeeps
  <2> QED
    BY <2>1, <2>2, KeptStored
<1>4. CASE UNCHANGED vars
  <2>1. bus' = bus /\ task' = task /\ UNCHANGED <<eng, disk, loop, faults>>
    BY <1>4 DEF vars, engineVars, dispatcherVars
  <2> QED
    BY <1>0, <2>1, KeptStored
<1>5. ASSUME NEW e \in Execs, NEW n \in Node, TaskSteps(e, n)
      PROVE  StoresMove /\ RestsOn /\ UNCHANGED <<eng, disk, loop, faults>>
  BY <1>5, TaskStored DEF TaskSteps, engineVars
<1>6. ASSUME NEW e \in Execs, NEW n \in Node, DeadlinePasses(e, n)
      PROVE  StoresMove /\ RestsOn /\ UNCHANGED <<eng, disk, loop, faults>>
  <2> DEFINE t == [task[e][n] EXCEPT !.done = TRUE]
  <2>1. /\ bus' = bus /\ task' = [task EXCEPT ![e][n] = t]
        /\ UNCHANGED <<eng, disk, loop, faults>>
    BY <1>6 DEF DeadlinePasses, Deadline, engineVars
  <2>2. t.pc = task[e][n].pc
    BY <1>0, TaskFields
  <2> HIDE DEF t
  <2>3. \A f \in Execs : \A m \in Node : task'[f][m].pc = task[f][m].pc
    BY <1>0, <2>1, <2>2 DEF DispatcherTypeOK
  <2> QED
    BY <1>0, <2>1, <2>3, KeptStored
<1>7. ASSUME NEW t \in Controls, NEW e \in Execs, Control(t, e)
      PROVE  StoresMove /\ RestsOn /\ UNCHANGED <<eng, disk, loop, faults>>
  BY <1>7, ControlStored DEF Control, engineVars
<1> QED
  BY <1>1, <1>2, <1>3, <1>4, <1>5, <1>6, <1>7 DEF OtherStep

-----------------------------------------------------------------------------
LEMMA StoreInit ==
    ASSUME Init
    PROVE  StoreInv
<1>1. eng = EmptyEngine /\ disk = EmptyEngine
  BY DEF Init, EngineInit
<1>2. Producers \subseteq Node
  BY DispatcherAssumption DEF DispatcherAssumption
<1>3. DoneStored(eng) /\ DoneStored(disk)
  BY <1>1, <1>2 DEF EmptyEngine, DoneStored
<1>4. \A e \in Execs : \A n \in Producers : NodeProvided(e, n)
  BY <1>1 DEF EmptyEngine, NodeProvided, Provided, Live
<1> QED
  BY <1>3, <1>4 DEF StoreInv

LEMMA CrashRests ==
    ASSUME Crash
    PROVE  \A e \in Execs : AtRest(e)'
<1>1. bus'.queue = <<>> /\ task' = [e \in Execs |-> [n \in Node |-> NoTask]]
  BY DEF Crash, EmptyBus
<1>2. \A e \in Execs : Unemployed(bus', e)
  BY <1>1 DEF Unemployed
<1> QED
  BY <1>1, <1>2 DEF AtRest, NoTask

LEMMA CrashStored ==
    ASSUME TypeOK, StoreInv, Crash
    PROVE  StoreInv'
<1> DEFINE s == Recover(disk)
<1>0. Producers \subseteq Node
  BY DispatcherAssumption DEF DispatcherAssumption
<1>1. eng' = s /\ disk' = s
  BY DEF Crash
<1>2. /\ s.artifact = disk.artifact
      /\ \A e \in Execs : \A n \in Node :
            s.node[e][n] = "done" => disk.node[e][n] = "done"
  BY DEF TypeOK, StateTypeOK, EngineState, Recover
<1> HIDE DEF s
<1>3. DoneStored(eng') /\ DoneStored(disk')
  BY <1>0, <1>1, <1>2 DEF StoreInv, DoneStored
<1>4. \A e \in Execs : \A n \in Producers : NodeProvided(e, n)'
  <2>1. \A e \in Execs : AtRest(e)'
    BY CrashRests
  <2>2. \A e \in Execs : Unemployed(bus', e) /\ \A n \in Node : task'[e][n].pc = "none"
    BY <2>1 DEF AtRest
  <2>3. \A e \in Execs : \A n \in Producers :
           StoredFirst(bus'.queue, e, n) /\ ~Acknowledged(e, n)'
    BY <1>0, <2>2 DEF Unemployed, Employs, StoredFirst, Completes, Acknowledged
  <2> QED
    BY <2>3 DEF NodeProvided
<1> QED
  BY <1>3, <1>4 DEF StoreInv

(***************************************************************************)
(* The step.  Where an execution is revived, it must have been at rest.    *)
(***************************************************************************)
RetriesRest ==
    \A e \in Execs :
        eng.status[e] = "interrupted" /\ Delivers("ExecutionReconciled") => AtRest(e)

LEMMA StoreNext ==
    ASSUME TypeOK, SafetyInv, StoreInv, RetriesRest, [Next]_vars
    PROVE  StoreInv'
<1>1. CASE EngineHandles
  BY <1>1, HandlerStored DEF EngineHandles, dispatcherVars, RetriesRest
<1>2. CASE LoopStep
  BY <1>2, LoopStored DEF LoopStep, dispatcherVars
<1>3. CASE \E e \in Execs : Submit(e)
  BY <1>3, SubmitStored DEF Submit, dispatcherVars
<1>4. CASE Crash
  BY <1>4, CrashStored
<1>5. CASE OtherStep
  <2>1. StoresMove /\ UNCHANGED <<eng, disk>>
    BY <1>5, OtherStored
  <2> QED
    BY <2>1, QuietStored DEF StoreInv
<1> QED
  BY <1>1, <1>2, <1>3, <1>4, <1>5 DEF Next, BusStep, OtherStep

-----------------------------------------------------------------------------
(***************************************************************************)
(* As long as every save succeeds, what is interrupted was interrupted by  *)
(* a restart: it is at rest until it is reconciled.                        *)
(***************************************************************************)
Settled ==
    /\ \A e \in Execs : eng.status[e] = "interrupted" => AtRest(e)
    /\ loop.owner # "none" => eng.status[loop.exec] # "interrupted"

SettledInv == faults = 0 => StoreInv /\ Settled

LEMMA LoopRuns ==
    ASSUME TypeOK, EngineHandler, faults' = 0
    PROVE  loop'.owner # "none" => eng'.status[loop'.exec] # "interrupted"
<1>1. eng \in EngineState
  BY DEF TypeOK, StateTypeOK
<1>2. CASE loop' = Idle
  BY <1>2 DEF Idle
<1>3. CASE HandleWorkerCompleted
  <2> DEFINE e == HeadEvent.exec
             n == HeadEvent.node
             d == [eng EXCEPT !.node[e][n] = "done"]
             s == [d EXCEPT !.active[e][n] = 0]
  <2>1. loop' = Idle \/ (eng.status[e] \in Live /\ eng' = s /\ loop'.exec = e)
    BY <1>3 DEF HandleWorkerCompleted, Dropped, Finished, Saved, Loops
  <2>2. s.status = eng.status
    BY <1>1 DEF EngineState
  <2> HIDE DEF s
  <2> QED
    BY <1>2, <2>1, <2>2 DEF Live
<1>4. CASE HandleResumed
  <2> DEFINE e == HeadEvent.exec
             cleared == [eng EXCEPT !.paused = @ \ {e}]
             s == [cleared EXCEPT !.status[e] = "running"]
  <2>1. loop' = Idle \/ (eng' = s /\ loop'.exec = e)
    BY <1>4 DEF HandleResumed, Finished, Saved, Loops
  <2>2. e \in Execs
    BY <1>4, HeadExec DEF HandleResumed, Handling, TypeOK, EventType, RuntimeType
  <2>3. s.status[e] = "running"
    BY <1>1, <2>2 DEF EngineState
  <2> HIDE DEF s
  <2> QED
    BY <1>2, <2>1, <2>3
<1>5. CASE HandleReconciled
  <2> DEFINE e == HeadEvent.exec
             again(n) == eng.node[e][n] = "interrupted"
             s == [eng EXCEPT
                      !.status[e] = "running",
                      !.node[e] = [n \in Node |-> IF again(n) THEN "pending" ELSE @[n]],
                      !.active[e] = [n \in Node |-> IF again(n) THEN 0 ELSE @[n]]]
  <2>1. loop' = Idle \/ (eng' = s /\ loop'.exec = e)
    BY <1>5 DEF HandleReconciled, Dropped, Finished, Saved, Loops
  <2>2. e \in Execs
    BY <1>5, HeadExec DEF HandleReconciled, Handling, TypeOK, EventType, RuntimeType
  <2>3. s.status[e] = "running"
    BY <1>1, <2>2 DEF EngineState
  <2> HIDE DEF s
  <2> QED
    BY <1>2, <2>1, <2>3
<1>6. CASE \/ HandleOverloaded \/ HandleAttemptStarted \/ HandleAttemptFinished
           \/ HandleGraphMutation \/ HandleArtifact
  BY <1>2, <1>6 DEF HandleOverloaded, HandleAttemptStarted, HandleAttemptFinished,
                    HandleGraphMutation, HandleArtifact, Dropped, Finished, ForDispatcher
<1>7. CASE HandleWorkerFailed \/ HandleKilled \/ HandlePaused
  BY <1>2, <1>7 DEF HandleWorkerFailed, HandleKilled, HandlePaused, Dropped, Finished,
                    ForDispatcher
<1> QED
  BY <1>3, <1>4, <1>5, <1>6, <1>7 DEF EngineHandler

LEMMA HandlerSettled ==
    ASSUME TypeOK, Settled, EngineHandler, task' = task, faults' = 0
    PROVE  Settled'
<1>1. PICK R, s, c : /\ KeepsStores(Remaining, c)
                     /\ Bears(s, HeadEvent, R)
                     /\ EngineEnds(s, c)
  BY HandlerBears DEF EngineBears
<1>2. eng' = s /\ bus' = c
  BY <1>1, NoSaveFailed DEF EngineEnds, Saved
<1>3. Leaves(Remaining, HeadEvent)
  BY HandlerDelivers, RemainingLeaves DEF TypeOK
<1>4. ASSUME NEW e \in Execs, eng'.status[e] = "interrupted"
      PROVE  AtRest(e)'
  <2>1. AtRest(e)
    BY <1>1, <1>2, <1>4 DEF Bears, Settled
  <2> QED
    BY <1>1, <1>2, <1>3, <2>1 DEF AtRest, Leaves, KeepsStores
<1> QED
  BY <1>4, LoopRuns DEF Settled

LEMMA LoopSettled ==
    ASSUME TypeOK, Settled, EngineLoop, task' = task, faults' = 0
    PROVE  Settled'
<1>1. PICK n \in Node : EndLoop \/ DispatchNode(n)
  BY BusAssumption DEF BusAssumption, EngineLoop, Node
<1>2. loop.owner # "none"
  BY <1>1 DEF EndLoop, DispatchNode
<1>3. PICK e \in Execs : e = loop.exec
  BY <1>2, LoopExec DEF TypeOK, MutexTypeOK
<1>4. eng \in EngineState /\ bus \in BusValue(Event) /\ eng.status[e] # "interrupted"
  BY <1>2, <1>3 DEF TypeOK, StateTypeOK, Settled
<1>5. CASE EndLoop
  <2> DEFINE s == [eng EXCEPT !.status[e] = "completed"]
             ev == ExecEvent("WorkflowCompleted", e, "none")
  <2>1. \/ Saved(s, Publish(bus, ev)) \/ SaveFailed(s, e, loop.node, bus)
        \/ UNCHANGED <<eng, bus>>
    BY <1>3, <1>5 DEF EndLoop
  <2>2. \A f \in Execs : s.status[f] = "interrupted" => eng.status[f] = "interrupted"
    BY <1>4 DEF EngineState
  <2>3. ev \in Event /\ ev.type = "WorkflowCompleted"
    <3>1. ev \in Event
      BY ExecEventType DEF EventType, EventArg, RuntimeType, TaskType, AttemptType
    <3> QED
      BY <3>1 DEF ExecEvent, TaskEvent
  <2> HIDE DEF s, ev
  <2>4. KeepsStores(bus, Publish(bus, ev))
    BY <1>4, <2>3, OtherStores
  <2>5. \/ eng' = s /\ bus' = Publish(bus, ev)
        \/ UNCHANGED <<eng, bus>>
    BY <2>1, NoSaveFailed DEF Saved
  <2>6. \A f \in Execs : eng'.status[f] = "interrupted" => AtRest(f)'
    BY <2>2, <2>4, <2>5 DEF Settled, AtRest, KeepsStores
  <2>7. loop' = Idle
    BY <1>5 DEF EndLoop
  <2> QED
    BY <2>6, <2>7 DEF Settled, Idle
<1>6. CASE DispatchNode(n)
  <2> DEFINE s == [eng EXCEPT !.node[e][n] = "running"]
             ev == TaskEvent("TaskCreated", e, n, 0, "none")
  <2>1. Saved(s, Publish(bus, ev)) \/ SaveFailed(s, e, n, bus)
    BY <1>3, <1>6 DEF DispatchNode
  <2>2. s.status = eng.status
    BY <1>4 DEF EngineState
  <2>3. ev \in Event /\ ev.exec = e
    BY TaskEventType DEF TaskEvent
  <2> HIDE DEF s, ev
  <2>4. \A f : f # e => ~Employs(ev, f)
    BY <2>3 DEF Employs
  <2>5. eng' = s /\ bus' = Publish(bus, ev)
    BY <2>1, NoSaveFailed DEF Saved
  <2>6. \A f \in Execs : eng'.status[f] = "interrupted" => AtRest(f)'
    BY <1>4, <2>2, <2>3, <2>4, <2>5, PublishUnemployed DEF Settled, AtRest
  <2>7. loop'.exec = e
    BY <1>2, <1>3, <1>6 DEF DispatchNode, TypeOK, MutexTypeOK, LoopState, Idle
  <2> QED
    BY <1>4, <2>2, <2>5, <2>6, <2>7 DEF Settled
<1> QED
  BY <1>1, <1>5, <1>6

LEMMA SubmitSettled ==
    ASSUME TypeOK, Settled, NEW e \in Execs, SubmitWorkflow(e), task' = task, faults' = 0
    PROVE  Settled'
<1> DEFINE s == NewExecution(eng, e)
<1>1. Saved(s, bus) /\ loop'.exec = e
  BY EngineAssumption DEF EngineAssumption, TypeOK, StateTypeOK, SubmitWorkflow
<1>2. /\ \A f \in Execs : f # e => s.status[f] = eng.status[f]
      /\ s.status[e] # "interrupted"
  BY DEF TypeOK, StateTypeOK, EngineState, NewExecution
<1> HIDE DEF s
<1>3. eng' = s /\ bus' = bus
  BY <1>1 DEF Saved
<1> QED
  BY <1>1, <1>2, <1>3 DEF Settled, AtRest

LEMMA SettledNext ==
    ASSUME TypeOK, SafetyInv, SettledInv, [Next]_vars
    PROVE  SettledInv'
<1> SUFFICES ASSUME faults' = 0
             PROVE  StoreInv' /\ Settled'
  BY DEF SettledInv
<1>1. StoreInv /\ Settled
  BY NoFault DEF SettledInv
<1>2. StoreInv'
  BY <1>1, StoreNext DEF Settled, RetriesRest
<1> SUFFICES Settled'
  BY <1>2
<1>3. CASE EngineHandles
  BY <1>1, <1>3, HandlerSettled DEF EngineHandles, dispatcherVars
<1>4. CASE LoopStep
  BY <1>1, <1>4, LoopSettled DEF LoopStep, dispatcherVars
<1>5. CASE \E e \in Execs : Submit(e)
  BY <1>1, <1>5, SubmitSettled DEF Submit, dispatcherVars
<1>6. CASE Crash
  <2>1. loop' = Idle
    BY <1>6 DEF Crash
  <2> QED
    BY <1>6, <2>1, CrashRests DEF Settled, Idle
<1>7. CASE OtherStep
  <2>1. RestsOn /\ eng' = eng /\ loop' = loop
    BY <1>7, OtherStored
  <2> QED
    BY <1>1, <2>1 DEF Settled, RestsOn
<1> QED
  BY <1>3, <1>4, <1>5, <1>6, <1>7 DEF Next, BusStep, OtherStep

LEMMA SettledInit ==
    ASSUME Init
    PROVE  SettledInv
<1>1. eng = EmptyEngine /\ loop = Idle
  BY DEF Init, EngineInit
<1> QED
  BY <1>1, StoreInit DEF SettledInv, Settled, EmptyEngine, Idle

(***************************************************************************)
(* What is over is really over, as long as every save succeeds: a node is  *)
(* done only with its artifact recorded, and an execution is completed     *)
(* only with all its nodes done, however commits, completions, kills,      *)
(* pauses, restarts and reconciliations are ordered (CommitResult, the     *)
(* ArtifactStored and WorkerCompleted handlers, the end of the loop).      *)
(***************************************************************************)
THEOREM ResultsRecorded == Spec => [](faults = 0 => DoneIsDone)
<1>1. Init => SettledInv
  BY SettledInit
<1>2. TypeOK /\ SafetyInv /\ SettledInv /\ [Next]_vars => SettledInv'
  BY SettledNext
<1>3. SettledInv /\ CompletedMeansAllDone => (faults = 0 => DoneIsDone)
  BY DEF SettledInv, StoreInv, DoneStored, DoneHasArtifact, DoneIsDone
<1> QED
  BY <1>1, <1>2, <1>3, TypeCorrect, Safety, CompletedIsAllDone, PTL DEF Spec

(***************************************************************************)
(* The same when saves fail, while nobody reconciles: what a failed save   *)
(* interrupts does not come back before a person has looked at it.         *)
(***************************************************************************)
THEOREM ResultsRecordedDespiteFaults ==
    ASSUME "ExecutionReconciled" \notin Controls
    PROVE  Spec => []DoneIsDone
<1>1. Init => TypeOK /\ DeadInv /\ StoreInv
  BY InitType, DeadInit, StoreInit
<1>2. TypeOK /\ SafetyInv /\ DeadInv /\ StoreInv /\ [Next]_vars
         => TypeOK' /\ DeadInv' /\ StoreInv'
  <2> SUFFICES ASSUME TypeOK, SafetyInv, DeadInv, StoreInv, [Next]_vars
               PROVE  TypeOK' /\ DeadInv' /\ StoreInv'
    OBVIOUS
  <2>1. TypeOK' /\ DeadInv'
    BY NextType, DeadNext
  <2>2. bus.queue # <<>> => 1 \in 1..Len(bus.queue) /\ bus.queue[1] = HeadEvent
    BY DEF TypeOK, BusValue, HeadEvent
  <2>3. ~Delivers("ExecutionReconciled")
    BY <2>2 DEF DeadInv, Unreconciled, Delivers
  <2>4. StoreInv'
    BY <2>3, StoreNext DEF RetriesRest
  <2> QED
    BY <2>1, <2>4
<1>3. StoreInv /\ CompletedMeansAllDone => DoneIsDone
  BY DEF StoreInv, DoneStored, DoneHasArtifact, DoneIsDone
<1> QED
  BY <1>1, <1>2, <1>3, Safety, CompletedIsAllDone, PTL DEF Spec
=============================================================================
