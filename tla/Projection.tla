----------------------------- MODULE Projection -----------------------------
(***************************************************************************)
(* What Studio shows of the runs is a fold over the events of Forge.  The  *)
(* operators here are that fold (src/studio/src/shared/projection.ts) and  *)
(* the identity rules it rests on (ids.ts).  They are pure: the main       *)
(* process applies them to batches, the timeline replays with them.        *)
(*                                                                         *)
(* An event is [id, session, type, payload, val]: payload names what the   *)
(* event is about, val holds what the type adds.  Its id stands for its    *)
(* timestamp too.  Labels, sizes and previews are left out.                *)
(***************************************************************************)
EXTENDS Naturals, Sequences, SequencesExt

CONSTANT None            \* an absent field

RunStatus == {"pending", "running", "completed", "failed", "paused", "cancelled",
              "interrupted"}
NodeStatus == {"pending", "running", "done", "failed", "waiting", "blocked",
               "interrupted"}
Live == {"pending", "running", "paused"}         \* statuses a fault still changes
Final == {"completed", "failed", "cancelled"}    \* statuses a control leaves alone

(* The payload of an event: the names it carries, each possibly absent.     *)
(* `task` is the composite name of a node, <<run, node>>.                   *)
Payload(run, task, node, agent) ==
    [run |-> run, task |-> task, node |-> node, agent |-> agent]
NoPayload == Payload(None, None, None, None)

(* The elements of a sequence that are in `those`, in their order.          *)
Kept(s, those) ==
    LET kept[n \in 0..Len(s)] ==
            IF n = 0 THEN <<>>
            ELSE IF s[n] \in those THEN Append(kept[n - 1], s[n]) ELSE kept[n - 1]
    IN  kept[Len(s)]

OrElse(a, b) == IF a = None THEN b ELSE a

(* The node a payload is about, or None: the composite task id first, then  *)
(* the node id, then the agent.                                             *)
Identify(p) ==
    LET fromTask == IF p.task = None THEN <<None, None>> ELSE p.task
        run == OrElse(p.run, fromTask[1])
        node == OrElse(fromTask[2], OrElse(p.node, p.agent))
    IN  IF None \in {run, node} THEN None
        ELSE [run |-> run, node |-> node, agent |-> p.agent]

IdentifyExecution(p) == OrElse(p.run, IF p.task = None THEN None ELSE p.task[1])

NewRun == [status |-> "pending", nodes |-> <<>>, edges |-> {}, started |-> None,
           ended |-> None, failure |-> None]
NewNode == [status |-> "pending", agent |-> None, attempts |-> 0, started |-> None,
            ended |-> None, waiting |-> None, failure |-> None, files |-> {},
            artifacts |-> {}, mocked |-> FALSE, logs |-> 0]
EmptyProjection == [runs |-> <<>>, order |-> <<>>, waitlist |-> None, last |-> 0,
                    count |-> 0, session |-> None]

-----------------------------------------------------------------------------
(* Runs and nodes appear when an event first names them.                    *)
WithRun(p, r) ==
    IF r \in DOMAIN p.runs THEN p
    ELSE [p EXCEPT !.runs = @ @@ (r :> NewRun), !.order = Append(@, r)]
WithNode(p, r, n) ==
    LET q == WithRun(p, r)
    IN  IF n \in DOMAIN q.runs[r].nodes THEN q
        ELSE [q EXCEPT !.runs[r].nodes = @ @@ (n :> NewNode)]
UpdateRun(p, r, F(_)) == [WithRun(p, r) EXCEPT !.runs[r] = F(@)]
UpdateNode(p, who, F(_)) ==
    LET named(node) == [node EXCEPT !.agent = OrElse(who.agent, @)]
    IN  [WithNode(p, who.run, who.node)
            EXCEPT !.runs[who.run].nodes[who.node] = F(named(@))]

(* A fault of the runtime reaches every run that is still going.            *)
OnFault(p, status, F(_)) ==
    [p EXCEPT !.runs = [r \in DOMAIN @ |->
        IF @[r].status \notin Live THEN @[r]
        ELSE [@[r] EXCEPT !.status = status, !.failure = status,
                          !.nodes = [n \in DOMAIN @ |-> [@[n] EXCEPT !.status = F(@)]]]]]
OverloadedNode(s) == IF s = "done" THEN s ELSE "failed"
UnsavedNode(s) == CASE s \in {"running", "waiting"} -> "interrupted"
                    [] s = "pending" -> "blocked"
                    [] OTHER -> s
FailItems(w) ==
    IF w = None THEN w
    ELSE [w EXCEPT !.items = [i \in DOMAIN @ |->
              IF @[i] \in {"PENDING", "RUNNING", "PAUSED"} THEN "FAILED" ELSE @[i]]]
OnOverload(p) == [OnFault(p, "failed", OverloadedNode) EXCEPT !.waitlist = FailItems(@)]
OnPersistenceFailed(p) == OnFault(p, "interrupted", UnsavedNode)

(* Mutant: the snapshot leaves the status of the run alone.                 *)
SnapshotNodesOnly(run, val) ==
    [run EXCEPT !.nodes = [n \in DOMAIN @ |->
        IF n \in DOMAIN val.nodes THEN [@[n] EXCEPT !.status = val.nodes[n]] ELSE @[n]]]
(* WorkflowStarted and WorkflowSnapshot: the snapshot carries authoritative *)
(* statuses, and both carry the edges, whose nodes are seeded.              *)
SnapshotStatus(run, val) ==
    [run EXCEPT !.status = IF val.status \in RunStatus \ {"pending"} THEN val.status ELSE @,
                !.nodes = [n \in DOMAIN @ |->
                    IF n \in DOMAIN val.nodes /\ val.nodes[n] \in NodeStatus \ {"waiting"}
                    THEN [@[n] EXCEPT !.status = val.nodes[n]] ELSE @[n]]]
OnWorkflow(p, e) ==
    LET r == IdentifyExecution(e.payload)
        named == DOMAIN e.val.nodes \cup UNION {{d[1], d[2]} : d \in e.val.edges}
        seeded == FoldLeft(LAMBDA q, n : WithNode(q, r, n), WithRun(p, r), SetToSeq(named))
        start(run) == IF run.status # "pending" THEN run
                      ELSE [run EXCEPT !.status = "running", !.started = e.id]
        connect(run) == IF e.val.edges = {} THEN run ELSE [run EXCEPT !.edges = e.val.edges]
    IN  IF r = None THEN p
        ELSE UpdateRun(seeded, r, LAMBDA run : connect(start(
                IF e.type = "WorkflowSnapshot" THEN SnapshotStatus(run, e.val) ELSE run)))

OnNamed(p, e) ==
    LET who == Identify(e.payload)
    IN  IF who = None THEN p ELSE UpdateNode(p, who, LAMBDA node : node)

OnWorkerStarted(p, e) ==
    LET who == Identify(e.payload)
        start(node) == [node EXCEPT !.status = "running", !.started = e.id, !.ended = None,
                                    !.failure = None, !.waiting = None, !.attempts = @ + 1]
        begin(run) == IF run.status # "pending" THEN run
                      ELSE [run EXCEPT !.status = "running", !.started = OrElse(@, e.id)]
    IN  IF who = None THEN p ELSE UpdateRun(UpdateNode(p, who, start), who.run, begin)

OnWorkerCompleted(p, e) ==
    LET who == Identify(e.payload)
        finish(node) == [node EXCEPT !.status = "done", !.ended = e.id, !.waiting = None]
    IN  IF who = None THEN p ELSE UpdateNode(p, who, finish)

OnFilesWritten(p, e) ==
    LET who == Identify(e.payload)
    IN  IF who = None THEN p
        ELSE UpdateNode(p, who, LAMBDA node : [node EXCEPT !.files = e.val])

OnWorkerFailed(p, e) ==
    LET who == Identify(e.payload)
        fail(node) == [node EXCEPT !.status = "failed", !.ended = e.id, !.waiting = None,
                                   !.failure = OrElse(e.val, @)]
    IN  IF who = None THEN p ELSE UpdateNode(p, who, fail)

(* A log line may carry a sentinel, the path of a checkpoint, or neither:   *)
(* only then does it change more than the count of a node already known.    *)
Waiting(node, kind, at, path) ==
    [kind |-> kind, since |-> at, path |-> OrElse(path, IF node.waiting = None
                                                        THEN None ELSE node.waiting.path)]
Sentinel(node, signal, at) ==
    CASE signal = "RESUMED" ->
            [node EXCEPT !.waiting = None,
                         !.status = IF @ = "waiting" THEN "running" ELSE @]
      [] signal \in {"human", "comfy"} ->
            [node EXCEPT !.waiting = Waiting(node, signal, at, None), !.status = "waiting"]
      [] OTHER -> node
Checkpoint(node, path, at) ==
    IF path = None THEN node
    ELSE [node EXCEPT !.status = "waiting",
                      !.waiting = IF @ = None THEN Waiting(node, "human", at, path)
                                  ELSE [@ EXCEPT !.path = path]]
OnWorkerLog(p, e) ==
    LET who == Identify(e.payload)
        plain == e.val.signal = None /\ e.val.path = None /\ ~e.val.mocked
        known == who.run \in DOMAIN p.runs /\ who.node \in DOMAIN p.runs[who.run].nodes
        log(node) == [node EXCEPT !.logs = @ + 1]
        mark(node) == [log(node) EXCEPT !.mocked = @ \/ e.val.mocked]
    IN  CASE who = None -> p
          [] plain -> IF known THEN [p EXCEPT !.runs[who.run].nodes[who.node] = log(@)] ELSE p
          [] OTHER -> UpdateNode(p, who, LAMBDA node :
                Checkpoint(Sentinel(mark(node), e.val.signal, e.id), e.val.path, e.id))

(* An artifact goes to the node of its task, else to a known node of its    *)
(* producer, else nowhere: it never makes a node out of an agent's name.    *)
Producers(run, agent) ==
    {n \in DOMAIN run.nodes : agent # None /\ agent \in {n, run.nodes[n].agent}}
OnArtifact(p, e) ==
    LET r == IdentifyExecution(e.payload)
        found == IF r \in DOMAIN p.runs THEN Producers(p.runs[r], e.payload.agent) ELSE {}
        n == CASE e.payload.task # None -> e.payload.task[2]
               [] found # {} -> CHOOSE m \in found : TRUE
               [] OTHER -> None
    IN  IF None \in {r, n} THEN p
        ELSE UpdateNode(p, [run |-> r, node |-> n, agent |-> e.payload.agent],
                        LAMBDA node : [node EXCEPT !.artifacts = @ \cup {e.val}])

OnControl(p, e) ==
    LET r == IdentifyExecution(e.payload)
        to == CASE e.type = "ExecutionPaused" -> "paused"
                [] e.type = "ExecutionKilled" -> "cancelled"
                [] OTHER -> "running"
        control(run) == IF run.status \in Final THEN run
                        ELSE [run EXCEPT !.status = to,
                                         !.ended = IF to = "cancelled" THEN e.id ELSE @]
    IN  IF r = None THEN p ELSE UpdateRun(p, r, control)

OnWorkflowEnd(p, e) ==
    LET r == IdentifyExecution(e.payload)
        ok == e.type = "WorkflowCompleted"
        end(run) == [run EXCEPT !.status = IF ok THEN "completed" ELSE "failed",
                                !.ended = e.id, !.failure = IF ok THEN @ ELSE OrElse(e.val, @)]
    IN  IF r = None THEN p ELSE UpdateRun(p, r, end)

OnWaitlist(p, e) ==
    IF e.val = None THEN p
    ELSE [p EXCEPT !.waitlist = [e.val EXCEPT !.health =
              OrElse(@, IF p.waitlist = None THEN None ELSE p.waitlist.health)]]

Apply(p, e) ==
    CASE e.type = "RuntimeOverloaded" -> OnOverload(p)
      [] e.type = "RuntimePersistenceFailed" -> OnPersistenceFailed(p)
      [] e.type \in {"WorkflowSnapshot", "WorkflowStarted"} -> OnWorkflow(p, e)
      [] e.type \in {"NodeReady", "TaskCreated", "TaskDispatched"} -> OnNamed(p, e)
      [] e.type = "WorkerStarted" -> OnWorkerStarted(p, e)
      [] e.type = "WorkerCompleted" -> OnWorkerCompleted(p, e)
      [] e.type = "WorkerFilesWritten" -> OnFilesWritten(p, e)
      [] e.type \in {"WorkerFailed", "TaskFailed"} -> OnWorkerFailed(p, e)
      [] e.type = "WorkerLog" -> OnWorkerLog(p, e)
      [] e.type \in {"ArtifactsProduced", "ArtifactStored", "ArtifactVersionCreated"} ->
            OnArtifact(p, e)
      [] e.type \in {"ExecutionPaused", "ExecutionResumed", "ExecutionKilled"} ->
            OnControl(p, e)
      [] e.type \in {"WorkflowCompleted", "WorkflowFailed"} -> OnWorkflowEnd(p, e)
      [] e.type = "WaitlistUpdated" -> OnWaitlist(p, e)
      [] OTHER -> p

-----------------------------------------------------------------------------
(* A batch is applied in order.  What precedes the last change of session   *)
(* in it, and what the projection held of another session, is dropped.      *)
ApplyOne(p, e) ==
    LET q == Apply(p, e)
    IN  [runs |-> q.runs, order |-> q.order, waitlist |-> q.waitlist,
         last |-> IF e.id > p.last THEN e.id ELSE p.last, count |-> p.count + 1,
         session |-> OrElse(e.session, p.session)]
Folded(p, events) ==
    LET after[n \in 0..Len(events)] ==
            IF n = 0 THEN p ELSE ApplyOne(after[n - 1], events[n])
    IN  after[Len(events)]

(* Mutant: a change of session inside a batch goes unseen.                  *)
SessionStartUnseen(events) == 1
SessionStart(events) ==
    LET last == events[Len(events)].session
        other == {i \in 1..Len(events) : events[i].session \notin {None, last}}
    IN  IF last = None \/ other = {} THEN 1 ELSE 1 + CHOOSE i \in other : \A j \in other : j <= i

ApplyEvents(p, events) ==
    LET start == SessionStart(events)
        last == events[Len(events)].session
        renewed == start > 1 \/ (None \notin {last, p.session} /\ last # p.session)
    IN  IF events = <<>> THEN p
        ELSE Folded(IF renewed THEN EmptyProjection ELSE p,
                    SubSeq(events, start, Len(events)))

(* Mutant: the replay stops short of the event under the playhead.          *)
ReplayUpTo(events, max) ==
    ApplyEvents(EmptyProjection, Kept(events, {e \in Range(events) : e.id < max}))
ReplayTo(events, max) ==
    ApplyEvents(EmptyProjection, Kept(events, {e \in Range(events) : e.id <= max}))

-----------------------------------------------------------------------------
(* Selectors.                                                               *)
IsPendingApproval(p, r, n) ==
    /\ r \in DOMAIN p.runs
    /\ n \in DOMAIN p.runs[r].nodes
    /\ p.runs[r].nodes[n].status = "waiting"
    /\ p.runs[r].nodes[n].waiting # None
    /\ p.runs[r].nodes[n].waiting.kind = "human"

LatestRun(p) == IF p.order = <<>> THEN None ELSE p.order[Len(p.order)]
=============================================================================
