----------------------------- MODULE EventStore -----------------------------
(***************************************************************************)
(* The store of the main process (src/studio/electron/forge/store.ts): it  *)
(* keeps the last events and log records, folds events into the projection *)
(* and pushes both to the renderer, coalesced by two timers.               *)
(*                                                                         *)
(* `pushes` is the channel from the main process to the renderer: what it  *)
(* sends and the replies to what the renderer invokes arrive in order.     *)
(***************************************************************************)
EXTENDS Projection

CONSTANTS BufferSizes    \* the sizes the settings may give the two buffers

BufferSizesAssumption == BufferSizes \in SUBSET (Nat \ {0}) /\ BufferSizes # {}
ASSUME BufferSizesAssumption

VARIABLES
    capacity,        \* of both buffers
    ring,            \* the events kept, oldest first
    logs,            \* the log records kept, oldest first
    evicted,         \* records were dropped from `logs`
    pendingEvents,   \* ingested, not yet folded
    pendingLogs,     \* recorded, not yet pushed
    projection,
    logSeq,          \* the number of the last log record
    stateTimer,      \* a flush of the events is due
    logTimer,        \* a flush of the records is due
    scope,           \* the run whose records are pushed, or None for all
    pushes
storeVars == <<capacity, ring, logs, evicted, pendingEvents, pendingLogs, projection,
               logSeq, stateTimer, logTimer, scope, pushes>>

EventStoreInit ==
    /\ capacity \in BufferSizes
    /\ ring = <<>> /\ logs = <<>> /\ evicted = FALSE
    /\ pendingEvents = <<>> /\ pendingLogs = <<>>
    /\ projection = EmptyProjection
    /\ logSeq = 0
    /\ stateTimer = FALSE /\ logTimer = FALSE
    /\ scope = None
    /\ pushes = <<>>

(* The newest n of a sequence.                                              *)
Newest(s, n) == IF Len(s) <= n THEN s ELSE SubSeq(s, Len(s) - n + 1, Len(s))

Send(message) == pushes' = Append(pushes, message)
(* Mutant: what is pushed is the projection from before the change.         *)
PushStale(state, events) ==
    Send([kind |-> "projection", state |-> projection, events |-> events])
Push(state, events) == Send([kind |-> "projection", state |-> state, events |-> events])

(* What an event leaves in the log: nothing for most types, and a run only  *)
(* when the payload names a node.  Numbers are taken in any case.           *)
StructuralLogEvents ==
    {"RuntimeOverloaded", "EnvironmentProvisioningStarted",
     "EnvironmentProvisioningCompleted", "EnvironmentProvisioningFailed",
     "WorkflowStarted", "WorkflowCompleted", "WorkflowFailed", "NodeReady",
     "TaskDispatched", "WorkerStarted", "WorkerCompleted", "WorkerFilesWritten",
     "WorkerVerificationRecorded", "WorkerFailed", "TaskFailed",
     "ArtifactsProduced", "RuntimeStarted", "RuntimeShutdown"}
IsLogged(e) == e.type \in StructuralLogEvents \cup {"WorkerLog"}
ToLogRecord(e, seq) ==
    [seq |-> seq,
     run |-> IF Identify(e.payload) = None THEN None ELSE Identify(e.payload).run]

Ingest(e) ==
    LET record == ToLogRecord(e, logSeq + 1)
    IN  /\ ring' = Newest(Append(ring, e), capacity)
        /\ pendingEvents' = Append(pendingEvents, e)
        /\ logSeq' = logSeq + 1
        /\ IF IsLogged(e)
           THEN /\ logs' = Newest(Append(logs, record), capacity)
                /\ evicted' = (evicted \/ Len(logs) = capacity)
                /\ pendingLogs' = Append(pendingLogs, record)
           ELSE UNCHANGED <<logs, evicted, pendingLogs>>
        /\ stateTimer' = TRUE /\ logTimer' = TRUE
        /\ UNCHANGED <<capacity, projection, scope, pushes>>

FlushState ==
    /\ stateTimer
    /\ stateTimer' = FALSE
    /\ IF pendingEvents = <<>> THEN UNCHANGED <<pendingEvents, projection, pushes>>
       ELSE /\ projection' = ApplyEvents(projection, pendingEvents)
            /\ pendingEvents' = <<>>
            /\ Push(projection', pendingEvents)
    /\ UNCHANGED <<capacity, ring, logs, evicted, pendingLogs, logSeq, logTimer, scope>>

(* The records of run r, or all, in their order.                            *)
InScope(records, r) == Kept(records, {x \in Range(records) : r \in {None, x.run}})

FlushLogs ==
    /\ logTimer
    /\ logTimer' = FALSE
    /\ pendingLogs' = <<>>
    /\ IF InScope(pendingLogs, scope) = <<>> THEN UNCHANGED pushes
       ELSE Send([kind |-> "logs", records |-> InScope(pendingLogs, scope)])
    /\ UNCHANGED <<capacity, ring, logs, evicted, pendingEvents, projection, logSeq,
                   stateTimer, scope>>

SetBufferSize(size) ==
    /\ capacity' = size
    /\ ring' = Newest(ring, size)
    /\ logs' = Newest(logs, size)
    /\ evicted' = (evicted \/ Len(logs) > size)
    /\ UNCHANGED <<pendingEvents, pendingLogs, projection, logSeq, stateTimer, logTimer,
                   scope, pushes>>

(* Timers and numbering survive a clear.                                    *)
Clear ==
    /\ ring' = <<>> /\ logs' = <<>> /\ evicted' = FALSE
    /\ pendingEvents' = <<>> /\ pendingLogs' = <<>>
    /\ projection' = EmptyProjection
    /\ Push(EmptyProjection, <<>>)
    /\ UNCHANGED <<capacity, logSeq, stateTimer, logTimer, scope>>

(* Mutant: the walk backwards stops one record early.                       *)
QueryLogsShort(r, limit) == Newest(InScope(logs, r), limit - 1)
(* A query keeps the newest `limit` of the records of a run, or of all; the *)
(* query of one run leaves out the records that name none.                  *)
QueryLogs(r, limit) == Newest(InScope(logs, r), limit)

-----------------------------------------------------------------------------
(* What the main process answers when the renderer calls                    *)
(* (src/studio/electron/main.ts); "scope" also sets the scope.              *)
Answer(request) ==
    CASE request.kind = "snapshot" -> [kind |-> "snapshot", value |-> projection]
      [] request.kind = "events" -> [kind |-> "events", value |-> ring]
      [] request.kind = "replay" -> [kind |-> "replay", tag |-> request.tag, events |-> ring]
      [] request.kind = "backfill" ->
            [kind |-> "backfill", records |-> QueryLogs(None, request.limit)]
      [] request.kind = "scope" -> request
      [] request.kind = "history" ->
            [kind |-> "history", run |-> request.run,
             records |-> QueryLogs(request.run, request.limit)]
=============================================================================
