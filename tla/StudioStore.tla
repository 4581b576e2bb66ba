----------------------------- MODULE StudioStore ----------------------------
(***************************************************************************)
(* The store of the renderer (src/studio/src/state/store.ts), fed by the   *)
(* main process over one ordered channel, and the time travel that reads   *)
(* the events back (useScrubbedRun.ts, Timeline.tsx).                      *)
(*                                                                         *)
(* The renderer is one thread: an action is a user's click or the run to   *)
(* completion of one message.  A reload starts it again; the main process  *)
(* and its store go on.                                                    *)
(***************************************************************************)
EXTENDS EventStore

CONSTANTS
    Templates,       \* what Forge may report: [type, payload, val]
    Sessions,        \* numbers: a Forge that starts again has a later session
    LogLimit,        \* records, and ticks, the renderer keeps
    BackfillLimit,   \* records the first query asks for
    MaxEvents,       \* bound: events of all sessions
    MaxOperations    \* bound: what the user does, reloads of the renderer included

StoreAssumption ==
    /\ Sessions \subseteq Nat /\ None \notin Sessions
    /\ {LogLimit, BackfillLimit, MaxEvents, MaxOperations} \subseteq Nat
    /\ BackfillLimit <= LogLimit
ASSUME StoreAssumption

VARIABLES
    phase,           \* how far initialize() is: see Phases
    view,            \* the projection shown
    timeline,        \* the ids of the events pushed, oldest first
    shown,           \* the log records held
    selected,        \* the run selected, or None for the newest
    scrub,           \* the event the playhead is at, or None for live
    cache,           \* the events fetched for the replay, or None
    fetches,         \* fetches of the events for a replay; only the last counts
    replay,          \* [id, of, run]: the last replay computed, or None
    missed,          \* a push newer than the snapshot went unheard: a history
    whole,           \* the records of the selected run were asked for, or the first
                     \* query was given all there were: a history
    session, nextId, \* of Forge
    arrived,         \* events received so far, for the bound
    ideal,           \* the events folded one by one as they arrive: a history
    budget           \* operations left
rendererVars == <<phase, view, timeline, shown, selected, scrub, cache,
                  fetches, replay, missed, whole>>
forgeVars == <<session, nextId, arrived, ideal>>
vars == <<storeVars, rendererVars, forgeVars, budget>>

unchangedStore == UNCHANGED <<capacity, ring, logs, evicted, pendingEvents, pendingLogs,
                              projection, logSeq, stateTimer, logTimer>>

(* initialize() asks for the snapshot and the events, then for the log      *)
(* records, and only then listens to the pushes.                            *)
Phases == <<"start", "snapshot", "events", "backfill", "live">>

(* A call and its handling are one action: what the main process does in    *)
(* between depends on no call, so it is as if done before.  `Take` is the   *)
(* same for a call made on taking a message.                                *)
Ask(request) == pushes' = Append(pushes, Answer(request))
Take(calls) == pushes' = Tail(pushes) \o [i \in DOMAIN calls |-> Answer(calls[i])]

RendererStart ==
    /\ phase' = "start"
    /\ view' = EmptyProjection
    /\ timeline' = <<>> /\ shown' = <<>>
    /\ selected' = None /\ scrub' = None /\ cache' = None /\ fetches' = 0 /\ replay' = None
    /\ missed' = FALSE /\ whole' = FALSE

Init ==
    /\ EventStoreInit
    /\ phase = "start"
    /\ view = EmptyProjection
    /\ timeline = <<>> /\ shown = <<>>
    /\ selected = None /\ scrub = None /\ cache = None /\ fetches = 0 /\ replay = None
    /\ missed = FALSE /\ whole = FALSE
    /\ session = 0 /\ nextId = 1 /\ arrived = 0 /\ ideal = EmptyProjection
    /\ budget = MaxOperations

-----------------------------------------------------------------------------
(* Forge, seen through the socket: it numbers its events from 1 in every    *)
(* session, and the next event may be the first of a new one.               *)
Arrive ==
    /\ arrived < MaxEvents
    /\ \E t \in Templates, s \in Sessions :
          LET n == IF s = session THEN nextId ELSE 1
              e == [id |-> n, session |-> s, type |-> t.type, payload |-> t.payload,
                    val |-> t.val]
          IN  /\ s >= session
              /\ Ingest(e)
              /\ session' = s /\ nextId' = n + 1
              /\ ideal' = ApplyEvents(ideal, <<e>>)
    /\ arrived' = arrived + 1
    /\ UNCHANGED <<rendererVars, budget>>

(* The two calls are made at once and handled one after the other.          *)
Initialize ==
    /\ \/ phase = "start" /\ phase' = "snapshot" /\ Ask([kind |-> "snapshot"])
       \/ phase = "snapshot" /\ phase' = "events" /\ Ask([kind |-> "events"])
    /\ UNCHANGED <<view, timeline, shown, selected, scrub, cache, fetches, replay, missed,
                   whole, scope, forgeVars, budget>>
    /\ unchangedStore

-----------------------------------------------------------------------------
(* The renderer takes the next message.  Until initialize() subscribes,     *)
(* nobody listens to the pushes.                                            *)
Ticks(events) == [i \in DOMAIN events |-> events[i].id]

AppendCapped(s, more, limit) == Newest(s \o more, limit)

(* One entry per number, oldest first: a record comes after as many others  *)
(* as have a smaller number.                                                *)
InOrder(records) ==
    [i \in 1..Cardinality(records) |->
        CHOOSE a \in records : Cardinality({b \in records : b.seq < a.seq}) = i - 1]
MergeLogRecords(existing, incoming, limit) ==
    IF incoming = <<>> THEN existing
    ELSE Newest(InOrder(Range(existing) \cup Range(incoming)), limit)

(* The run shown, and its replay up to the playhead.  The effect runs when  *)
(* either changes: it replays the events it has, or fetches them.           *)
RunOf(run, projected) == IF run = None THEN LatestRun(projected) ELSE run
ShownRun == RunOf(selected, view)
Replay(events, id, r) ==
    LET past == ReplayTo(events, id)
    IN  [id |-> id, of |-> r, run |-> IF r \in DOMAIN past.runs THEN past.runs[r] ELSE None]
Fetch == [kind |-> "replay", tag |-> fetches + 1]
Rescrub(id, r) ==
    IF cache # None THEN replay' = Replay(cache, id, r) /\ UNCHANGED fetches
    ELSE fetches' = fetches + 1 /\ UNCHANGED replay

OnProjection(m) ==
    LET renamed == scrub # None /\ RunOf(selected, m.state) # ShownRun
    IN  /\ m.kind = "projection"
        /\ IF phase # "live"
           THEN Take(<<>>) /\ UNCHANGED <<view, timeline, cache, fetches, replay>>
           ELSE /\ view' = m.state
                /\ timeline' = AppendCapped(timeline, Ticks(m.events), LogLimit)
                /\ cache' = IF scrub = None /\ m.state.count # view.count THEN None ELSE cache
                /\ IF renamed THEN Rescrub(scrub, RunOf(selected, m.state))
                   ELSE UNCHANGED <<fetches, replay>>
                /\ Take(IF renamed /\ cache = None THEN <<Fetch>> ELSE <<>>)
        /\ missed' = (phase # "live")
        /\ UNCHANGED <<phase, shown, selected, scrub, whole>>

OnLogs(m) ==
    /\ m.kind = "logs"
    /\ shown' = IF phase # "live" THEN shown ELSE AppendCapped(shown, m.records, LogLimit)
    /\ Take(<<>>)
    /\ UNCHANGED <<phase, view, timeline, selected, scrub, cache, fetches, replay, missed, whole>>

(* The snapshot is held until the events are there too.                     *)
OnSnapshot(m) ==
    /\ m.kind = "snapshot"
    /\ view' = m.value
    /\ missed' = FALSE
    /\ Take(<<>>)
    /\ UNCHANGED <<phase, timeline, shown, selected, scrub, cache, fetches, replay, whole>>

OnEvents(m) ==
    /\ m.kind = "events"
    /\ timeline' = Ticks(m.value)
    /\ phase' = "backfill"
    /\ Take(<<[kind |-> "backfill", limit |-> BackfillLimit]>>)
    /\ whole' = (scope = None /\ Len(logs) <= BackfillLimit)
    /\ UNCHANGED <<view, shown, selected, scrub, cache, fetches, replay, missed>>

OnBackfill(m) ==
    /\ m.kind = "backfill"
    /\ shown' = m.records
    /\ phase' = "live"
    /\ selected' = IF selected = None THEN LatestRun(view) ELSE selected
    /\ Take(<<>>)
    /\ UNCHANGED <<view, timeline, scrub, cache, fetches, replay, missed, whole>>

OnScope(m) ==
    /\ m.kind = "scope"
    /\ Take(IF m.run = None THEN <<>>
            ELSE <<[kind |-> "history", run |-> m.run, limit |-> LogLimit]>>)
    /\ UNCHANGED <<phase, view, timeline, shown, selected, scrub, cache, fetches, replay, missed, whole>>

OnHistory(m) ==
    /\ m.kind = "history"
    /\ shown' = IF selected # m.run THEN shown
                ELSE MergeLogRecords(shown, m.records, LogLimit)
    /\ Take(<<>>)
    /\ UNCHANGED <<phase, view, timeline, selected, scrub, cache, fetches, replay, missed, whole>>

OnReplayEvents(m) ==
    /\ m.kind = "replay"
    /\ IF scrub = None \/ m.tag # fetches THEN UNCHANGED <<cache, replay>>
       ELSE cache' = m.events /\ replay' = Replay(m.events, scrub, ShownRun)
    /\ Take(<<>>)
    /\ UNCHANGED <<phase, view, timeline, shown, selected, scrub, fetches, missed, whole>>

RendererTakes ==
    /\ pushes # <<>>
    /\ LET m == Head(pushes)
       IN  \/ OnProjection(m) \/ OnLogs(m) \/ OnSnapshot(m) \/ OnEvents(m)
           \/ OnBackfill(m) \/ OnScope(m) \/ OnHistory(m) \/ OnReplayEvents(m)
    /\ unchangedStore
    /\ UNCHANGED <<scope, forgeVars, budget>>

-----------------------------------------------------------------------------
(* The user.                                                                *)
Spend == budget > 0 /\ budget' = budget - 1

SelectRun ==
    /\ phase \in {"backfill", "live"}
    /\ Spend
    /\ \E r \in DOMAIN view.runs \cup {None} :
          /\ selected' = r
          /\ scope' = r
          /\ Ask([kind |-> "scope", run |-> r])
    /\ whole' = (selected' # None)
    /\ scrub' = None
    /\ cache' = IF scrub = None THEN cache ELSE None
    /\ unchangedStore
    /\ UNCHANGED <<forgeVars, phase, view, timeline, shown, fetches, replay, missed>>

(* The playhead moves to a tick, or back to live.  The first move fetches   *)
(* the events; later ones reuse them.                                       *)
MovePlayhead ==
    /\ phase \in {"backfill", "live"} /\ timeline # <<>>
    /\ Spend
    /\ \E id \in Range(timeline) \cup {None} :
          /\ id # scrub
          /\ scrub' = id
          /\ IF id = None THEN cache' = None /\ UNCHANGED <<fetches, replay, pushes>>
             ELSE /\ Rescrub(id, ShownRun) /\ UNCHANGED cache
                  /\ IF cache = None THEN Ask(Fetch) ELSE UNCHANGED pushes
    /\ unchangedStore
    /\ UNCHANGED <<scope, forgeVars, phase, view, timeline, shown, selected, missed, whole>>

Reload ==
    /\ Spend
    /\ RendererStart
    /\ pushes' = <<>>
    /\ unchangedStore
    /\ UNCHANGED <<scope, forgeVars>>

ClearProjection ==
    /\ Spend
    /\ Clear
    /\ ideal' = EmptyProjection
    /\ UNCHANGED <<rendererVars, session, nextId, arrived>>

ChangeBufferSize ==
    /\ Spend
    /\ \E size \in BufferSizes \ {capacity} : SetBufferSize(size)
    /\ UNCHANGED <<rendererVars, forgeVars>>

Flush == (FlushState \/ FlushLogs) /\ UNCHANGED <<rendererVars, forgeVars, budget>>

Next ==
    \/ Arrive \/ Flush \/ Initialize \/ RendererTakes
    \/ SelectRun \/ MovePlayhead \/ Reload \/ ClearProjection \/ ChangeBufferSize

Spec == Init /\ [][Next]_vars

-----------------------------------------------------------------------------
Quiet == pendingEvents = <<>> /\ pendingLogs = <<>> /\ pushes = <<>>

(* A well formed store: buffers within their size, an armed timer for       *)
(* whatever is pending, records numbered in order.                          *)
TypeOK ==
    /\ capacity \in BufferSizes
    /\ Len(ring) <= capacity /\ Len(logs) <= capacity
    /\ pendingEvents # <<>> => stateTimer
    /\ pendingLogs # <<>> => logTimer
    /\ \A i, j \in DOMAIN logs : i < j => logs[i].seq < logs[j].seq
    /\ Len(shown) <= LogLimit
    /\ phase \in Range(Phases)

(* Where the timer cuts the stream of events into batches does not matter:  *)
(* the projection is what the events give one by one, across restarts of    *)
(* Forge in the middle of a batch (applyEvents).                            *)
FoldIgnoresBatches == pendingEvents = <<>> => projection = ideal

(* Once things are quiet, every record the main process still holds of the  *)
(* selected run is on screen: what was dropped before the run was selected  *)
(* comes with its history, what was logged meanwhile comes with a push      *)
(* (selectRun, queryLogs, flushLogs).  Of a run that initialize() selected  *)
(* that is claimed only if the first query was given all the records.       *)
SelectedLogsComplete ==
    (Quiet /\ phase = "live" /\ selected # None /\ whole /\ Len(shown) < LogLimit)
        => Range(InScope(logs, selected)) \subseteq Range(shown)

(* The playhead at the last event shows the live run: the replay of the     *)
(* buffered log from nothing and the batches folded as they came agree, as  *)
(* long as the log is whole and of one session (useScrubbedRun, replayTo).  *)
WholeLog(events) ==
    events # <<>> /\ events[1].id = 1
    /\ \A i \in DOMAIN events : events[i].id = i /\ events[i].session = events[1].session
PlayheadAtTheEndIsLive ==
    (replay # None /\ cache # None /\ WholeLog(cache) /\ view.count = Len(cache) /\ view.last = Len(cache)
        /\ view.session = cache[1].session /\ scrub = Len(cache) /\ replay.id = scrub
        /\ replay.of = ShownRun /\ ShownRun \in DOMAIN view.runs)
        => replay.run = view.runs[ShownRun]

(* A renderer that listens shows the projection of the main process, or has *)
(* it on its way; only a push taken between the snapshot and the            *)
(* subscriptions of initialize() can leave it behind, until the next one.   *)
ListenerIsCurrent ==
    (phase = "live" /\ ~missed /\ \A i \in DOMAIN pushes : pushes[i].kind # "projection")
        => view = projection

(* What the screen and the buffers of main hold is current and whole        *)
(* (store.ts of both processes).                                            *)
ScreenIsCurrent == TypeOK /\ ListenerIsCurrent
=============================================================================
