# Reticle: a TLA+ model of the runtime and of Studio

Reticle compiles a request into a workflow of agents, runs the workflow's nodes as
worker processes, keeps their results and survives crashes with snapshots on
disk (`forge`, in Go); Studio (Electron, TypeScript) starts it, shows its runs and
takes the user's decisions.  This directory holds the TLA+ modules that model
both, the TLC configurations that check them on small instances, and the TLAPS
proofs about them.  Paths below are relative to `src/`.

## The system and its parts

### The runtime (Go)

Everything in the runtime talks over one event bus.  One goroutine takes an event
from the queue and calls every subscriber in the order they subscribed;
subscribers publish further events, which go to the end of the queue.

| Part | State | Operations | What is hard |
|---|---|---|---|
| Event bus (`runtime/events/bus.go`) | queue, subscribers, `overloaded`, `closed` | Publish, Subscribe, dispatch, Close | a full queue throws away what it holds; a panicking subscriber; publishing from a handler; close while events are queued |
| Graph engine (`runtime/agent/workflow_engine.go`, `workflow_execution.go`) | executions: status, node states, attempts, active attempt, artifacts, graph; `cancelled`, `paused` | eleven bus handlers, `SubmitWorkflow`, recovery, save and its failure | late and reordered events; a save that fails between two dispatches; a graph that grows while it runs; pause against completions |
| Dispatcher (`runtime/agent/dispatcher.go`) and worker call (`worker.go`) | `activeTasks`, `cancelled`, slot semaphore; a process per attempt | task handler, attempt loop, stop handlers; start, answer, commit of the result | goroutines against the bus; a deadline against a result; cleanup against a new task; the acknowledgement of a commit against a time limit |
| Snapshot files (`execution_store.go`, `effects.go`, `memory/persistence.go`) | snapshot, `.previous`, temporary file | Load, Save | a crash between two renames, a denied rename |
| Effect ledger (`effects.go`, `broker_effects.go`) and tool broker (`runtime/toolbroker/`) | effect records on disk; sessions, calls, journal, slots | begin and revoke an attempt, call, cancel, close, Begin, Finish, Reconcile, recovery | an effect whose outcome a crash leaves unknown; a call in flight while its attempt is revoked; a journal that cannot be written |
| Waitlist (`cmd/forge/waitlist.go`) | queued requests, on disk | enqueue, pump, control handlers, restart | a save that fails while requests start; a kill of a request that waits |
| Memory (`runtime/memory/`) | scopes, artifacts, mutexes | commit of a result, release of an execution | a commit that is half applied |
| Resource manager, approvals, retry routes, model router (`runtime/agent/`, `runtime/routing/`) | device leases, pending approvals, health of routes | acquire and release, ask and answer, select and penalise | waiters against cancellation |
| Telemetry server (`runtime/telemetry/`) | websocket clients | serve, commands, broadcast | what is lost with a socket |
| MCP and plugin managers, environments, registries, compiler agents | processes, bundles, tables | start, call, stop | other people's processes |

### Studio (TypeScript)

The main process holds the socket to the telemetry server, the child process, the
event store and the settings; a window holds copies of them, fed over one ordered
channel, and the panels of the workbench.

| Part | State | Operations | What is hard |
|---|---|---|---|
| Connection (`electron/forge/client.ts`), child (`process.ts`), session (`main.ts`) | socket, retry timer, phase; child, kill timer; saved address, scheduled launches | connect, disconnect, retry, launch, stop, quit | timers against closes and users; a launch that connects late; a stopped process that outlives its timer |
| Event store (`electron/forge/store.ts`), projection (`shared/projection.ts`), window store (`state/store.ts`), time travel | two ring buffers, two timers, the fold of all events; the window's copy, the playhead | events in batches, log scope, history, select, scrub, clear, resize, reload | a restart of the forge within a batch; history against pushes; replay against folding |
| Approvals (`hitl/checkpoints.ts`, `ReviewSheet.tsx`, `toasts.ts`, `runNotifications.ts`) | requests and decisions on disk, toasts, the sheet | ask, decide, announce | a decision made twice or too late; a reconnection in between |
| Settings (`settings.ts`, `useLayoutPersistence.ts`, `ui.ts`) | the settings in memory and on disk, the window's copy, tabs and layouts | patches, pushes, the timer that saves | patches from stale copies, a timer that writes what it reads |
| Panels: keys (`env/keys.ts`), models, explorer, file viewer, terminal, preview, plan, graph, logs, activity, composer and queue | a copy each, and what is under way | loads, edits, refreshes | answers that are late, lost or of another run |

### How the parts interact

The waitlist admits a request and submits the workflow that compiles it, then the
compiled one, on goroutines of its own (`SubmitWorkflow`).  The engine publishes
`TaskCreated` for every node that is ready; the dispatcher starts a goroutine per
task, announces each attempt (`AttemptStarted`), opens a session of the tool
broker for it, waits for a slot and calls the worker.  The worker asks the memory
manager to commit its result, may request a delegation, and the dispatcher
reports the outcome (`AttemptFinished`, `WorkerCompleted`, `WorkerFailed`).  The
engine records it, hands out what became ready and announces the end of the
execution.  Operators pause, resume, kill and reconcile over the bus, at any
time.  Each part saves its whole state to a snapshot at every change; a save that
fails stops the work of the process.  Tool calls reach the broker over HTTP and
are journalled to the effect ledger before and after the adapter runs.  Studio
hears the bus over a websocket and asks for a snapshot of the runs when it
connects; its commands go over the same socket, its REST calls beside it.

### What makes each part correct

- **Bus**: nothing is lost but what an announced overload throws away; every
  subscriber sees every event once, in order, though others leave or panic.
- **Engine and dispatcher**: a node runs only after its parents; it is recorded
  before it is handed out and handed out once; at most one attempt of it is
  recorded as running; an outcome is durable when it is announced; a completed
  execution has every node done; a killed one stays dead; an execution ends.
- **Snapshot files**: a restart finds the version saved last or the one being
  saved.
- **Broker and ledger**: no adapter is entered without a recorded intent, nor for
  a revoked attempt; an operation whose outcome is unknown is not repeated; what
  a client is told is recorded; calls stay within the slots.
- **Waitlist**: places are filled and respected.
- **Studio's session**: the phase shown is the socket's; who wants a connection
  gets one; who has let go is not connected but by a launch that is under way; no
  forge is left without an owner.
- **Studio's stores**: what is shown is the fold of the events, however they were
  batched; no record of the selected run is missing.
- **Approvals**: nobody is asked in vain, an end is announced once, of two
  decisions the one that creates the document stands.
- **Settings**: an edit is undone only by one that was made on a copy which was
  behind in the very section it writes, and never in another field; copies catch
  up; the next start accepts what was written.
- **Panels**: what is shown is of what is selected; copies settle; nothing waits
  for ever; the user's work is kept; shells and places have an owner.

## Modules

| Module | Models |
|---|---|
| `BusQueue` | what one `Publish` does to the queue: refusal, shedding of log lines, overload |
| `EventBus` | the whole bus: subscribers, the dispatch goroutine call by call, panics, `Close` |
| `RuntimeBus` | the bus as the runtime uses it: executions, nodes, attempts, lifecycle events |
| `GraphEngine` | the engine: one action per handler, `SubmitWorkflow`, the dispatch loop, the snapshot and the failure of a save |
| `Dispatcher` | the task goroutines and their attempts, the stop handlers, the slots, the commit of a result |
| `Runtime` | engine and dispatcher on one bus, operators, crash and restart; the properties |
| `SnapshotFile`, `DurableCell` | the replacement of a snapshot file, one step per file operation; what it promises |
| `ToolBroker`, `EffectIntents` | sessions, the call handler, slots, ledger, reconciliation, crash; what the ledger promises |
| `ForgeClient`, `ForgeProcess`, `StudioSession`, `Attachment` | socket and retries; the child process; both with the settings and the user; what the connection promises |
| `Projection`, `EventStore`, `StudioStore` | the fold over events; the main process's store; the window's store and time travel |
| `ApprovalFeed`, `Approvals` | what Studio hears of runs that wait; toasts, announcements, the sheet and the decision |
| `SettingsStore`, `StudioPreferences` | the settings in the main process; the window's copy, the tabs, layouts and the timer |
| `EnvKeys`, `ModelCatalog`, `Explorer`, `Dock`, `PlanModel`, `GraphView`, `LogView`, `Waitlist` | one panel each, with the part of the main process or the forge behind it |
| `MC_*` | instances for TLC, for the modules a cfg alone does not suffice; `MC_Workbench` puts the panels side by side |
| `*Proofs` | theorems and proofs |

`Runtime` extends `GraphEngine` and `Dispatcher`, which extend `RuntimeBus` and it
`BusQueue`; `EventBus` extends `BusQueue` too, so that both use the same `Publish`.
`StudioSession` extends `ForgeClient` and `ForgeProcess`; `StudioStore` extends
`EventStore` and it `Projection`, whose fold `Approvals` uses too.  Definitions
whose comment starts with "Wrong:" or "Mutant:", and the neighbours of a
definition that are named for a slip, are deliberate faults: each is put in the
place of the right one to see that a property notices (PROJECT.json, "mutants").

### State and actions against the code

- **Engine** (`eng`, `disk`).  `eng` is `we.Executions` with `we.cancelled` and
  `we.paused`; per execution `status`, `node` (NodeStates), `attempt` (the states
  in Attempts), `active` (ActiveAttempt, 0 for none), `artifact`, `count` and
  `parents` (the graph).  `disk` is what the last successful save wrote.  Nodes
  are numbers, static ones first; a delegation adds one or two.  A handler that
  hands out several nodes holds the engine's mutex and saves before each: it is a
  loop (`loop`), one step per node, because a save may fail in the middle and task
  goroutines run in between.  `SaveFailed` is the failing branch of every save,
  with the rollback that handler does.
- **Dispatcher** (`task`, `activeTasks`, `stopped`, `issued`).  `task[e][n].pc` is
  the place of the goroutine in the attempt loop: before an attempt (`select`),
  waiting for a `slot`, in the worker (`execute`), waiting for the commit, with
  the result returned, at its exit.  Routing, device leases and opening the
  session are one choice, to fail or go on.
- **Bus in the runtime**.  The subscribers of an event run one after the other on
  one goroutine; engine and dispatcher steps for an event are separate, so that
  goroutines interleave with them.
- **Broker**.  A critical section is one step; `h[r].pc` is the place of the
  handler of request `r`.  A ledger record keeps its state and the class of its
  operation (task, tool and arguments).  The adapter is external: it returns any
  result at any time, or never.
- **Snapshot file**.  Contents are version numbers.  Reading back what was written
  and syncing are taken as reliable; renames may be denied (the case the code
  handles for Windows).
- **Session**.  `socket`, `phase`, `retry`, `attempt`, `closed` and `target` are the
  fields of the client; `child`, `kills` and `asked` those of the process; `saved`,
  `rest` and `launches` the address in the settings, the one the REST client
  uses, and the connections scheduled after a launch.  `wanted` is a history of what
  the user asked for: "asked" by a connect or a launch, "no" after a disconnect, and
  "late" when the timer of a launch (`main.ts:379`, which nothing cancels) fires after
  that.  `Attachment` speaks of this history, not of the client's own fields.
- **Stores**.  `ring`, `logs`, `pendingEvents`, `pendingLogs` and the two timers are
  those of `store.ts`; `pushes` is the channel to the window, replies included;
  `view`, `shown`, `cache`, `replay` and `scrub` are the window's.  `ideal` is a
  history variable: the fold of all events one by one.
- **Approvals**.  `engine`, `worker` and `bus` are what the forge knows, `socket` what
  is on its way, `view` the projection; `calls` are decisions that were clicked
  and have not been answered.  `writeFile` with the flag `wx` takes two steps,
  `CreateDocument` and `FillDocument`: another decision may come in between, and the
  worker's poll reads the empty document.  `told` is a history: the decision that the
  user was told is recorded.
- **Settings**.  `settings` and `disk` are the main process's value and its file;
  `copy` the window's; `ui` the tabs; `armed` the timer of `useLayoutPersistence`.
  Three history variables: `said` is what the user meant, each change of a section
  made to the sections *as the user left them* and not to the copy the view computes
  its patch from; `behind` the sections that were sent, by a view or by the timer, from
  a copy that was behind in them; `had` the arrangements of the session.
- **Waitlist**.  A request is `parallel`, `grouped` (parallel, but of a group, as the
  forge's own dashboard enqueues) or `sequential`; a sequential one starts only when no
  request of the group is at work, whatever its mode.  A start that fails has been
  saved as running before, and the save of its failure may fail in its turn
  (`StartFails`).
- **Models**.  A call that was given up after its time limit stays among the calls
  (`gone`): the runtime may serve it later, when nobody listens.
- **Panels**.  Each has the state of its component (`useState`, `useRef`), the calls
  under way, and what the other side holds.  They share no state, so
  `MC_Workbench` exercises one at a time, named by `panel`.

## Runs

Run one with `tlc -config <cfg> <module>`; PROJECT.json names cfg and module.

| Run | Instance | Shows |
|---|---|---|
| `recovery` | one static node that delegates, 2 attempts, 2 control events of any kind, 1 failed save, 1 crash | `TypeOK`, `DependenciesDone`, `DoneIsDone`, `OneAttemptAtATime`, `AnnouncedIsDurable` |
| `live` | delegation up to a budget of 3 nodes, an attempt and its retry, time limits, a node that waits for a person, a queue of 4 events, a pause, resumption or kill, 1 failed save; fair | `KilledStaysDead`, `RecordedBeforeDispatch`, `ExecutionEnds`, `KillEndsWork` |
| `bus` | a subscriber of one event type and one of all, a queue of 2, 4 published events; fair | `NoSilentLoss`, `EachIsCalledInOrder`, `DispatchGetsThere` |
| `snapshot` | 5 tries, 4 versions; 1 denial and 3 crashes, or 3 denials | `CellSpec` |
| `effects` | an attempt and its successor make the same call, which a client also repeats; a control event, a failed save, a crash | `EntryIsRecorded`, `CallsKeepTheRules`, `LedgerMovesForward`, `IntentSpec` |
| `stream` | two runs, two sessions of the forge, buffers of 1 or 2, two events and two operations of the user | `FoldIgnoresBatches`, `SelectedLogsComplete`, `PlayheadAtTheEndIsLive`, `ScreenIsCurrent` |
| `approvals` | a run that waits for a person; two of: a loss of the socket, a document that cannot be written, a decision | `NobodyIsAskedInVain`, `AnnouncedExactlyOnce`, `StatusesRestored`, `FirstDecisionStands` |
| `session` | two addresses, two launches, two starts of Studio; fair | `PhaseIsTheSocket`, `NeverStranded`, `ForgesAreOwned`, `AttachmentSpec`, `ConnectsInTheEnd` |
| `settings` | two files in tabs, two schemes, a profile, a layout, 3 edits, 1 failed write | `EditsAreKept`, `CopyCatchesUp`, `SettingsAreSound`, `ArrangementIsTheUsers` |
| `workbench` | every panel over its own part of the system | `UsersWorkIsKept`, `ListsAreRight`, `CopiesSettle`, `NothingStaleIsShown`, `NothingIsStuck`, `ResourcesAreOwned` |
| `v_writes`, `v_waiting` | | violations, see Findings |

Deadlock checking is off everywhere: executions end, bounds run out, users stop
clicking, and the system may then rest.

**Bounds and why they suffice.**  Two attempts are what it takes for a late event
of an old attempt to meet a new one; three nodes for the shapes a delegation
gives (a child, a child and its successor), two for a delegation that the budget
refuses.  Two control events give pause then resume, and a reconciliation queued
behind another.  One failed save reaches every rollback at every place, because
TLC chooses the place; after it the process is to be restarted, which the crash
does.  A queue of 20 events never overloads, the queue of 4 of `live` does at the
places where a kill is queued.  The broker's bounds (32, 4 and 8 slots) matter
only relative to the number of calls, so two or three show the same contention.
Buffers of one and two records are overtaken by two events, and a first query of one
record leaves the other out; one record per run and level tells the scopes apart.  Two addresses tell "the saved one" from "the
one the socket is for"; the delay of a retry has two values, first and later.
In `approvals` decisions under way and faults are two together (`MaxCalls`): two
decisions are a race, a decision and a lost socket a late answer; one toast shown and
one evicted is a full list.  In `live` executions compile nothing, so that
`KilledStaysDead` is exercised there by kills around a submission only; what it says of
a compile execution rests on the theorems `KillStands` and `OnlyCompilersLinger`.  Three edits are an edit, one that undoes it, and one of
another field between them.  The panels' bounds are named in the cfg; the queue
of the waitlist is never full there (`MaxItems` exceeds the requests), so the
refusal of a full queue is modelled but not reached.

**Fairness.**  The bus goroutine and each task goroutine run when they can (the Go
scheduler); a worker returns, fails or meets its time limit, because each call
has a deadline, except for workers that wait for a person, of which nothing is
assumed.  Nothing is assumed of adapters, operators, submissions or crashes.
`ExecutionEnds` therefore allows an execution to stay with a person, paused, or
interrupted by a failed save.  In Studio timers fire, pushes arrive and a closed
socket is reported; a server that is asked again and again does not refuse for
ever (strong fairness on opening).  Nobody has to click anything.

**Qualifications that the runs made necessary.**  `SingleDispatch` is claimed for a
process whose saves succeed and `RunningAttemptIsActive` for a history in which
all did: the `ExecutionReconciled` handler (`workflow_engine.go:556`) accepts a
retry in the very process whose save has failed and that waits for its restart,
so a node may be queued twice there, and the `WorkerFailed` of the dispatcher's
refusal may clear the active attempt while it is recorded as running.
`KilledStaysDead` is checked and proved without crashes: after a kill of e was saved with
compile-e paused, a crash leaves compile-e paused with its kill lost.

What the properties exclude, because the code does it; the hazards in PROJECT.json
name the same exceptions:

- `EditsAreKept` excludes the sections in `behind`.  Without that TLC answers at once:
  two schemes created in a row, the second before the push of the first has arrived,
  leave only the second.  What it says is that this is the only way to lose an edit.
- `SelectedLogsComplete` says that no record of the history is missing, not that none
  is there twice: the window appends a batch without looking (`state/store.ts:131-135`).
- `CopiesSettle` excludes an edit of the keys that overlapped a load, and a change of
  the catalogue that crossed one: the list may then be the older one until the next load.
- `ListsAreRight` pairs outcomes with requests as long as no worker of the node died
  with calls open, and compares export and panel when the list was not cleared and a
  level is on (the rest is a finding below).
- `UsersWorkIsKept` excludes what was typed while the answer to a submit was due.
- `NothingIsStuck` excludes places that a kill vacated (`waitlist.go:265`): nobody pumps.

## Findings

Runs that are expected to violate a property that a comment states:

- `v_writes` (`studio/src/state/useLayoutPersistence.ts:74`).  The effect that saves
  the arrangement depends on the settings object, and the main process pushes a new
  one after every patch, that one included: the file is written every 0.8 s as long
  as the window is open.  The comment at lines 11-12 calls the write debounced.
- `v_waiting` (`studio/src/shared/projection.ts:27`).  After a reconnection the
  snapshot of a run that waits for a person shows its step as running; the
  comment there calls that "a lie".

Violations of the same kind that the models show; TLC finds each in the instance that
is named:

- *A decision is read before it is written* (`studio/electron/hitl/checkpoints.ts:13`).
  The document of a decision exists before it is filled.  The worker polls for it, reads
  nothing, takes that for an invalid decision and ends the attempt, while the user is told
  that the decision is recorded.  The comment on `AwaitApproval` (`approval.go:80`) says
  that it waits until a decision is written or the run is killed.  `Approvals` with
  `Approvals_v_decision.cfg`, property `WaitsForADecision`.
- *A launch connects a user who has disconnected* (`studio/electron/main.ts:379`).  The
  connection is made 1.2 s after the launch, from a timer that nothing cancels and that
  resets `intentionallyClosed` as a request does.  The comment on that flag
  (`client.ts:29`) says that an explicit disconnect is to "suppress auto-reconnect".  `StudioSession` with `StudioSession_v_disconnect.cfg`,
  invariant `DisconnectHolds`; the exception in `Attachment` is this very step.
- *The timer undoes a layout* (`studio/src/state/useLayoutPersistence.ts:59`).  It writes
  the named layouts of its copy with the current arrangement: a layout saved just before,
  whose push has not arrived, is gone.  `TabLayoutsSection.tsx:15` calls them separate.
  `StudioPreferences` with `StudioPreferences_v_layouts.cfg`, property
  `LayoutsAreSeparate`.
- *An export is not what the panel shows* (`studio/src/features/logs/LogPanel.tsx:55`).
  With every level off the panel is empty and the query names no levels, which `queryLogs`
  takes for all of them.  `LogPanel.tsx:48` says that an export matches exactly what is on
  screen.  `LogView` with `LogView_v_export.cfg`, invariant `ExportMatchesTheScreen`.
- *An attempt that starts during a pause is not recorded* (`workflow_engine.go:204`,
  360): its completion is dropped and its node stays running, after a resume too;
  `docs/audit/2026-09-08/01-findings.md:252` says that a pause does not suspend running
  work.  `MC_Runtime`, `LiveSpec`, one execution, `OneNode`, `Flat`, `MaxNodes` and
  `MaxAttempts` 1, no faults and crashes, one retry and slot, `PauseResume` with 2
  controls; property `PausedWorkIsRecorded`.
- *The backup goes while it is the only copy* (`memory/persistence.go:122`; the same in
  `execution_store.go:119` and `effects.go:265`): after an interrupted replacement
  `.previous` is the only copy, a denied rename removes it, and a crash then loses the
  state that lines 119-120 want preserved.  `SnapshotFile` with `Faults` two
  denials and two crashes (`{<<2, 2>>}`), invariant `RestartHasACopy`.
- *An attempt opened while its execution is paused makes calls* (`broker.go:286`): a
  pause marks the sessions that are open; RFC-050:43 says that it blocks new calls.
  `MC_ToolBroker` as in `effects` with requests 1 and 3, two controls, no failed save
  and no crash; property `PauseBlocksNewCalls`.

Met while modelling, in the models' behaviour, without a property of their own:

- Engine: `SubmitWorkflow` (`workflow_engine.go:641`) hands out the roots of an
  execution that was paused before, and goes on to the next root when the save of
  one has failed; a queued reconciliation is accepted after a failed save
  (`docs/specifications/event-taxonomy/v1/001-events.md:14` says that no more work is
  admitted).  Recovery (76) keeps a paused execution paused with interrupted nodes
  that nobody hands out.  `reportPersistenceFailure` (146) may turn a terminal status
  into interrupted when the save of a late control event fails.
- Broker: the result of a call whose attempt was revoked meanwhile is answered
  `no_effect` (`broker.go:603`) while the ledger holds the effect as interrupted.
- Window store: after a reload of the window only the newest 4000 records are asked for
  (`store.ts:115`), of all runs or of the one that main's scope still names, and the run
  that `initialize()` then selects by itself (163) is neither asked for nor made the
  scope.  Older records of it, and new ones if the scope names another run, are not
  shown until the user selects it; the comment at 113 says that a reload does not appear
  to lose the run.  `SelectedLogsComplete` is therefore claimed of a run that the user
  selected, or whose first query was given all records (`whole`); with one record to a
  first query (`BackfillLimit`) TLC shows the rest.
- Worker: a tool call of a worker that died stays "running" in the activity panel, and
  after a retry the new attempt's outcome is paired with it (`toolActivity.ts:69`); a
  successful `mark_task_complete` reports no outcome (`worker_sdk.py:1565`).
- Logs: after "Clear logs" an export still holds what was cleared, and unscoped records
  that the stream had dropped.
- Plan and graph: `startsWith` on task ids lets `run|design` claim the inputs of
  `run|design2` (`PlanView.tsx:191`); cards of the run before stay until the new answers
  (163); an edge key is split at `->` (`layout.ts:190`).
- Settings sections: the error of a failed action is erased by the load that follows;
  a first load that fails leaves the spinner; discovery notes the enabled flags and
  overwrites them later (`models.go:287`, 735); a bulk toggle inverts models that a stale
  view shows wrong (`ModelsSection.tsx:178`).
- Keys: Enter in a row is not gated by busy; a read failure of `.env` is taken for a
  missing file and drops the other lines (`keys.ts:45`); an edit by hand between read and
  rename is lost; a revealed value stays 20 s after it was replaced.
- Explorer, terminal, preview: a tree that fails to load after a change of run leaves
  the old one under the new label; a reload of the window leaks the shell; the
  preview server memoises a rejection.
- Composer and waitlist: text and attachments entered while a submit is awaited are
  cleared with it, and a double Enter sends twice; a kill frees a place and nobody
  pumps (`waitlist.go:265`), nor does a failed save in Pump; a killed sequential run
  frees its group while its workers may still write; an overload drops published views
  of the queue.

## Proofs

Eight modules hold theorems that TLAPS checks for every value of the constants;
`tlapm <module>.tla` checks one.  The assumptions are the modules' named ASSUMEs
and nothing else (`BusAssumption`, `CapacityAssumption`, `EngineAssumption`,
`DispatcherAssumption`, `RuntimeAssumption`, `EventBusAssumption`,
`BrokerAssumption`, `ClientAssumption`, `ProcessAssumption`, `SessionAssumption`,
`SnapshotAssumption`, `SettingsAssumption`, `PreferencesAssumption`,
`StoreAssumption`, `BufferSizesAssumption`, `ExplorerAssumption`, `GraphAssumption`, `CatalogAssumption`, `DockAssumption`,
`WaitlistAssumption`): bounds are natural numbers, a queue holds at least one
event and a waitlist has at least one place, a static graph has its parents before
its children (a cyclic graph is refused by `SubmitWorkflow`), a compile execution is
not the one it compiles, the tab of a file is never the graph's (their ids start with
`file:`, `output:` or `artifact:`), the nodes a canvas may draw are finitely many, and
"no run", "nothing read" and "no shell" are not runs, contents and shells.  TLC
evaluates all of them in the runs.  Executions, nodes, attempts, subscribers,
requests, addresses and capacities are any sets and numbers, infinite ones
included unless an assumption says otherwise.

**`RuntimeSafetyProofs`.**  `TypeOK` (`TypeCorrect`) is inductive as it stands.  It is not
shallow: a delegation that outgrew the node budget, an event about a node that
does not exist, or an attempt above the limit would be a value out of its type.
One lemma per handler says what it does to engine, snapshot and bus.

`DependenciesDone` is not inductive: a handler that
marks a node running reads the states of its parents, but a *reconciliation*
hands out what the snapshot calls interrupted, a *delegation* puts a new parent
before nodes that exist, and a *crash* puts the snapshot in the place of memory.
The invariant `SafetyInv` therefore consists of

- `Sound(eng)` and `Sound(disk)`, the same of memory and snapshot, because
  recovery swaps them: dependencies done (`DepsDone`); a completed execution has
  all nodes done (`AllDoneIn`); nodes beyond the graph are absent, and all are
  while the execution is (`AbsentBeyond`), which is what a delegation needs to add
  nodes that nobody refers to yet;
- `Durable`: an execution that is completed, or failed without an overload, in
  memory is so on disk; an overload may fail executions whose save fails too;
- `Clean(bus)`: an overloaded bus holds only the overload, so no handler of
  another event runs after it;
- `Known(eng, bus)` and `KnownTasks`: what the queue and the goroutines are about
  is in the graph, hence never a node of an execution that is absent;
- `LoopInv`: the loop of a submission, which runs while the engine's mutex is held
  but which task goroutines interleave, still hands out roots that are not done.

From it follow `DependenciesKept`, `CompletedIsAllDone`, `AnnouncedOutcomes` (an
outcome announced is on disk), and, with a lemma per action about the queue
(`Quiet`: no more `TaskCreated` than before), the action property
`DispatchRecorded`.  `SlotsKept` is an invariant of its own over the goroutines.
What the instances bound, failed saves, crashes and control events, the
theorems do not.

`KillStands` and `OnlyCompilersLinger` rest on `DeadInv`: an execution that is
cancelled and live is the compile execution of another one, and its own kill, or
the overload that replaced it, is still queued (`Warned`) unless a crash took the
queue; an overloaded bus either still holds the overload or nothing is live.
Each handler *carries* the warnings (`Carries`) and makes nothing live that was
not (`StillLive`).  Both theorems assume that nobody reconciles, which is the one
way to bring a cancelled execution back; the first holds until a crash, for
the reason given under the qualifications above, the second at all times.

`OneAttempt`, in the second half of the module, states `OneAttemptAtATime`, from two
invariants.  `OnceInv`, which holds until a save fails: a node is handed out at
most once (`HandedOut` counts its queued `TaskCreated` and its goroutine), what is
handed out has begun (`Begun`) and does not wait again, and the roots that a
submission still has to hand out wait.  It is the loop's guard that keeps it, and
the lemma that no handler sends a node that has begun back to "pending" but the
reconciliation, whose nodes a restart interrupted.  `OrderInv`, which holds while no
save has failed, says in what order the queue carries the attempts: between the
start of an attempt, queued or already recorded, and a `Follower` (the next start,
`WorkerFailed`, `WorkerCompleted`) there is its `AttemptFinished` (`InTurn`), and an
attempt that no goroutine has open will end in the queue, unless the bus takes no
events (`WillEnd`).  So when the engine handles a follower nothing of the node runs,
and it may clear or replace the active attempt.  Each handler keeps this by a lemma
of its own (`...Taken`), each step of a goroutine by one about what it publishes
(`NodeStarts`, `NodeEnds`, `NodeFollows`).  A restart finds nothing running because
recovery closes the active attempt and no other runs.

`ResultsRecorded` states `DoneIsDone` for every behaviour whose saves succeed, and
`ResultsRecordedDespiteFaults` for every behaviour in which nobody reconciles.
`StoreInv` follows an artifact from the commit to the node that is done: in the
queue no `WorkerCompleted` of a producer is without its `ArtifactStored` before it
(`StoredFirst`), and an attempt whose commit was acknowledged has announced it
(`StoreSent`), unless the artifact is recorded or the execution is not live, which
is when both events are refused (`Provided`).  The danger is an execution that
becomes live again between the two: a retry after an interruption.  `Settled` says
that as long as saves succeed only a restart interrupts, and that what it
interrupted is at rest, with no goroutine and nothing queued that could complete a
node; where nobody reconciles nothing comes back at all (`DeadInv`).

**`EventBusProofs`.**  `NothingLostSilently` needs that the queue is what was
accepted, numbered consecutively.  `DeliveredInOrder` rests on `DeliveryInv`: the
identities grow along the queue, behind the event at hand (`Ordered`); a list
holds the subscriptions of its topic, each once (`Listed`), and every active one
is on its list (`ActiveListed`); the copy that the dispatch goroutine walks holds
each subscriber once, and those behind the one that is called have not seen the
event (`Copied`); whoever is due has been called or is still on the copy
(`Covered`).  The last is the heart: a list is replaced under the goroutine by
subscriptions, removals and quarantines, and what is due survives because the
goroutine walks a copy.

**`ToolBrokerProofs`.**  `EntryRecorded` and `IntentsImplemented` need that a handler
between admission and answer owns the table entry of its call (`Owner`), that the
record was written by it (`Recorded`), that the operation it has checked is still
the one of the call (`CheckedKnown`), and that of the records of one operation at
most one is unresolved (`OneUnresolved`).  A restart turns running records into
interrupted ones, and only a reconciliation resolves those: that is
`LedgerForward`.  `RulesKept` adds what is known of the session at each place of the
handler (`CallInv`), which is how the check that is several steps old still holds
when the adapter is entered.  `CallsWithinBounds` counts the slots (`SlotInv`).

**`StudioSessionProofs`.**  `SessionInv` has the client's flags and the socket they go
with (`ClientInv`), the child and its kill timers (`ProcessInv`), the addresses
(`AddressOK`, `RestInv`: the REST client follows the socket or the launch that
connects last), and that no process is held when Studio does not run (`LifeInv`).
`PhaseAgrees`, `AlwaysTrying`, `ForgeIsOwned` and `RestAgrees` follow, and
`AttachmentKept` maps every step to a step or a stutter of `Attachment`: what the user
asked is the history `wanted`, the launches that are due are the timers, up is an open
socket.  It needs that there is no socket and no retry timer once the user has said no
(`WantedInv`), whatever failed, closed or fired before.

**`SnapshotFileProofs`.**  `FileIsACell` is a refinement under a hypothesis on the
faults of a behaviour: `Bearable` allows one denied rename with any number of
crashes, or three denied renames without one.  The bound is exact: two denied
renames and a crash lose the file (see Findings), and so do four denied renames
(one replacement fails to put the new version and to restore the old one, the
next one removes the backup).  The invariant counts denials: a snapshot that exists only as its
backup (`Orphan`) has used them all up, so the next replacement's first rename
succeeds and the backup is not removed.

**`StudioPreferencesProofs`.**  The four properties of the settings share one
inductive invariant, `PrefsInv`.  A view computes its patch from a copy that may be
behind, and `patch` accepts it; what the proof needs is that a patch names only the
fields it changes, and that whole sections (schemes, profiles, layouts) are written
anew without ever being unsound.

- `SettingsTyped`: memory, file, every push on its way and the copy are settings
  that `validate` accepts and whose strips hold their active tab.  It has to speak of
  pushes and copy, because the next patch is made of them.
- `LatestIsCurrent`: the last push on its way, or else the copy, agrees with the
  settings in every field but the address, which `connection:connect` changes without
  a push.  `CopyCatchesUp` is the case of no push.
- `FileIsCurrent` and `EditsAreKept`: while no write has failed the file is what
  memory holds, so that a restart loses no choice; and a section that was never sent from
  a copy that was behind in it is, in memory, what the user's changes made of it one
  after the other (`ChoicesAreKept`).  The change that a view means is made to `said`,
  the patch that it sends to the copy, and the proof is that the two agree where the
  copy was not behind.
- `LayoutsAreTheUsers`: the arrangements of memory, of the pushes and of the copy
  are among those of the session, from which `ArrangementIsTheUsers` follows: until
  the copy is there the timer is not armed, and then it saves what was put back.

The tabs need what `filter()` computes for a strip of any length (`KeepingFacts`): it
leaves out what is dropped, keeps the rest in order, and up to the first tab dropped
nothing moves, which is why the tab before the closed one is still at its place.
That is an induction over the strip.  `LeastNumber`, from the well-foundedness of the
naturals, says that a nonempty set of numbers has a least one, and the set of the
lengths at which the claim fails is a set: no theorem with an operator as its
parameter is needed.

**`WorkbenchProofs`.**  `WorkbenchInv` says of the panel that is used what keeps it
right.  Three properties of the run follow, each for all the panels it is about:
`NothingStaleIsEverShown`, `NothingIsEverStuck`, `ResourcesAreAlwaysOwned`.

- *Explorer* (`SidebarInv`).  Every load has a generation for itself (`LoadsApart`),
  and the one of the newest generation is of the chosen run (`NewestIsTheRuns`) and
  exists exactly while the sidebar says that it loads (`LoadIsAwaited`): that is why an
  older answer is not taken and why the refresh of a live run is always due, by timer
  or behind the load.  A file viewer (`ViewerInv`) reads for its own tab only.
- *Canvas* (`GraphInv`).  The layout that is kept is the one of the present key, and
  the key tells the drawings of a run apart, because its nodes only grow while its
  edge list stays the same; the pins are of the run shown unless the effects of its
  render are still to run.
- *Models* (`CatalogInv`).  Who disabled the buttons is a call that is under way and
  not a toggle; every end of it enables them, or starts the load that will.
- *Terminal* (`ShellsInv`).  A shell's start precedes its exit on the way to the
  window, nothing of it follows its exit, and at most one start, asked or answered, is
  of the present effect: a shell cannot be forgotten by the panel that asked for it
  (`Owned`), nor one that has exited stay its session (`Lives`).
- *Run queue* (`QueueInv`).  A request that was ever seen at work, in memory, on disk,
  in a published view or in a command of the user's, never waits again
  (`NeverWaitsAgain`): so no pause or resumption that is late takes a place that Pump
  has given to another.  Identities are counted and not used twice (`IdsAreCounted`).
  Behind Pump's position nothing could start (`NothingBeforePump`): what could has
  been started, and what starts leaves less room.

The proof found the model of the canvas wrong: it let the effects of a render
wait while further renders came, and then pins of one run do move cards of another
after five changes, which the run's bound of four did not reach.  React runs the effects of a
render before it renders again, and `GraphNext` now says so.

**`StudioStoreProofs`.**  The two stores of Studio, for any events, sessions, buffer
sizes and limits.  Four properties, four invariants.

- `BatchingIsInvisible` (`StoreInv`): the fold of a batch is the fold of all but its
  last event and then of that one (`BatchesJoin`), wherever the session changes in it:
  what `applyEvents` drops because of the last event's session is what applying them
  one by one would have dropped.  So `ideal` is the projection with the pending events
  on top, at all times.
- `TheScreenIsCurrent` (`ListenerInv`): the last projection on the channel, pushed or
  handed out, is main's (`Latest`), and of the calls of `initialize()` one at a time is
  under way (`Ordered`).  A snapshot can therefore only be overtaken by a push before
  the subscriptions, which is what `missed` records.
- `SelectedRunIsComplete` (`CompleteInv`): a record that main holds of the selected run
  is shown, or pending, or a message that is still to come brings it or sends for it
  (`Brought`); and no answer that replaces the list, or is merged into a full one,
  comes after the last message that brings it (`Covered`).  That `shown` may be full is
  part of the property.  `RecordsInv` says that a number belongs to one record in both
  processes, without which the merge by number could drop one.
- `TheEndOfTheReplayIsLive` (`PlayInv`): a projection that counts as many events as its
  last one is numbered is the fold of its session from the first event on (`FromStart`),
  wherever it is held: the count of a projection that was cleared lags for as long as
  the session lasts.  No two events that arrived share session and number, so a whole
  log of that session is that very sequence.

What the folds compute is kept opaque: `Apply` is never expanded, and the proofs hold
for any function in its place.  That `Folded` and `Kept` are functions by recursion on
the length is proved by taking the least length at which two of them differ.

### Checked by TLC only

- Liveness (`ExecutionEnds`, `KillEndsWork`, `DispatchGetsThere`, `ConnectsInTheEnd`,
  `CopiesSettle` and the like): the prover has no ENABLED.
- The properties of the approvals: they speak of what `Apply` makes of the nodes, which
  rests on `FoldLeft` and on functions that are put together with TLC's `@@` and `:>`,
  all of which the provers see as unknown operators.
- `DoneIsDone` with failed saves *and* reconciliations (run `recovery`, one failed
  save).  With more of them it is not inductive: a reconciliation that a failed
  process accepts leaves a pending node with a stale active attempt, whose
  completion is then accepted.
- `UsersWorkIsKept`, `ListsAreRight`: what they say of keys, plans, tool calls and log
  lines is computed by folds and filters over sequences and is checked on all small
  inputs instead.

## Not modelled, and why

PROJECT.json gives each part with its reason.  In short: the memory manager's
scopes, the device leases and approvals of the resource manager, the health of
retry routes and the model router are state machines that the models above
reduce to one choice, to fail or to succeed; MCP and plugin managers,
environments, containers, registries and the telemetry server are mostly the
processes and sockets of others; the compiler agents are prompts; inspector, node
cards and rendering keep no state of their own.  Left out everywhere: the content
of prompts, results and artifacts, wording, logging, layout, and time but for the
order in which timers fire.

## Plan

Next: modules for the memory manager's commits, the device leases and the health of
routes; then theorems about the approvals, for which the projection's handlers have to
be stated in a form the provers can expand; the lines that a forge prints, in the
window's store.
