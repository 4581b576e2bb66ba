------------------------------ MODULE Waitlist ------------------------------
(***************************************************************************)
(* A prompt from the composer to its run: the composer (Composer.tsx), the *)
(* commands on the socket, the queue of the forge (cmd/forge/waitlist.go)  *)
(* that starts as many runs as it has places, and the queue the Runs       *)
(* sidebar shows (RunsSidebar.tsx).  The engine is seen through what it    *)
(* does to a request.  Fault model: the socket drops, with a tail of the   *)
(* commands; a save of the queue fails; the bus overflows; the forge dies  *)
(* and starts again from the file.                                         *)
(***************************************************************************)
EXTENDS Naturals, Sequences, FiniteSets, FiniteSetsExt

CONSTANTS
  Places,         \* maxWorkers: requests at work at once
  MaxItems,       \* the limit of the queue
  Isolated,       \* a request is compiled into a workflow first
  MaxPieces,      \* texts and files the user puts into the composer
  MaxSubmits,     \* prompts submitted by the composer
  MaxRequests,    \* requests the queue takes
  MaxClicks,      \* buttons of the queue the user presses
  MaxQueueFaults  \* saves that fail, sockets lost, failures and deaths of the forge

ASSUME WaitlistAssumption ==
  /\ Places \in Nat \ {0} /\ MaxItems \in Nat /\ Isolated \in BOOLEAN
  /\ {MaxPieces, MaxSubmits, MaxRequests, MaxClicks, MaxQueueFaults} \subseteq Nat

VARIABLES
  composer,   \* [pieces, hasText, uploading]: what the user has put together
  told,       \* the answers of submits that the composer has not heard yet
  sent,       \* history: pieces handed to the socket
  lost,       \* history: pieces were cleared that had not been sent
  hasty,      \* history: something was put in while an answer was due
  link,       \* "up", "gone" (lost, and the window not told) or "down"
  toForge,    \* the commands under way
  toStudio,   \* the queues published and not shown yet
  queueView,  \* the queue the sidebar shows
  items,      \* the queue: [id, mode, status]
  onDisk,     \* the file of the queue
  unsaved,    \* history: the last change was not saved, nor published
  work,       \* where the engine is with each request
  stopping,   \* requests whose kill the engine has not seen
  cancelled,  \* requests the engine has cancelled
  owed,       \* calls of Pump: by the bus, which waits for it, and by others
  pos,        \* where Pump, which holds the lock, is in the queue; 0: not running
  vacated,       \* history: a kill or a failed save has left a place empty
  health,     \* "ok", "failed" (persistence) or "overloaded"
  tally       \* requests, pieces, submits, clicks and faults

composerVars == <<composer, told, sent, lost, hasty>>
engineVars == <<work, stopping, cancelled>>
pumpVars == <<owed, pos, vacated>>
queueVars ==
  <<composerVars, link, toForge, toStudio, queueView, items, onDisk, unsaved,
    engineVars, pumpVars, health, tally>>

\* A request is PENDING, RUNNING, PAUSED or over; nothing here tells a COMPLETED
\* request from a FAILED one.
Active == {"RUNNING", "PAUSED"}
\* A request is of no group, of the group and parallel, or of the group and sequential.
Modes == {"parallel", "grouped", "sequential"}
Ids == 1..MaxRequests
NoWork == [id \in Ids |-> "none"]
NobodyOwes == [bus |-> 0, rest |-> 0]
Noted(what) == tally' = [tally EXCEPT ![what] = @ + 1]
Fault == tally.faults < MaxQueueFaults /\ Noted("faults")

WaitlistInit ==
  /\ composer = [pieces |-> {}, hasText |-> FALSE, uploading |-> FALSE]
  /\ told = <<>> /\ sent = {} /\ lost = FALSE /\ hasty = FALSE
  /\ link = "up" /\ toForge = <<>> /\ toStudio = <<>> /\ queueView = <<>>
  /\ items = <<>> /\ onDisk = <<>> /\ unsaved = FALSE
  /\ work = NoWork /\ stopping = {} /\ cancelled = {}
  /\ owed = NobodyOwes /\ pos = 0 /\ vacated = FALSE /\ health = "ok"
  /\ tally = [ids |-> 0, pieces |-> 0, submits |-> 0, clicks |-> 0, faults |-> 0]

-----------------------------------------------------------------------------
(* The composer. *)
Puts(isText) ==
  /\ tally.pieces < MaxPieces /\ Noted("pieces")
  /\ composer' = [composer EXCEPT !.pieces = @ \cup {tally.pieces + 1},
                                  !.hasText = @ \/ isText,
                                  !.uploading = @ /\ isText]
  /\ hasty' = (hasty \/ told # <<>>)

ComposerElse == UNCHANGED <<told, sent, lost>>
ForgeUnseen ==
  UNCHANGED <<toStudio, queueView, items, onDisk, unsaved, engineVars, pumpVars, health>>

\* The user types; the field is disabled while the window knows of no connection.
TypePrompt ==
  /\ link # "down" /\ Puts(TRUE) /\ ComposerElse
  /\ UNCHANGED <<link, toForge>> /\ ForgeUnseen

\* The user picks files, which are uploaded one lot at a time.
AttachFiles ==
  /\ link # "down" /\ ~composer.uploading
  /\ composer' = [composer EXCEPT !.uploading = TRUE]
  /\ UNCHANGED <<hasty, link, toForge, tally>> /\ ComposerElse /\ ForgeUnseen

\* The upload is over; one that fails adds nothing.
UploadEnds ==
  /\ composer.uploading
  /\ \/ Puts(FALSE)
     \/ composer' = [composer EXCEPT !.uploading = FALSE] /\ UNCHANGED <<hasty, tally>>
  /\ ComposerElse /\ UNCHANGED <<link, toForge>> /\ ForgeUnseen

\* Enter, or the Run button: what is in the composer goes to the socket, if it
\* is open.  Neither waits for the answer to the one before.
Submit(mode) ==
  /\ composer.hasText /\ link # "down"
  /\ tally.submits < MaxSubmits /\ Noted("submits")
  /\ told' = Append(told, link = "up")
  /\ IF link = "up"
     THEN /\ toForge' = Append(toForge, [do |-> "enqueue", mode |-> mode])
          /\ sent' = sent \cup composer.pieces
     ELSE UNCHANGED <<toForge, sent>>
  /\ UNCHANGED <<composer, lost, hasty, link>> /\ ForgeUnseen

Cleared == [composer EXCEPT !.pieces = {}, !.hasText = FALSE]

\* Mutant: the composer is cleared whatever the answer.
HearsAnyway ==
  /\ told # <<>> /\ told' = Tail(told)
  /\ composer' = Cleared /\ lost' = (lost \/ ~(composer.pieces \subseteq sent))
  /\ UNCHANGED <<sent, hasty, link, toForge, tally>> /\ ForgeUnseen
\* The answer to a submit: a prompt that was sent empties the composer, of
\* whatever it holds by now.
Hears ==
  /\ told # <<>> /\ told' = Tail(told)
  /\ IF Head(told)
     THEN composer' = Cleared /\ lost' = (lost \/ ~(composer.pieces \subseteq sent))
     ELSE UNCHANGED <<composer, lost>>
  /\ UNCHANGED <<sent, hasty, link, toForge, tally>> /\ ForgeUnseen

\* The buttons the sidebar gives a request in each state it shows.
Buttons(status) ==
  CASE status = "RUNNING" -> {"pause", "kill"}
    [] status = "PAUSED"  -> {"resume", "kill"}
    [] status = "PENDING" -> {"remove"}
    [] OTHER              -> {}

\* A button of a request as it is shown, which may not be as it is.
Click ==
  /\ link = "up" /\ tally.clicks < MaxClicks /\ Noted("clicks")
  /\ \E i \in DOMAIN queueView : \E b \in Buttons(queueView[i].status) :
       toForge' = Append(toForge, [do |-> b, id |-> queueView[i].id])
  /\ UNCHANGED <<composerVars, link>> /\ ForgeUnseen

-----------------------------------------------------------------------------
(* The queue.  Its lock is free unless Pump is at work. *)
\* The window folds events by the batch: of the queues that wait, only the last
\* one counts.
Publishes(q) ==
  toStudio' = IF link = "up" /\ health # "overloaded"
              THEN <<[type |-> "WaitlistUpdated", items |-> q]>> ELSE toStudio

\* save: the file is replaced and the queue published, or neither.
Save(q) ==
  \/ onDisk' = q /\ Publishes(q) /\ unsaved' = FALSE /\ UNCHANGED tally
  \/ /\ Fault
     /\ unsaved' = TRUE /\ UNCHANGED <<onDisk, toStudio>>

IndexOf(id) == {i \in DOMAIN items : items[i].id = id}
StatusOf(id) == IF IndexOf(id) = {} THEN "OVER"
                ELSE items[CHOOSE i \in IndexOf(id) : TRUE].status

\* updateStatus: a request that is over stays as it is.
UpdateStatus(id, status) ==
  IF \E i \in IndexOf(id) : items[i].status # "OVER"
  THEN /\ items' = [i \in DOMAIN items |->
                      IF items[i].id = id THEN [items[i] EXCEPT !.status = status] ELSE items[i]]
       /\ Save(items')
  ELSE UNCHANGED <<items, onDisk, toStudio, unsaved, tally>>

\* Mutant: a request that could not be saved stays in the queue.
EnqueueKept(mode, who) ==
  IF Len(items) < MaxItems
  THEN LET q == Append(items, [id |-> tally.ids + 1, mode |-> mode, status |-> "PENDING"])
       IN \/ /\ items' = q /\ onDisk' = q /\ Publishes(q) /\ unsaved' = FALSE
             /\ Noted("ids") /\ owed' = [owed EXCEPT ![who] = @ + 1]
          \/ /\ Fault
             /\ items' = q /\ UNCHANGED <<onDisk, toStudio, unsaved, owed>>
  ELSE UNCHANGED <<items, onDisk, toStudio, unsaved, owed, tally>>
\* Enqueue: a request that cannot be saved is taken back, and a full queue takes
\* none.
Enqueue(mode, who) ==
  IF Len(items) < MaxItems
  THEN LET q == Append(items, [id |-> tally.ids + 1, mode |-> mode, status |-> "PENDING"])
       IN \/ /\ items' = q /\ onDisk' = q /\ Publishes(q) /\ unsaved' = FALSE
             /\ Noted("ids") /\ owed' = [owed EXCEPT ![who] = @ + 1]
          \/ /\ Fault
             /\ UNCHANGED <<items, onDisk, toStudio, unsaved, owed>>
  ELSE UNCHANGED <<items, onDisk, toStudio, unsaved, owed, tally>>

\* Remove: not a request at work.
WithoutItem(q, k) == [i \in 1..(Len(q) - 1) |-> q[IF i < k THEN i ELSE i + 1]]
RemoveItem(id) ==
  IF \E i \in IndexOf(id) : items[i].status \notin Active
  THEN \E i \in IndexOf(id) : items' = WithoutItem(items, i) /\ Save(items')
  ELSE UNCHANGED <<items, onDisk, toStudio, unsaved, tally>>

\* kill: the request is over at once and the engine is told; nobody pumps.
Kill(id) ==
  /\ UpdateStatus(id, "OVER")
  /\ stopping' = stopping \cup {id}
  /\ vacated' = (vacated \/ StatusOf(id) \in Active)

\* The bus hands the queue the next command, when it is done with the one before.
Commanded ==
  /\ toForge # <<>> /\ toForge' = Tail(toForge)
  /\ pos = 0 /\ owed.bus = 0 /\ health # "overloaded"
  /\ LET c == Head(toForge)
     IN \/ c.do = "enqueue" /\ tally.ids < MaxRequests /\ Enqueue(c.mode, "bus") /\ UNCHANGED <<stopping, vacated>>
        \/ c.do = "remove" /\ RemoveItem(c.id) /\ UNCHANGED <<stopping, vacated, owed>>
        \/ c.do = "kill" /\ Kill(c.id) /\ UNCHANGED owed
        \/ c.do = "pause" /\ UpdateStatus(c.id, "PAUSED") /\ UNCHANGED <<stopping, vacated, owed>>
        \/ c.do = "resume" /\ UpdateStatus(c.id, "RUNNING") /\ UNCHANGED <<stopping, vacated, owed>>
        \/ /\ c.do = "state" /\ Publishes(items) /\ unsaved' = FALSE
           /\ UNCHANGED <<items, onDisk, stopping, vacated, owed, tally>>
  /\ UNCHANGED <<composerVars, link, queueView, work, cancelled, pos, health>>

\* A prompt typed into the terminal of the forge, which waits for its own Pump.
TerminalEnqueues(mode) ==
  /\ pos = 0 /\ owed.rest = 0 /\ health # "overloaded" /\ tally.ids < MaxRequests
  /\ Enqueue(mode, "rest")
  /\ UNCHANGED <<composerVars, link, toForge, queueView, engineVars, pos, vacated, health>>

\* A prompt of the forge's own dashboard, whose requests are of a group and parallel.
DashboardEnqueues ==
  /\ pos = 0 /\ owed.bus = 0 /\ health # "overloaded" /\ tally.ids < MaxRequests
  /\ Enqueue("grouped", "bus")
  /\ UNCHANGED <<composerVars, link, toForge, queueView, engineVars, pos, vacated, health>>

\* An overloaded bus takes no command.
Refused ==
  /\ toForge # <<>> /\ toForge' = Tail(toForge) /\ health = "overloaded"
  /\ UNCHANGED <<composerVars, link, tally>> /\ ForgeUnseen

-----------------------------------------------------------------------------
(* Pump. *)
\* Mutant: a paused request gives up its place.
RunningIn(q) == {q[i].id : i \in {j \in DOMAIN q : q[j].status = "RUNNING"}}
\* The requests that hold a place: a paused one keeps it.
ActiveIn(q) == {q[i].id : i \in {j \in DOMAIN q : q[j].status \in Active}}
\* The ones of the group, and of those the sequential ones.
GroupIn(q) == {q[i].id : i \in {j \in DOMAIN q : q[j].mode # "parallel" /\ q[j].id \in ActiveIn(q)}}
SequentialIn(q) ==
  {q[i].id : i \in {j \in DOMAIN q : q[j].mode = "sequential" /\ q[j].id \in ActiveIn(q)}}

\* A pending request may start: a place is free and, if it is sequential, no
\* request of the group is at work, of either mode.
Launchable(i) ==
  /\ items[i].status = "PENDING" /\ Cardinality(ActiveIn(items)) < Places
  /\ items[i].mode = "sequential" => GroupIn(items) = {}

PumpStarts ==
  /\ pos = 0
  /\ \E who \in {"bus", "rest"} :
       owed[who] > 0 /\ owed' = [owed EXCEPT ![who] = @ - 1]
  /\ pos' = IF health = "ok" THEN 1 ELSE 0
  /\ UNCHANGED <<composerVars, link, toForge, toStudio, queueView, items, onDisk,
                 unsaved, engineVars, vacated, health, tally>>

WithStatus(i, status) == [items EXCEPT ![i].status = status]

\* The failure of a request that was saved as RUNNING is saved, or the file and the
\* window keep what they were given.
StartFails(i) ==
  \/ /\ onDisk' = WithStatus(i, "OVER") /\ Publishes(onDisk')
     /\ unsaved' = FALSE /\ UNCHANGED tally
  \/ /\ Fault
     /\ onDisk' = WithStatus(i, "RUNNING") /\ Publishes(onDisk') /\ unsaved' = TRUE

\* The next request that may start, in the order of the queue.  It is marked and
\* saved, or Pump ends; its session, its files and its context are put in place,
\* or it has failed, which is saved in its turn, and Pump goes on; a task of its
\* own submits it to the engine.
PumpGoesOn ==
  /\ pos > 0
  /\ LET next == {i \in pos..Len(items) : Launchable(i)}
         i == Min(next)
     IN IF next = {}
        THEN /\ pos' = 0 /\ vacated' = FALSE
             /\ UNCHANGED <<items, onDisk, toStudio, unsaved, work, tally>>
        ELSE \/ /\ items' = WithStatus(i, "RUNNING") /\ onDisk' = items'
                /\ Publishes(items') /\ unsaved' = FALSE
                /\ work' = [work EXCEPT ![items[i].id] = "submitting"]
                /\ pos' = i + 1 /\ UNCHANGED <<vacated, tally>>
             \/ /\ Fault
                /\ pos' = 0 /\ vacated' = TRUE
                /\ UNCHANGED <<items, onDisk, toStudio, unsaved, work>>
             \/ /\ items' = WithStatus(i, "OVER") /\ StartFails(i)
                /\ pos' = i + 1 /\ UNCHANGED <<vacated, work>>
  /\ UNCHANGED <<composerVars, link, toForge, queueView, stopping, cancelled, owed, health>>

-----------------------------------------------------------------------------
(* The engine and the tasks that submit to it. *)
EngineElse ==
  UNCHANGED <<composerVars, link, toForge, queueView, pos, vacated, health>>

\* A task submits a request: the engine takes it, unless it was cancelled, or the
\* request has failed and the task pumps.
Submitted(id) ==
  /\ work[id] = "submitting"
  /\ \/ /\ id \notin cancelled
        /\ work' = [work EXCEPT ![id] = IF Isolated THEN "compiling" ELSE "running"]
        /\ UNCHANGED <<items, onDisk, toStudio, unsaved, owed, tally>>
     \/ /\ pos = 0 /\ UpdateStatus(id, "OVER")
        /\ owed' = [owed EXCEPT !.rest = @ + 1]
        /\ work' = [work EXCEPT ![id] = "none"]
  /\ UNCHANGED <<stopping, cancelled>> /\ EngineElse

\* The compilation of a request is done: a task of its own loads what it made.
Compiled(id) ==
  /\ work[id] = "compiling" /\ pos = 0 /\ owed.bus = 0 /\ health # "overloaded"
  /\ work' = [work EXCEPT ![id] = "provisioning"]
  /\ UNCHANGED <<items, onDisk, toStudio, unsaved, stopping, cancelled, owed, tally>>
  /\ EngineElse

\* awaitRunnable: the task waits while the request is paused and gives up
\* without a word when it is over; what it loads and submits may fail.
Provisioned(id) ==
  /\ work[id] = "provisioning" /\ pos = 0
  /\ \/ /\ StatusOf(id) = "RUNNING" /\ id \notin cancelled
        /\ work' = [work EXCEPT ![id] = "running"]
        /\ UNCHANGED <<items, onDisk, toStudio, unsaved, owed, tally>>
     \/ /\ StatusOf(id) = "RUNNING" /\ UpdateStatus(id, "OVER")
        /\ owed' = [owed EXCEPT !.rest = @ + 1]
        /\ work' = [work EXCEPT ![id] = "none"]
     \/ /\ StatusOf(id) \notin Active /\ work' = [work EXCEPT ![id] = "none"]
        /\ UNCHANGED <<items, onDisk, toStudio, unsaved, owed, tally>>
  /\ UNCHANGED <<stopping, cancelled>> /\ EngineElse

\* Mutant: a run that is over frees its place and nobody pumps.
WorkflowEndsQuietly(id) ==
  /\ work[id] \in {"compiling", "running"}
  /\ pos = 0 /\ owed.bus = 0 /\ health # "overloaded"
  /\ work' = [work EXCEPT ![id] = "none"]
  /\ UpdateStatus(id, "OVER") /\ owed' = owed
  /\ UNCHANGED <<stopping, cancelled>> /\ EngineElse
\* WorkflowFailed, or WorkflowCompleted of a run: the request is over and the
\* queue pumps.
WorkflowEnds(id) ==
  /\ work[id] \in {"compiling", "running"}
  /\ pos = 0 /\ owed.bus = 0 /\ health # "overloaded"
  /\ work' = [work EXCEPT ![id] = "none"]
  /\ UpdateStatus(id, "OVER") /\ owed' = [owed EXCEPT !.bus = 1]
  /\ UNCHANGED <<stopping, cancelled>> /\ EngineElse

\* ExecutionKilled: the engine drops the execution and reports no end of it.
EngineKills(id) ==
  /\ id \in stopping /\ owed.bus = 0 /\ health # "overloaded"
  /\ stopping' = stopping \ {id} /\ cancelled' = cancelled \cup {id}
  /\ work' = [work EXCEPT ![id] = IF @ \in {"compiling", "running"} THEN "none" ELSE @]
  /\ UNCHANGED <<items, onDisk, toStudio, unsaved, owed, tally>> /\ EngineElse

-----------------------------------------------------------------------------
(* Faults. *)
OverIn(q, statuses) ==
  [i \in DOMAIN q |->
     IF q[i].status \in statuses THEN [q[i] EXCEPT !.status = "OVER"] ELSE q[i]]
Dropped(ids) ==
  work' = [id \in Ids |-> IF id \in ids /\ work[id] \in {"compiling", "running"}
                          THEN "none" ELSE work[id]]

\* RuntimePersistenceFailed: nothing is started any more, and the requests at
\* work whose executions it names have failed.
PersistenceFails ==
  /\ health = "ok" /\ pos = 0 /\ owed.bus = 0 /\ ActiveIn(items) # {}
  /\ health' = "failed"
  /\ \E named \in (SUBSET ActiveIn(items)) \ {{}} :
       /\ Dropped(named)
       /\ items' = [i \in DOMAIN items |-> IF items[i].id \in named
                                           THEN [items[i] EXCEPT !.status = "OVER"]
                                           ELSE items[i]]
  /\ Fault
  /\ \/ onDisk' = items' /\ Publishes(items') /\ unsaved' = FALSE
     \/ unsaved' = TRUE /\ UNCHANGED <<onDisk, toStudio>>
  /\ UNCHANGED <<composerVars, link, toForge, queueView, stopping, cancelled, pumpVars>>

\* RuntimeOverloaded: what waited on the bus is gone, every request that was not
\* over has failed, and the queue can be saved but not published.  The window
\* hears of the overload itself.
Overloads ==
  /\ health # "overloaded" /\ pos = 0 /\ owed.bus = 0
  /\ health' = "overloaded" /\ toForge' = <<>> /\ stopping' = {}
  /\ Dropped(Ids)
  /\ items' = OverIn(items, {"PENDING", "RUNNING", "PAUSED"})
  /\ Fault
  /\ onDisk' = items' \/ UNCHANGED onDisk
  /\ \E k \in 0..Len(toStudio) :
       toStudio' = IF link = "up" THEN Append(SubSeq(toStudio, 1, k), [type |-> "RuntimeOverloaded"])
                   ELSE toStudio
  /\ UNCHANGED <<composerVars, link, queueView, unsaved, cancelled, pumpVars>>

\* The forge dies and starts again: the requests that were at work have failed,
\* and it pumps when it is ready.  Its sockets are gone.
ForgeRestarts ==
  /\ Fault
  /\ items' = OverIn(onDisk, Active) /\ onDisk' = items' /\ unsaved' = FALSE
  /\ link' = (IF link = "up" THEN "gone" ELSE link)
  /\ toForge' = <<>> /\ toStudio' = <<>>
  /\ work' = NoWork /\ stopping' = {} /\ cancelled' = {}
  /\ owed' = [bus |-> 0, rest |-> 1] /\ pos' = 0 /\ vacated' = FALSE /\ health' = "ok"
  /\ UNCHANGED <<composerVars, queueView>>

LinkElse ==
  UNCHANGED <<composerVars, queueView, items, onDisk, unsaved, engineVars, pumpVars, health>>

\* The socket is lost: a tail of the commands never arrives, and what has not
\* been shown never will.
LinkDrops ==
  /\ link = "up" /\ link' = "gone" /\ Fault
  /\ \E k \in 0..Len(toForge) : toForge' = SubSeq(toForge, 1, k)
  /\ toStudio' = <<>> /\ LinkElse

WindowHears == link = "gone" /\ link' = "down" /\ UNCHANGED <<toForge, toStudio, tally>> /\ LinkElse

\* A new socket: the server asks the queue to publish itself.
LinkReturns ==
  /\ link = "down" /\ link' = "up"
  /\ toForge' = Append(toForge, [do |-> "state"])
  /\ UNCHANGED <<toStudio, tally>> /\ LinkElse

\* The window folds the next message into its queue: a WaitlistUpdated replaces
\* it, a RuntimeOverloaded fails what was not over.
Shown ==
  /\ toStudio # <<>> /\ toStudio' = Tail(toStudio)
  /\ queueView' = IF Head(toStudio).type = "RuntimeOverloaded"
                  THEN OverIn(queueView, {"PENDING", "RUNNING", "PAUSED"})
                  ELSE Head(toStudio).items
  /\ UNCHANGED <<composerVars, link, toForge, items, onDisk, unsaved, engineVars,
                 pumpVars, health, tally>>

ForgeWorks ==
  \/ Commanded \/ Refused \/ PumpStarts \/ PumpGoesOn \/ DashboardEnqueues
  \/ \E mode \in {"parallel", "sequential"} : TerminalEnqueues(mode)
  \/ \E id \in Ids :
       \/ Submitted(id) \/ Compiled(id) \/ Provisioned(id)
       \/ WorkflowEnds(id) \/ EngineKills(id)

LinkNext == LinkDrops \/ WindowHears \/ LinkReturns \/ Shown

ComposerNext ==
  \/ TypePrompt \/ AttachFiles \/ UploadEnds \/ Hears
  \/ \E mode \in {"parallel", "sequential"} : Submit(mode)

\* A prompt on its way from the composer into the queue.
SubmitNext == ComposerNext \/ Commanded \/ PumpStarts \/ PumpGoesOn \/ LinkNext

\* The requests of the queue on their way through the engine.
QueueNext ==
  \/ Click \/ ForgeWorks \/ WindowHears \/ LinkReturns \/ Shown
  \/ PersistenceFails \/ Overloads \/ ForgeRestarts

-----------------------------------------------------------------------------
\* waitlist.go:542-577: however requests are paused, resumed, killed and taken up
\* again, no more than maxWorkers hold a place, and one sequential request of the
\* group.
PlacesRespected ==
  /\ Cardinality(ActiveIn(items)) <= Places
  /\ Cardinality(SequentialIn(items)) <= 1

\* waitlist.go:347-399, 542-760: a request that could start has somebody about to
\* start it, unless a kill freed the place or a save failed, which nobody answers
\* with a Pump.
PlacesAreFilled ==
  (health = "ok" /\ \E i \in DOMAIN items : Launchable(i))
    => pos > 0 \/ owed # NobodyOwes \/ vacated

\* RunsSidebar.tsx:24-28, waitlist.go:486-540: once all that was published has
\* arrived, the sidebar shows the queue the forge has, unless the last change
\* could not be saved or the bus is overloaded.
QueueSettles ==
  (/\ link = "up" /\ toStudio = <<>> /\ pos = 0 /\ health # "overloaded" /\ ~unsaved
   /\ \A i \in DOMAIN toForge : toForge[i].do # "state")
    => queueView = items

\* Composer.tsx:42-73: the composer forgets a text or a file only when it has been
\* sent, unless it was put in while an answer was due.
NothingTypedIsLost == lost => hasty
=============================================================================
