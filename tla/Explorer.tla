------------------------------ MODULE Explorer ------------------------------
(***************************************************************************)
(* The Explorer sidebar (features/explorer/ExplorerSidebar.tsx) and the    *)
(* text viewer (features/editor/FileViewer.tsx) over the guarded reads of  *)
(* the main process (electron/workspace/reader.ts).  A load asks for the   *)
(* summary of the selected run's workspace, then for its tree; while the   *)
(* run is running a new load follows three seconds after the last.  Every  *)
(* load has a generation: the answers of an older one are dropped.         *)
(***************************************************************************)
EXTENDS Naturals, FiniteSets

CONSTANTS
  Runs,        \* the runs (and, for the sidebar without a run, all sessions)
  Files,       \* the files a tab may show
  Unseen,      \* nothing is shown, nothing is under way
  MaxWrites,   \* files a worker writes
  MaxSwitches, \* selections, refreshes, ticks and remounts
  MaxDenied    \* reads that fail

ASSUME ExplorerAssumption ==
  /\ Unseen \notin [run : Runs, version : Nat]
  /\ {MaxWrites, MaxSwitches, MaxDenied} \subseteq Nat

VARIABLES
  disk,     \* [Runs -> Nat]: the version of each run's workspace
  running,  \* the runs that are running
  chosen,   \* the selected run
  gen,      \* requestGeneration
  inFlight, \* [run, gen] of the load later callers join, or Unseen
  reads,    \* the loads under way: run, generation, summary read or Unseen
  due,      \* the refresh loop: awaiting a load's end, a timer, or nothing
  loading, treeError, summary, root,   \* the sidebar's state
  viewed,   \* the file of the active tab, or Unseen
  asked,    \* the files whose read is under way and not cancelled
  loaded,   \* the file the viewer's content is of, or Unseen
  switches, denied   \* counters for the bounds

explorerVars == <<disk, running, chosen, gen, inFlight, reads, due, loading, treeError,
                  summary, root, viewed, asked, loaded, switches, denied>>

sidebar == <<disk, running, chosen, gen, inFlight, reads, due, loading, treeError,
             summary, root>>
viewer == <<viewed, asked, loaded>>

Awaiting(g) == [state |-> "awaiting", gen |-> g]
Timer == [state |-> "timer", gen |-> 0]
Idle == [state |-> "idle", gen |-> 0]

ExplorerInit ==
  /\ disk = [r \in Runs |-> 0] /\ chosen \in Runs /\ running = {chosen}
  /\ gen = 1 /\ inFlight = [run |-> chosen, gen |-> 1]
  /\ reads = {[run |-> chosen, gen |-> 1, got |-> Unseen]}
  /\ due = Awaiting(1) /\ loading = TRUE /\ treeError = FALSE
  /\ summary = Unseen /\ root = Unseen
  /\ viewed = Unseen /\ asked = {} /\ loaded = Unseen
  /\ switches = 0 /\ denied = 0

Switch == switches < MaxSwitches /\ switches' = switches + 1

-----------------------------------------------------------------------------
(***************************************************************************)
(* load: joins the load of the same run, or starts one.                    *)
(***************************************************************************)
Joinable(r) == inFlight # Unseen /\ inFlight.run = r

Load(r) ==
  IF Joinable(r)
  THEN UNCHANGED <<gen, inFlight, reads, loading>>
  ELSE /\ gen' = gen + 1
       /\ inFlight' = [run |-> r, gen |-> gen + 1]
       /\ reads' = reads \cup {[run |-> r, gen |-> gen + 1, got |-> Unseen]}
       /\ loading' = TRUE

\* The effect runs again: the old one is cleaned up, which outdates what is
\* under way, and the refresh loop starts with a load.
Restarted(r, g) ==
  /\ gen' = g + 1
  /\ inFlight' = [run |-> r, gen |-> g + 1]
  /\ reads' = reads \cup {[run |-> r, gen |-> g + 1, got |-> Unseen]}
  /\ due' = Awaiting(g + 1) /\ loading' = TRUE

\* The clean-up leaves the load under way to be joined.
RestartJoining(r) ==
  /\ gen' = gen + 1
  /\ IF Joinable(r)
     THEN due' = Awaiting(inFlight.gen) /\ UNCHANGED <<inFlight, reads, loading>>
     ELSE /\ inFlight' = [run |-> r, gen |-> gen + 1]
          /\ reads' = reads \cup {[run |-> r, gen |-> gen + 1, got |-> Unseen]}
          /\ due' = Awaiting(gen + 1) /\ loading' = TRUE

Restart(r) == Restarted(r, gen + 1)

\* The selected run changes.
Select(r) ==
  /\ r # chosen /\ Switch
  /\ chosen' = r
  /\ Restart(r)
  /\ UNCHANGED <<disk, running, treeError, summary, root, viewer, denied>>

\* A run ends: run.status is a dependency of the effect.
RunEnds(r) ==
  /\ r \in running
  /\ running' = running \ {r}
  /\ IF r = chosen THEN Restart(r)
     ELSE UNCHANGED <<gen, inFlight, reads, due, loading>>
  /\ UNCHANGED <<disk, chosen, treeError, summary, root, viewer, switches, denied>>

\* A worker writes a file of a running run.
WorkerWrites(r) ==
  /\ r \in running /\ disk[r] < MaxWrites
  /\ disk' = [disk EXCEPT ![r] = @ + 1]
  /\ UNCHANGED <<running, chosen, gen, inFlight, reads, due, loading, treeError,
                 summary, root, viewer, switches, denied>>

\* The refresh button, disabled while the sidebar loads.
Refresh ==
  /\ ~loading /\ Switch
  /\ Load(chosen)
  /\ UNCHANGED <<disk, running, chosen, due, treeError, summary, root, viewer, denied>>

\* Three seconds are over.
Tick ==
  /\ due = Timer /\ Switch
  /\ Load(chosen)
  /\ due' = Awaiting(inFlight'.gen)
  /\ UNCHANGED <<disk, running, chosen, treeError, summary, root, viewer, denied>>

\* The sidebar is closed and opened again: its state is new.
Remount ==
  /\ Switch
  /\ Restart(chosen)
  /\ treeError' = FALSE /\ summary' = Unseen /\ root' = Unseen
  /\ UNCHANGED <<disk, running, chosen, viewer, denied>>

-----------------------------------------------------------------------------
\* Only the answers of the newest generation are shown.
IsCurrent(c) == c.gen = gen

\* The load ends: the sidebar no longer loads if it was the current one, later
\* callers start their own, and the loop that waited for it goes on.
Ends(c) ==
  /\ reads' = reads \ {c}
  /\ loading' = (loading /\ ~IsCurrent(c))
  /\ inFlight' = IF inFlight # Unseen /\ inFlight.gen = c.gen THEN Unseen ELSE inFlight
  /\ due' = IF due # Awaiting(c.gen) THEN due
            ELSE IF chosen \in running THEN Timer ELSE Idle

\* workspace.summary answers.
SummaryAnswers(c) ==
  /\ c.got = Unseen
  /\ IF IsCurrent(c)
     THEN reads' = (reads \ {c}) \cup {[c EXCEPT !.got = [run |-> c.run, version |-> disk[c.run]]]}
          /\ UNCHANGED <<loading, inFlight, due>>
     ELSE Ends(c)
  /\ UNCHANGED <<disk, running, chosen, gen, treeError, summary, root, viewer, switches, denied>>

\* workspace.summary fails: the sidebar is emptied.
SummaryFails(c) ==
  /\ c.got = Unseen /\ denied < MaxDenied
  /\ denied' = denied + 1
  /\ IF IsCurrent(c)
     THEN treeError' = TRUE /\ summary' = Unseen /\ root' = [run |-> c.run, version |-> 0]
     ELSE UNCHANGED <<treeError, summary, root>>
  /\ Ends(c)
  /\ UNCHANGED <<disk, running, chosen, gen, viewer, switches>>

\* workspace.tree answers: the sidebar shows the summary and the tree.
TreeAnswers(c) ==
  /\ c.got # Unseen
  /\ IF IsCurrent(c)
     THEN /\ summary' = c.got /\ root' = [run |-> c.run, version |-> disk[c.run]]
          /\ treeError' = FALSE
     ELSE UNCHANGED <<treeError, summary, root>>
  /\ Ends(c)
  /\ UNCHANGED <<disk, running, chosen, gen, viewer, switches, denied>>

\* workspace.tree fails: what was shown stays, with an error.
TreeFails(c) ==
  /\ c.got # Unseen /\ denied < MaxDenied
  /\ denied' = denied + 1
  /\ IF IsCurrent(c) THEN treeError' = TRUE ELSE UNCHANGED treeError
  /\ Ends(c)
  /\ UNCHANGED <<disk, running, chosen, gen, summary, root, viewer, switches>>

\* The reads of the files before stay under way.
OpenFileUncancelled(f) ==
  /\ f # viewed /\ Switch
  /\ viewed' = f /\ asked' = asked \cup {f}
  /\ UNCHANGED <<sidebar, loaded, denied>>

-----------------------------------------------------------------------------
\* A file is opened in the active tab: the read of the file before is cancelled.
OpenFile(f) ==
  /\ f # viewed /\ Switch
  /\ viewed' = f /\ asked' = {f}
  /\ UNCHANGED <<sidebar, loaded, denied>>

\* workspace.read answers, with the content or an error.
FileAnswers(f) ==
  /\ f \in asked
  /\ asked' = asked \ {f}
  /\ loaded' = f
  /\ UNCHANGED <<sidebar, viewed, switches, denied>>

\* What the viewer shows: the content it has if that is the tab's.
Content == IF loaded = viewed THEN loaded ELSE Unseen

SidebarNext ==
  \/ \E r \in Runs : Select(r)
  \/ \E r \in Runs : RunEnds(r)
  \/ \E r \in Runs : WorkerWrites(r)
  \/ Refresh
  \/ Tick
  \/ Remount
  \/ \E c \in reads : SummaryAnswers(c)
  \/ \E c \in reads : SummaryFails(c)
  \/ \E c \in reads : TreeAnswers(c)
  \/ \E c \in reads : TreeFails(c)

ViewerNext ==
  \/ \E f \in Files : OpenFile(f)
  \/ \E f \in Files : FileAnswers(f)

-----------------------------------------------------------------------------
(***************************************************************************)
(* Properties.                                                             *)
(***************************************************************************)
\* ExplorerSidebar.tsx:33-73: when the sidebar is not loading and shows no error,
\* it shows the selected run's workspace, whatever was selected before and
\* whatever answers came late; after the run has ended, as the run left it.
TreeIsTheRuns ==
  (~loading /\ ~treeError) =>
    /\ root # Unseen /\ root.run = chosen /\ summary.run = chosen
    /\ chosen \notin running => root.version = disk[chosen] /\ summary.version = disk[chosen]

\* ExplorerSidebar.tsx:75-92: while the run is running a refresh is always on its
\* way, and a sidebar that loads waits for a load whose answer it will take.
RefreshIsAlwaysDue ==
  /\ chosen \in running =>
       due = Timer \/ \E c \in reads : c.gen = gen /\ due = Awaiting(c.gen)
  /\ loading => \E c \in reads : c.gen = gen

\* FileViewer.tsx:137-175: a tab whose file is not on display yet is waiting for
\* that file's read.
ViewerIsTheFiles == viewed # Unseen => Content = viewed \/ viewed \in asked
=============================================================================
