---------------------------- MODULE MC_Workbench ----------------------------
(***************************************************************************)
(* The panels of the workbench for TLC.  They share no state, so that a    *)
(* behaviour exercises one of them: "panel" names it, and the others stay  *)
(* as they were at the start.                                              *)
(***************************************************************************)
EXTENDS EnvKeys, ModelCatalog, Explorer, Dock, PlanModel, GraphView, LogView,
        Waitlist, TLC

CONSTANTS Slot1, Var1, Secret1, Secret2, Profile1, Profile2, m1, m2, m3, r1, u1, p1

VARIABLE panel

MCBoundTo == [p \in Profiles |-> Var1]
MCFirstFile == <<Comment, Line(Slot1, Secret1), Line(Var1, Secret1), Line(Slot1, Secret2)>>
MCCatalog == [m \in {m1, m2, m3} |-> m = m1]

otherVars == <<planVars, graphVars, logVars, queueVars>>
workbenchVars ==
  <<keyVars, catalogVars, explorerVars, terminalVars, previewVars, otherVars, panel>>

WorkbenchInit ==
  /\ KeysInit /\ CatalogInit /\ ExplorerInit /\ DockInit
  /\ PlanInit /\ GraphInit /\ LogInit /\ WaitlistInit
  /\ chosen = r1 /\ url = u1 /\ planRun = p1    \* the names do not matter
  /\ panel \in {"keys", "models", "explorer", "viewer", "dock", "plan",
               "plan view", "graph", "logs", "tools", "composer",
               "queue", "buttons"}

UseKeys ==
  /\ panel = "keys" /\ KeysNext
  /\ UNCHANGED <<catalogVars, explorerVars, terminalVars, previewVars, otherVars, panel>>
UseModels ==
  /\ panel = "models" /\ CatalogNext
  /\ UNCHANGED <<keyVars, explorerVars, terminalVars, previewVars, otherVars, panel>>
UseSidebar ==
  /\ panel = "explorer" /\ SidebarNext
  /\ UNCHANGED <<keyVars, catalogVars, terminalVars, previewVars, otherVars, panel>>
UseViewer ==
  /\ panel = "viewer" /\ ViewerNext
  /\ UNCHANGED <<keyVars, catalogVars, terminalVars, previewVars, otherVars, panel>>
UseDock ==
  /\ panel = "dock" /\ DockNext
  /\ UNCHANGED <<keyVars, catalogVars, explorerVars, otherVars, panel>>
UsePlan ==
  /\ \/ panel = "plan" /\ GrowPlan
     \/ panel = "plan view" /\ LoadPlan
  /\ UNCHANGED <<keyVars, catalogVars, explorerVars, terminalVars, previewVars,
                 graphVars, logVars, queueVars, panel>>
UseGraph ==
  /\ panel = "graph" /\ GraphNext
  /\ UNCHANGED <<keyVars, catalogVars, explorerVars, terminalVars, previewVars,
                 planVars, logVars, queueVars, panel>>
UseLogs ==
  /\ \/ panel = "logs" /\ ((\E n \in LogNodes, l \in Levels : Prints(n, l)) \/ ModelsTurn)
     \/ panel = "tools" /\ (ModelsTurn \/ WorkersTurn)
     \/ panel = "logs" /\ ClearLogs
     \/ panel \in {"logs", "tools"} /\ FlushLogs
  /\ UNCHANGED <<keyVars, catalogVars, explorerVars, terminalVars, previewVars,
                 planVars, graphVars, queueVars, panel>>
\* As many requests as MaxRequests, with a window that keeps up, one button and no
\* fault; and two requests of a kind, with two buttons or one and a fault.
ManyRequests ==
  /\ toStudio # <<>> => Shown
  /\ toStudio = <<>> => QueueNext /\ tally'.clicks <= 1 /\ tally'.faults = 0
ManyButtons ==
  /\ QueueNext
  /\ tally'.ids <= 2 /\ tally'.clicks + tally'.faults <= 2
  /\ \A i, j \in DOMAIN items' : items'[i].mode = items'[j].mode
UseQueue ==
  /\ \/ panel = "composer" /\ SubmitNext
     \/ panel = "queue" /\ ManyRequests
     \/ panel = "buttons" /\ ManyButtons
  /\ UNCHANGED <<keyVars, catalogVars, explorerVars, terminalVars, previewVars,
                 planVars, graphVars, logVars, panel>>

WorkbenchNext ==
  \/ UseKeys \/ UseModels \/ UseSidebar \/ UseViewer \/ UseDock
  \/ UsePlan \/ UseGraph \/ UseLogs \/ UseQueue

WorkbenchSpec == WorkbenchInit /\ [][WorkbenchNext]_workbenchVars

\* Each property is asked of the panel that is exercised: the others are as they
\* were at the start.

\* KeysSection.tsx:57-117, ModelsSection.tsx:163-198, PlanView.tsx:160-178,
\* RunsSidebar.tsx:24-28: a copy agrees with the file, with the runtime, with the
\* run under review and with the forge's queue once nothing is under way.
CopiesSettle ==
  /\ panel = "keys" => KeysSettle
  /\ panel = "models" => CatalogSettles
  /\ panel = "plan view" => PlanSettles
  /\ panel \in {"composer", "queue", "buttons"} => QueueSettles

\* ExplorerSidebar.tsx:33-73, FileViewer.tsx:137-175, PreviewPanel.tsx:18-45,
\* GraphCanvas.tsx:63-79: what a panel shows is of what is selected now, however
\* late the answers come and whatever it keeps from before.
NothingStaleIsShown ==
  /\ panel = "explorer" => TreeIsTheRuns
  /\ panel = "viewer" => ViewerIsTheFiles
  /\ panel = "dock" => FrameIsProbed
  /\ panel = "graph" => GraphIsTheRuns

\* ModelsSection.tsx:68-97, ExplorerSidebar.tsx:75-92, waitlist.go:542-577: no panel
\* waits for an answer that nobody will take, and no request for a place that
\* nobody will give it.
NothingIsStuck ==
  /\ panel = "models" => BusyHasAReason
  /\ panel = "explorer" => RefreshIsAlwaysDue
  /\ panel \in {"queue", "buttons"} => PlacesAreFilled

\* keys.ts:21-96, Composer.tsx:42-73: what the user gave is kept: the .env file is
\* what the edits made of it, and the composer forgets nothing that was not sent.
UsersWorkIsKept ==
  /\ panel = "keys" => FileIsTheEdits
  /\ panel = "composer" => NothingTypedIsLost

\* TerminalPanel.tsx:33-147, waitlist.go:542-577: what is shared is held by those it
\* was given to and no others: shells by their panel, places by the runs.
ResourcesAreOwned ==
  /\ panel = "dock" => ShellsAreOwned
  /\ panel \in {"queue", "buttons"} => PlacesRespected

\* keySections.ts:24-84, planModel.ts:79-125, toolActivity.ts:36-40,
\* LogPanel.tsx:48-49: a list that is worked out from others leaves nothing out,
\* shows nothing twice and keeps the order it promises.
ListsAreRight ==
  /\ panel = "keys" => EachKeyOnce
  /\ panel = "plan" => PlanIsInOrder
  /\ panel = "tools" => ToolsAreTheCalls
  /\ panel = "logs" => ExportIsTheScreen
=============================================================================
