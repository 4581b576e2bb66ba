-------------------------------- MODULE Dock --------------------------------
(***************************************************************************)
(* The dock's terminal and preview (features/terminal/TerminalPanel.tsx,   *)
(* features/preview/PreviewPanel.tsx) and the shells of the main process   *)
(* (electron/terminal/manager.ts).  Both panels stay mounted while the     *)
(* dock is shown.  The terminal starts a shell for the selected run and    *)
(* stops it when the run, the generation or the dock goes; a start that is *)
(* answered too late must be stopped by whoever gets the answer.  An       *)
(* address that a shell prints becomes the preview's.  Messages of the     *)
(* main process reach the window in order.                                 *)
(***************************************************************************)
EXTENDS Naturals, Sequences, FiniteSets

CONSTANTS
  Shells,       \* the identities of the shells
  Urls,         \* the local addresses
  NoOne,        \* no shell, no address, no probe
  MaxStarts,    \* effects of the terminal panel
  MaxReloads,   \* reloads of the window
  MaxPreviews   \* addresses opened, reloads, servers that come and go

ASSUME DockAssumption == NoOne \notin Shells /\ {MaxStarts, MaxReloads, MaxPreviews} \subseteq Nat

VARIABLES
  shells,    \* the live shells of the main process
  dying,     \* the shells killed whose exit is not reported yet
  asks,      \* the effects whose summary or start is under way
  stops,     \* the shells the window asked to stop
  pushes,    \* the messages on their way to the window
  effect,    \* the number of the panel's effect
  mounted,   \* the dock is shown
  session,   \* sessionRef
  orphans,   \* history: shells whose window was reloaded
  starts, reloads,    \* counters for the bounds
  url, reload,        \* the preview's address and its reload count
  fetching,  \* the probe under way: its key, or NoOne
  probe,     \* the last answer: its key and whether it is up, or NoOne
  serving,   \* the addresses something serves
  lastUp,    \* history: the key whose probe last answered up or timed out
  previews   \* counter for the bound

terminalVars ==
  <<shells, dying, asks, stops, pushes, effect, mounted, session, orphans, starts, reloads>>
previewVars == <<url, reload, fetching, probe, serving, lastUp, previews>>

Used == shells \cup dying \cup stops \cup orphans \cup {pushes[i].id : i \in DOMAIN pushes}
          \cup {session}

-----------------------------------------------------------------------------
DockInit ==
  /\ shells = {} /\ dying = {} /\ stops = {} /\ pushes = <<>>
  /\ effect = 1 /\ asks = {[effect |-> 1, stage |-> "summary"]}
  /\ mounted = TRUE /\ session = NoOne /\ orphans = {} /\ starts = 1 /\ reloads = 0
  /\ url \in Urls /\ reload = 0 /\ serving = {} /\ probe = NoOne
  /\ fetching = <<url, 0>> /\ lastUp = NoOne /\ previews = 0

\* The clean-up only forgets the session.
CleansUpQuietly == session' = NoOne /\ UNCHANGED stops

\* The clean-up of the effect stops the session and forgets it.
CleansUp ==
  /\ stops' = IF session = NoOne THEN stops ELSE stops \cup {session}
  /\ session' = NoOne

Cleanup == CleansUp

\* Another run is selected or the terminal restarted: the effect runs again.
RestartTerminal ==
  /\ mounted /\ starts < MaxStarts
  /\ Cleanup
  /\ effect' = effect + 1 /\ starts' = starts + 1
  /\ asks' = asks \cup {[effect |-> effect + 1, stage |-> "summary"]}
  /\ UNCHANGED <<shells, dying, pushes, mounted, orphans, reloads, previewVars>>

\* The dock is hidden, and shown again.
HideDock ==
  /\ mounted /\ mounted' = FALSE
  /\ Cleanup
  /\ fetching' = NoOne /\ probe' = NoOne
  /\ UNCHANGED <<shells, dying, asks, pushes, effect, orphans, starts, reloads,
                 url, reload, serving, lastUp, previews>>

\* The preview comes back at the stored address.
ShowDock ==
  /\ ~mounted /\ starts < MaxStarts
  /\ mounted' = TRUE
  /\ effect' = effect + 1 /\ starts' = starts + 1
  /\ asks' = asks \cup {[effect |-> effect + 1, stage |-> "summary"]}
  /\ reload' = 0 /\ fetching' = <<url, 0>>
  /\ UNCHANGED <<shells, dying, stops, pushes, session, orphans, reloads,
                 url, probe, serving, lastUp, previews>>

\* The effect an answer is for is still the panel's.
IsLive(e) == mounted /\ e = effect

\* workspace.summary answers: an effect that is disposed stops here, and so does
\* one without a workspace.
WorkspaceAnswers(a) ==
  /\ a.stage = "summary"
  /\ \/ asks' = asks \ {a}
     \/ IsLive(a.effect) /\ asks' = (asks \ {a}) \cup {[a EXCEPT !.stage = "start"]}
  /\ UNCHANGED <<shells, dying, stops, pushes, effect, mounted, session, orphans,
                 starts, reloads, previewVars>>

\* manager.start: a shell is spawned, or not; the answer is on its way.
SpawnShell(a) ==
  /\ a.stage = "start"
  /\ asks' = asks \ {a}
  /\ \/ UNCHANGED <<shells, pushes>>
     \/ \E id \in Shells \ Used :
          /\ shells' = shells \cup {id}
          /\ pushes' = Append(pushes, [type |-> "started", id |-> id, effect |-> a.effect])
  /\ UNCHANGED <<dying, stops, effect, mounted, session, orphans, starts, reloads, previewVars>>

\* The answer of a start: the session, if the effect is still there; otherwise
\* the shell is stopped.
StartedArrives(m) ==
  IF IsLive(m.effect) THEN session' = m.id /\ UNCHANGED stops
  ELSE stops' = stops \cup {m.id} /\ UNCHANGED session

ShellStarted ==
  /\ pushes # <<>> /\ Head(pushes).type = "started"
  /\ StartedArrives(Head(pushes))
  /\ pushes' = Tail(pushes)
  /\ UNCHANGED <<shells, dying, asks, effect, mounted, orphans, starts, reloads, previewVars>>

\* The exit of the session's shell ends the session.
ShellExited ==
  /\ pushes # <<>> /\ Head(pushes).type = "exit"
  /\ session' = IF session = Head(pushes).id THEN NoOne ELSE session
  /\ pushes' = Tail(pushes)
  /\ UNCHANGED <<shells, dying, asks, stops, effect, mounted, orphans, starts, reloads,
                 previewVars>>

\* A shell ends by itself, or one that was killed is gone.
ShellEnds(id) ==
  /\ id \in shells \cup dying
  /\ shells' = shells \ {id} /\ dying' = dying \ {id}
  /\ pushes' = Append(pushes, [type |-> "exit", id |-> id, effect |-> 0])
  /\ UNCHANGED <<asks, stops, effect, mounted, session, orphans, starts, reloads, previewVars>>

\* The stop button.
StopSession ==
  /\ mounted /\ session # NoOne
  /\ stops' = stops \cup {session}
  /\ UNCHANGED <<shells, dying, asks, pushes, effect, mounted, session, orphans, starts,
                 reloads, previewVars>>

\* manager.stop: a live shell is killed.
StopShell(id) ==
  /\ id \in stops /\ stops' = stops \ {id}
  /\ IF id \in shells THEN shells' = shells \ {id} /\ dying' = dying \cup {id}
                      ELSE UNCHANGED <<shells, dying>>
  /\ UNCHANGED <<asks, pushes, effect, mounted, session, orphans, starts, reloads, previewVars>>

\* The window is reloaded: no clean-up runs, and what it started is nobody's.
ReloadWindow ==
  /\ reloads < MaxReloads /\ reloads' = reloads + 1
  /\ starts < MaxStarts /\ starts' = starts + 1
  /\ orphans' = orphans \cup shells
  /\ pushes' = <<>> /\ session' = NoOne /\ mounted' = TRUE
  /\ \A a \in asks : a.stage = "summary"    \* bound: no start is under way
  /\ effect' = effect + 1 /\ asks' = {[effect |-> effect + 1, stage |-> "summary"]}
  /\ reload' = 0 /\ fetching' = <<url, 0>> /\ probe' = NoOne
  /\ UNCHANGED <<shells, dying, stops, url, serving, lastUp, previews>>

-----------------------------------------------------------------------------
Preview == previews < MaxPreviews /\ previews' = previews + 1

\* The address or the reload count changes: the probe under way is cancelled
\* and another begins.
Probes(u, n) ==
  /\ url' = u /\ reload' = n
  /\ fetching' = IF <<u, n>> = <<url, reload>> THEN fetching ELSE <<u, n>>

\* The user opens an address.
Navigate(u) ==
  /\ mounted /\ Preview /\ Probes(u, reload)
  /\ UNCHANGED <<terminalVars, probe, serving, lastUp>>

ReloadPreview ==
  /\ mounted /\ Preview /\ Probes(url, reload + 1)
  /\ UNCHANGED <<terminalVars, probe, serving, lastUp>>

\* The session's shell prints an address, and the preview goes there.
ShellPrints(u) ==
  /\ mounted /\ session \in shells /\ Preview /\ Probes(u, reload)
  /\ UNCHANGED <<terminalVars, probe, serving, lastUp>>

\* Something starts or stops serving an address.
ServerComesOrGoes(u) ==
  /\ Preview
  /\ serving' = IF u \in serving THEN serving \ {u} ELSE serving \cup {u}
  /\ UNCHANGED <<terminalVars, url, reload, fetching, probe, lastUp>>

\* The probe answers, is refused, or takes longer than four seconds, which
\* counts as up.
ProbeEnds ==
  /\ fetching # NoOne
  /\ \E up \in {fetching[1] \in serving, TRUE} :
       /\ probe' = [key |-> fetching, up |-> up]
       /\ lastUp' = IF up THEN fetching ELSE lastUp
  /\ fetching' = NoOne
  /\ UNCHANGED <<terminalVars, url, reload, serving, previews>>

\* Whatever the last probe found.
ReachableAny == IF probe = NoOne THEN "unknown" ELSE IF probe.up THEN "up" ELSE "down"

\* What the last probe found, if it was of what the panel is at.
Reachable ==
  IF probe = NoOne THEN "unknown"
  ELSE IF probe.key # <<url, reload>> THEN "unknown"
  ELSE IF probe.up THEN "up" ELSE "down"

DockNext ==
  \/ RestartTerminal
  \/ HideDock
  \/ ShowDock
  \/ \E a \in asks : WorkspaceAnswers(a)
  \/ \E a \in asks : SpawnShell(a)
  \/ ShellStarted
  \/ ShellExited
  \/ \E id \in Shells : ShellEnds(id)
  \/ StopSession
  \/ \E id \in Shells : StopShell(id)
  \/ ReloadWindow
  \/ \E u \in Urls : Navigate(u)
  \/ ReloadPreview
  \/ \E u \in Urls : ShellPrints(u)
  \/ \E u \in Urls : ServerComesOrGoes(u)
  \/ ProbeEnds

-----------------------------------------------------------------------------
(***************************************************************************)
(* Properties.                                                             *)
(***************************************************************************)
Told(type) == {pushes[i].id : i \in {j \in DOMAIN pushes : pushes[j].type = type}}

\* TerminalPanel.tsx:72-109, manager.ts:25-77: no shell is left running behind
\* the panel's back: a live shell is the panel's session, or its start is still
\* to be answered, or it is being stopped, unless its window was reloaded.  And
\* a session is a shell that lives or whose exit is on its way.
ShellsAreOwned ==
  /\ shells \subseteq {session} \cup Told("started") \cup stops \cup orphans
  /\ session # NoOne => session \in shells \cup dying \cup Told("exit")

\* PreviewPanel.tsx:18-45: what the preview shows is what a probe of its present
\* address found; an address nobody serves is framed only if its probe took too
\* long.
FrameIsProbed == (mounted /\ Reachable = "up") => lastUp = <<url, reload>>
=============================================================================
