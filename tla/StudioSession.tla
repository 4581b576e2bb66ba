--------------------------- MODULE StudioSession ----------------------------
(***************************************************************************)
(* A session of Studio: the main process (src/studio/electron/main.ts)     *)
(* holds the socket, the child process, the REST client and the saved      *)
(* address.  What the renderer asks for is an action of the user here; how *)
(* it reads the settings is in StudioPreferences.  Addresses differ in     *)
(* their port.                                                             *)
(***************************************************************************)
EXTENDS ForgeClient, ForgeProcess, Sequences

CONSTANTS
    MaxRuns,             \* times Studio is started
    MaxTimers            \* launches waiting to be connected to at once
ASSUME SessionAssumption == MaxRuns \in Nat /\ MaxTimers \in Nat

VARIABLES
    saved,               \* the connection section of the settings
    rest,                \* the address the REST client uses
    launches,            \* what is connected to 1.2 s after its launch, in order
    up,                  \* Studio runs
    runs,
    wanted               \* the user asked for a connection, or does not want one; or
                         \* a launch from before the user let go has connected: a history
addressVars == <<saved, rest>>
appVars == <<launches, up, runs>>
sessionVars == <<clientVars, processVars, addressVars, appVars, wanted>>

(* app.whenReady: a window, and the connection if the user wants it at      *)
(* launch.                                                                  *)
SessionInit ==
    /\ ClientInit /\ ProcessInit
    /\ saved = FirstTarget /\ rest = FirstTarget
    /\ launches = <<>> /\ up = FALSE /\ runs = 0
    /\ wanted = "no"

StudioStarts ==
    /\ ~up /\ runs < MaxRuns
    /\ up' = TRUE /\ runs' = runs + 1
    /\ \/ /\ socket' = "none" /\ phase' = "idle" /\ target' = FirstTarget
          /\ retry' = FALSE /\ attempt' = 0 /\ wanted' = "no"
       \/ /\ socket' = "connecting" /\ phase' = "connecting" /\ target' = saved
          /\ retry' = FALSE /\ attempt' = 0 /\ wanted' = "asked"
       \/ /\ socket' = "none" /\ phase' = "reconnecting" /\ target' = saved
          /\ retry' = TRUE /\ attempt' = 1 /\ wanted' = "asked"
    /\ rest' = target'
    /\ replaced' = FALSE /\ closed' = FALSE /\ disposed' = FALSE
    /\ child' = NoProcess /\ forgePhase' = "stopped" /\ kills' = {}
    /\ UNCHANGED <<life, asked, killed, saved, launches>>

(* before-quit.                                                             *)
StudioQuits ==
    /\ up /\ up' = FALSE
    /\ ProcessDispose /\ ClientDispose
    /\ launches' = <<>> /\ wanted' = "no"
    /\ UNCHANGED <<saved, rest, runs>>

-----------------------------------------------------------------------------
(* connection:connect, from the address form, the button or the palette.    *)
Connect(t) ==
    /\ up
    /\ saved' = t /\ rest' = t
    /\ ClientConnect(t) /\ wanted' = "asked"
    /\ UNCHANGED <<processVars, appVars>>

Disconnect ==
    /\ up /\ ClientDisconnect
    /\ rest' = target /\ wanted' = "no"
    /\ UNCHANGED <<processVars, saved, appVars>>

(* forge:start, from the launch dialog.  If a process runs now, the new one *)
(* or the one before it, its port is saved and connected to shortly.        *)
Launch(t) ==
    /\ up /\ Start
    /\ \/ /\ forgePhase' = "running" /\ Len(launches) < MaxTimers
          /\ saved' = t /\ rest' = t
          /\ launches' = Append(launches, t) /\ wanted' = "asked"
       \/ /\ forgePhase' # "running"
          /\ UNCHANGED <<saved, rest, launches, wanted>>
    /\ UNCHANGED <<clientVars, up, runs>>

(* The timer of the launch; nothing cancels it.  A call that keeps the      *)
(* socket says nothing, any other tells its state.                          *)
LaunchFires ==
    /\ up /\ launches # <<>> /\ launches' = Tail(launches)
    /\ LET t == Head(launches)
       IN  /\ ClientConnect(t)
           /\ rest' = IF t = target /\ socket \in {"open", "connecting"} THEN rest ELSE t
    /\ wanted' = IF wanted = "no" THEN "late" ELSE wanted
    /\ UNCHANGED <<processVars, saved, up, runs>>

StopForge ==
    /\ up /\ Stop
    /\ UNCHANGED <<clientVars, addressVars, appVars, wanted>>

(* A new address in the settings view changes no connection.                *)
ChangeAddress(t) ==
    /\ up /\ saved' = t
    /\ UNCHANGED <<clientVars, processVars, rest, appVars, wanted>>

-----------------------------------------------------------------------------
(* An event of the client; a change of its state sets the REST client.      *)
ClientEvents ==
    /\ ClientEvent
    /\ rest' = IF <<phase', attempt'>> = <<phase, attempt>> THEN rest ELSE target
    /\ UNCHANGED <<processVars, saved, appVars, wanted>>

(* The rate of events, or the reason of an error, is a change of state too. *)
StateTold ==
    /\ up /\ phase # "idle" /\ rest' = target
    /\ UNCHANGED <<clientVars, processVars, saved, appVars, wanted>>

ProcessEvents ==
    /\ ProcessEvent
    /\ UNCHANGED <<clientVars, addressVars, appVars, wanted>>

SessionNext ==
    \/ StudioStarts \/ StudioQuits
    \/ \E t \in Targets : Connect(t) \/ Launch(t) \/ ChangeAddress(t)
    \/ LaunchFires \/ Disconnect \/ StopForge
    \/ ClientEvents \/ StateTold \/ ProcessEvents

(* A closed socket is reported and the timers fire; a server that is asked  *)
(* again and again does not refuse for ever.                                *)
SessionSpec == SessionInit /\ [][SessionNext]_sessionVars
SessionFair ==
    /\ SessionSpec
    /\ WF_sessionVars(ClientEvents /\ SocketCloses)
    /\ SF_sessionVars(ClientEvents /\ RetryFires /\ socket' = "connecting")
    /\ SF_sessionVars(ClientEvents /\ SocketOpens)

-----------------------------------------------------------------------------
SessionTypeOK ==
    /\ ClientTypeOK /\ ProcessTypeOK
    /\ {saved, rest} \subseteq Targets
    /\ launches \in Seq(Targets) /\ Len(launches) <= MaxTimers
    /\ up \in BOOLEAN /\ runs \in 0..MaxRuns
    /\ wanted \in {"no", "asked", "late"}

(* The two ways to the server agree: unless a launch is about to connect,   *)
(* the REST client calls the address the socket is for, whatever was        *)
(* launched, connected and retried in between (main.ts, forge:start: "a     *)
(* restart, a reconnect and the REST calls all agree").                     *)
RestFollowsClient == up /\ launches = <<>> => rest = target

(* A connection the user asked for comes up, or the user lets it go: no     *)
(* failure, launch or reload in between makes the client give up.           *)
ConnectsInTheEnd == (phase # "idle" /\ up) ~> (socket = "open" \/ phase = "idle" \/ ~up)
(* The connection keeps the promise of Attachment: no timer, late event or  *)
(* restart connects a user who has let go, but the timer of a launch        *)
(* (client.ts, main.ts).                                                    *)
Promise == INSTANCE Attachment WITH
    want <- wanted, due <- Len(launches), up <- socket = "open"
AttachmentSpec == Promise!Spec

(* What the comment on intentionallyClosed (client.ts) says: a user who has *)
(* disconnected is not connected again by anything but a request.           *)
DisconnectHolds == socket = "open" => wanted = "asked"
=============================================================================
