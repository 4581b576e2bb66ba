----------------------------- MODULE ForgeClient ----------------------------
(***************************************************************************)
(* The socket to the telemetry server of Forge                             *)
(* (src/studio/electron/forge/client.ts).  One socket is current; its      *)
(* handlers do nothing once it is not.  When it closes, or cannot be made, *)
(* a timer opens the next one, later each time.  Rates and the messages    *)
(* shown to the user are left out.                                         *)
(***************************************************************************)
EXTENDS Naturals

CONSTANTS
    Targets,         \* addresses: a local host and a port
    FirstTarget,     \* 127.0.0.1:8080 in the code
    MaxAttempt       \* attempts after which the delay grows no more: 6 in the code
ASSUME ClientAssumption == FirstTarget \in Targets /\ MaxAttempt \in Nat \ {0}

VARIABLES
    socket,          \* the current socket: none, connecting, open or closing
    replaced,        \* a socket that was closing when the next one was opened
    retry,           \* the timer that opens the next socket is set
    closed,          \* the user has disconnected
    phase, attempt, target,
    disposed
clientVars == <<socket, replaced, retry, closed, phase, attempt, target, disposed>>

ClientInit ==
    /\ socket = "none" /\ replaced = FALSE
    /\ retry = FALSE /\ closed = FALSE
    /\ phase = "idle" /\ attempt = 0 /\ target = FirstTarget
    /\ disposed = FALSE

(* A failure is answered by the next attempt, after a delay.                *)
OnFailure ==
    /\ attempt' = IF attempt < MaxAttempt THEN attempt + 1 ELSE attempt
    /\ phase' = "reconnecting"
    /\ retry' = TRUE

(* A socket is made, or its constructor throws.                             *)
Open ==
    /\ socket' = "connecting"
    /\ UNCHANGED attempt

-----------------------------------------------------------------------------
(* Mutant: the timer of the last failure is left running.                   *)
ClientConnectBesideTimer(t) ==
    /\ closed' = FALSE
    /\ LET kept == IF t = target THEN socket ELSE "none"
       IN  /\ kept \notin {"open", "connecting"}
           /\ target' = t
           /\ replaced' = (replaced \/ kept = "closing")
           /\ Open /\ phase' = IF attempt > 0 THEN "reconnecting" ELSE "connecting"
    /\ UNCHANGED <<retry, disposed>>
(* Calls.  A socket to another address is torn down first, one that is open *)
(* or opening to this address is kept, and one that is closing is replaced. *)
ClientConnect(t) ==
    /\ closed' = FALSE
    /\ LET kept == IF t = target THEN socket ELSE "none"
       IN  IF kept \in {"open", "connecting"}
           THEN retry' = FALSE /\ UNCHANGED <<socket, replaced, phase, attempt, target>>
           ELSE /\ target' = t
                /\ replaced' = (replaced \/ kept = "closing")
                /\ \/ /\ Open
                      /\ phase' = IF attempt > 0 THEN "reconnecting" ELSE "connecting"
                      /\ retry' = FALSE
                   \/ OnFailure /\ socket' = kept
    /\ UNCHANGED disposed

(* Mutant: the state is reset, the timer and the flag are forgotten.        *)
ClientDisconnectForgetful ==
    /\ socket' = "none" /\ phase' = "idle" /\ attempt' = 0
    /\ UNCHANGED <<replaced, retry, closed, target, disposed>>
ClientDisconnect ==
    /\ closed' = TRUE /\ retry' = FALSE /\ socket' = "none"
    /\ phase' = "idle" /\ attempt' = 0
    /\ UNCHANGED <<replaced, target, disposed>>

ClientDispose ==
    /\ closed' = TRUE /\ retry' = FALSE /\ socket' = "none"
    /\ disposed' = TRUE
    /\ UNCHANGED <<replaced, phase, attempt, target>>

-----------------------------------------------------------------------------
(* Mutant: a socket that cannot be made is reported, no timer is set.       *)
RetryFiresOnce ==
    /\ retry /\ retry' = FALSE
    /\ \/ ~closed /\ Open /\ replaced' = (replaced \/ socket = "closing")
       \/ UNCHANGED <<socket, replaced, attempt>>
    /\ UNCHANGED <<closed, phase, target, disposed>>
(* Events.                                                                  *)
RetryFires ==
    /\ retry
    /\ \/ /\ closed /\ retry' = FALSE
          /\ UNCHANGED <<socket, replaced, attempt, phase>>
       \/ /\ ~closed /\ Open /\ retry' = FALSE
          /\ replaced' = (replaced \/ socket = "closing")
          /\ UNCHANGED phase
       \/ ~closed /\ OnFailure /\ UNCHANGED <<socket, replaced>>
    /\ UNCHANGED <<closed, target, disposed>>

SocketOpens ==
    /\ socket = "connecting"
    /\ socket' = "open" /\ phase' = "connected" /\ attempt' = 0
    /\ UNCHANGED <<replaced, retry, closed, target, disposed>>

(* The server goes away, or the handshake fails or takes too long.          *)
SocketFails ==
    /\ socket \in {"connecting", "open"}
    /\ socket' = "closing"
    /\ UNCHANGED <<replaced, retry, closed, phase, attempt, target, disposed>>

(* Mutant: a client that gives up after some attempts.                      *)
SocketClosesGivesUp ==
    /\ socket = "closing" /\ socket' = "none"
    /\ IF closed \/ attempt = MaxAttempt THEN UNCHANGED <<retry, phase, attempt>> ELSE OnFailure
    /\ UNCHANGED <<replaced, closed, target, disposed>>
SocketCloses ==
    /\ socket = "closing"
    /\ socket' = "none"
    /\ IF closed THEN UNCHANGED <<retry, phase, attempt>> ELSE OnFailure
    /\ UNCHANGED <<replaced, closed, target, disposed>>

(* The close of a socket that was replaced concerns nobody.                 *)
ReplacedCloses ==
    /\ replaced /\ replaced' = FALSE
    /\ UNCHANGED <<socket, retry, closed, phase, attempt, target, disposed>>

ClientEvent == RetryFires \/ SocketOpens \/ SocketFails \/ SocketCloses \/ ReplacedCloses
ClientNext ==
    \/ ~disposed /\ ((\E t \in Targets : ClientConnect(t)) \/ ClientDisconnect \/ ClientDispose)
    \/ ClientEvent
ClientSpec == ClientInit /\ [][ClientNext]_clientVars

-----------------------------------------------------------------------------
ClientFlagsOK ==
    /\ replaced \in BOOLEAN /\ retry \in BOOLEAN
    /\ closed \in BOOLEAN /\ disposed \in BOOLEAN
ClientTypeOK ==
    /\ ClientFlagsOK
    /\ socket \in {"none", "connecting", "open", "closing"}
    /\ phase \in {"idle", "connecting", "connected", "reconnecting"}
    /\ attempt \in 0..MaxAttempt
    /\ target \in Targets

(* The phase the user sees is that of the socket: an open socket is shown   *)
(* as connected, no timer runs beside a live socket, nothing goes on after  *)
(* disconnect().                                                            *)
PhaseIsTheSocket ==
    /\ socket = "open" => phase = "connected"
    /\ phase = "connected" => socket \in {"open", "closing"} \/ disposed
    /\ retry => socket \in {"none", "closing"} /\ phase = "reconnecting"
    /\ closed => socket = "none" /\ ~retry /\ (phase = "idle" \/ disposed)
    /\ disposed => closed

(* Unless the user has let go, there is always a socket or a timer: no      *)
(* order of failures, calls and late events of other sockets leaves the     *)
(* client waiting for nothing.                                              *)
NeverStranded == phase # "idle" /\ ~closed => socket # "none" \/ retry
=============================================================================
