------------------------- MODULE StudioSessionProofs ------------------------
(***************************************************************************)
(* What a session of Studio keeps for any set of addresses and any number  *)
(* of processes, launches and restarts: the client's state is that of its  *)
(* socket, the REST client calls the same server, every forge is owned,    *)
(* and the connection keeps the promise of module Attachment.              *)
(***************************************************************************)
EXTENDS StudioSession, SequenceTheorems, TLAPS

(* The values of the client that are not flags.                             *)
ClientValuesOK ==
    /\ socket \in {"none", "connecting", "open", "closing"}
    /\ phase \in {"idle", "connecting", "connected", "reconnecting"}
    /\ attempt \in 0..MaxAttempt
    /\ target \in Targets

(* A socket is held only for a user who wants it.                           *)
SocketIsWanted ==
    /\ socket # "none" => phase # "idle" /\ ~closed
    /\ retry => ~closed
ClientLogic == PhaseIsTheSocket /\ NeverStranded /\ SocketIsWanted
ClientInv == ClientFlagsOK /\ ClientValuesOK /\ ClientLogic

LEMMA ClientInitial == ClientInit => ClientInv
  <1> SUFFICES ASSUME ClientInit PROVE ClientInv
    OBVIOUS
  <1>1. ClientFlagsOK
    BY DEF ClientInit, ClientFlagsOK
  <1>2. ClientValuesOK
    BY ClientAssumption DEF ClientInit, ClientValuesOK, ClientAssumption
  <1>3. ClientLogic
    BY DEF ClientInit, ClientLogic, PhaseIsTheSocket, NeverStranded, SocketIsWanted
  <1> QED
    BY <1>1, <1>2, <1>3 DEF ClientInv

(***************************************************************************)
(* The calls and events of the client keep its invariant.                  *)
(***************************************************************************)
LEMMA FailureCounted ==
  ASSUME attempt \in 0..MaxAttempt, OnFailure
  PROVE  attempt' \in 0..MaxAttempt
  BY ClientAssumption DEF OnFailure, ClientAssumption

LEMMA ConnectKeeps ==
  ASSUME ClientInv, ~disposed, NEW t \in Targets, ClientConnect(t)
  PROVE  ClientInv'
  <1> DEFINE kept == IF t = target THEN socket ELSE "none"
  <1>0. ClientFlagsOK'
    BY DEF ClientInv, ClientFlagsOK, ClientConnect, Open, OnFailure
  <1>1. CASE kept \in {"open", "connecting"}
    <2>1. /\ UNCHANGED <<socket, phase, attempt, target, disposed>>
          /\ closed' = FALSE /\ retry' = FALSE /\ t = target
          /\ socket \in {"open", "connecting"}
      BY <1>1 DEF ClientConnect
    <2>2. ClientValuesOK'
      BY <2>1 DEF ClientInv, ClientValuesOK
    <2>3. ClientLogic'
      BY <2>1 DEF ClientInv, ClientLogic, PhaseIsTheSocket, NeverStranded, SocketIsWanted
    <2> QED
      BY <1>0, <2>2, <2>3 DEF ClientInv
  <1>2. CASE kept \notin {"open", "connecting"}
    <2>1. /\ closed' = FALSE /\ disposed' = disposed /\ target' = t
          /\ kept \in {"none", "closing"}
          /\ \/ /\ Open /\ retry' = FALSE
                /\ phase' = IF attempt > 0 THEN "reconnecting" ELSE "connecting"
             \/ OnFailure /\ socket' = kept
      BY <1>2 DEF ClientInv, ClientValuesOK, ClientConnect
    <2>2. ClientValuesOK'
      BY <2>1, FailureCounted DEF ClientInv, ClientValuesOK, Open, OnFailure
    <2>3. ClientLogic'
      BY <2>1 DEF ClientLogic, PhaseIsTheSocket, NeverStranded, SocketIsWanted,
                  Open, OnFailure
    <2> QED
      BY <1>0, <2>2, <2>3 DEF ClientInv
  <1> QED
    BY <1>1, <1>2

LEMMA DisconnectKeeps == ClientInv /\ ~disposed /\ ClientDisconnect => ClientInv'
  <1> SUFFICES ASSUME ClientInv, ~disposed, ClientDisconnect PROVE ClientInv'
    OBVIOUS
  <1>1. ClientFlagsOK'
    BY DEF ClientInv, ClientFlagsOK, ClientDisconnect
  <1>2. ClientValuesOK'
    BY ClientAssumption
       DEF ClientInv, ClientValuesOK, ClientDisconnect, ClientAssumption
  <1>3. ClientLogic'
    BY DEF ClientDisconnect, ClientLogic, PhaseIsTheSocket, NeverStranded, SocketIsWanted
  <1> QED
    BY <1>1, <1>2, <1>3 DEF ClientInv

LEMMA DisposeKeeps == ClientInv /\ ClientDispose => ClientInv'
  <1> SUFFICES ASSUME ClientInv, ClientDispose PROVE ClientInv'
    OBVIOUS
  <1>1. ClientFlagsOK'
    BY DEF ClientInv, ClientFlagsOK, ClientDispose
  <1>2. ClientValuesOK'
    BY DEF ClientInv, ClientValuesOK, ClientDispose
  <1>3. ClientLogic'
    BY DEF ClientDispose, ClientLogic, PhaseIsTheSocket, NeverStranded, SocketIsWanted
  <1> QED
    BY <1>1, <1>2, <1>3 DEF ClientInv

LEMMA EventKeeps == ClientInv /\ ClientEvent => ClientInv'
  <1> SUFFICES ASSUME ClientInv, ClientEvent PROVE ClientInv'
    OBVIOUS
  <1>1. ClientFlagsOK'
    BY DEF ClientInv, ClientFlagsOK, ClientEvent, RetryFires, SocketOpens, SocketFails,
           SocketCloses, ReplacedCloses, Open, OnFailure
  <1>2. ClientValuesOK'
    <2>1. attempt' \in 0..MaxAttempt
      BY FailureCounted, ClientAssumption
         DEF ClientInv, ClientValuesOK, ClientEvent, RetryFires, SocketOpens, SocketFails,
             SocketCloses, ReplacedCloses, Open, ClientAssumption
    <2> QED
      BY <2>1 DEF ClientInv, ClientValuesOK, ClientEvent, RetryFires, SocketOpens,
                  SocketFails, SocketCloses, ReplacedCloses, Open, OnFailure
  <1>3. ClientLogic'
    <2> USE DEF ClientInv, ClientLogic, PhaseIsTheSocket, NeverStranded, SocketIsWanted
    <2>1. CASE RetryFires
      BY <2>1 DEF RetryFires, Open, OnFailure
    <2>2. CASE SocketOpens
      BY <2>2 DEF SocketOpens
    <2>3. CASE SocketFails
      BY <2>3 DEF SocketFails
    <2>4. CASE SocketCloses
      BY <2>4 DEF SocketCloses, OnFailure
    <2>5. CASE ReplacedCloses
      BY <2>5 DEF ReplacedCloses
    <2> QED
      BY <2>1, <2>2, <2>3, <2>4, <2>5 DEF ClientEvent
  <1> QED
    BY <1>1, <1>2, <1>3 DEF ClientInv

LEMMA StartKeeps == StudioStarts /\ saved \in Targets => ClientInv'
  <1> SUFFICES ASSUME StudioStarts, saved \in Targets PROVE ClientInv'
    OBVIOUS
  <1>1. ClientFlagsOK'
    BY DEF StudioStarts, ClientFlagsOK
  <1>2. ClientValuesOK'
    BY ClientAssumption DEF StudioStarts, ClientValuesOK, ClientAssumption
  <1>3. ClientLogic'
    BY DEF StudioStarts, ClientLogic, PhaseIsTheSocket, NeverStranded, SocketIsWanted
  <1> QED
    BY <1>1, <1>2, <1>3 DEF ClientInv

LEMMA ClientStutters == ClientInv /\ UNCHANGED clientVars => ClientInv'
  BY DEF ClientInv, ClientFlagsOK, ClientValuesOK, ClientLogic, PhaseIsTheSocket,
         NeverStranded, SocketIsWanted, clientVars

(***************************************************************************)
(* The child process.                                                      *)
(***************************************************************************)
ProcessInv ==
    /\ ProcessTypeOK
    /\ EveryForgeIsOwned
    /\ KillsOnlyTheStopped
    /\ kills \subseteq asked

LEMMA ProcessInitial == ProcessInit => ProcessInv
  BY ProcessAssumption
     DEF ProcessInit, ProcessInv, ProcessTypeOK, EveryForgeIsOwned, KillsOnlyTheStopped,
         Pids, NoProcess, ProcessAssumption

LEMMA ProcessStutters == ProcessInv /\ UNCHANGED processVars => ProcessInv'
  BY DEF ProcessInv, ProcessTypeOK, EveryForgeIsOwned, KillsOnlyTheStopped, processVars

LEMMA DiesRestricts ==
  ASSUME ProcessTypeOK, NEW p \in Pids
  PROVE  /\ Dies(p) \in [Pids -> {"unused", "running", "unborn", "dead", "gone"}]
         /\ \A q \in Pids : Dies(p)[q] = "running" => life[q] = "running"
  BY DEF ProcessTypeOK, Dies

LEMMA SpawnKeeps == ProcessInv /\ Start => ProcessInv'
  <1> SUFFICES ASSUME ProcessInv, Start PROVE ProcessInv'
    OBVIOUS
  <1>1. CASE UNCHANGED <<child, life, kills, asked, killed>> /\ forgePhase' = "error"
    BY <1>1 DEF ProcessInv, ProcessTypeOK, EveryForgeIsOwned, KillsOnlyTheStopped
  <1>2. CASE UNCHANGED processVars
    BY <1>2, ProcessStutters
  <1>3. CASE child = NoProcess /\ forgePhase' = "running"
    <2>1. PICK p \in Pids :
            /\ child' = p
            /\ \E l \in {"running", "unborn"} : life' = [life EXCEPT ![p] = l]
            /\ UNCHANGED <<kills, asked, killed>>
      BY <1>3 DEF Start, processVars, ProcessInv, ProcessTypeOK, NoProcess, Pids
    <2>2. PICK l \in {"running", "unborn"} : life' = [life EXCEPT ![p] = l]
      BY <2>1
    <2>3. ProcessTypeOK'
      BY <1>3, <2>1, <2>2 DEF ProcessInv, ProcessTypeOK
    <2>4. EveryForgeIsOwned'
      <3> SUFFICES ASSUME NEW q \in Pids, life'[q] = "running", q # p PROVE q \in asked
        BY <2>1 DEF EveryForgeIsOwned
      <3>1. life[q] = "running"
        BY <2>2 DEF ProcessInv, ProcessTypeOK
      <3>2. q # NoProcess
        BY ProcessAssumption DEF Pids, NoProcess, ProcessAssumption
      <3> QED
        BY <1>3, <3>1, <3>2 DEF ProcessInv, EveryForgeIsOwned
    <2> QED
      BY <2>1, <2>3, <2>4 DEF ProcessInv, KillsOnlyTheStopped
  <1> QED
    BY <1>1, <1>2, <1>3 DEF Start

LEMMA StopKeeps == ProcessInv /\ Stop => ProcessInv'
  BY DEF Stop, ProcessInv, ProcessTypeOK, EveryForgeIsOwned, KillsOnlyTheStopped

LEMMA ProcessDisposeKeeps == ProcessInv /\ ProcessDispose => ProcessInv'
  BY DEF ProcessDispose, ProcessInv, ProcessTypeOK, EveryForgeIsOwned, KillsOnlyTheStopped

(* A new Studio knows no process; one that is left was told to end.         *)
LEMMA RestartKeeps ==
  ASSUME ProcessInv, child = NoProcess, child' = NoProcess, forgePhase' = "stopped",
         kills' = {}, UNCHANGED <<life, asked, killed>>
  PROVE  ProcessInv'
  BY DEF ProcessInv, ProcessTypeOK, EveryForgeIsOwned, KillsOnlyTheStopped

LEMMA ProcessEventKeeps == ProcessInv /\ ProcessEvent => ProcessInv'
  <1> SUFFICES ASSUME ProcessInv, NEW p \in Pids,
                      KillTimer(p) \/ Exits(p) \/ SpawnError(p) \/ Closed(p)
               PROVE  ProcessInv'
    BY DEF ProcessEvent
  <1> USE DEF ProcessInv, ProcessTypeOK, EveryForgeIsOwned, KillsOnlyTheStopped
  <1>1. CASE KillTimer(p)
    BY <1>1, DiesRestricts DEF KillTimer
  <1>2. CASE Exits(p)
    BY <1>2, DiesRestricts DEF Exits
  <1>3. CASE SpawnError(p)
    BY <1>3 DEF SpawnError
  <1>4. CASE Closed(p)
    BY <1>4 DEF Closed
  <1> QED
    BY <1>1, <1>2, <1>3, <1>4

(***************************************************************************)
(* The session.                                                            *)
(***************************************************************************)
AddressOK ==
    /\ saved \in Targets /\ rest \in Targets
    /\ launches \in Seq(Targets) /\ Len(launches) <= MaxTimers
    /\ runs \in 0..MaxRuns

(* The REST client calls the address of the socket, or of the launch that   *)
(* will be connected to last.                                               *)
RestInv ==
    up => rest = target \/ (launches # <<>> /\ rest = launches[Len(launches)])

LifeInv ==
    /\ up \in BOOLEAN
    /\ up => ~disposed
    /\ ~up => child = NoProcess

SessionInv == ClientInv /\ ProcessInv /\ AddressOK /\ RestInv /\ LifeInv

LEMMA SessionInitial == SessionInit => SessionInv
  <1> SUFFICES ASSUME SessionInit PROVE SessionInv
    OBVIOUS
  <1>1. ClientInv /\ ProcessInv
    BY ClientInitial, ProcessInitial DEF SessionInit
  <1>2. AddressOK /\ RestInv
    BY ClientAssumption, SessionAssumption
       DEF SessionInit, ClientInit, AddressOK, RestInv, ClientAssumption, SessionAssumption
  <1>3. LifeInv
    BY DEF SessionInit, ClientInit, ProcessInit, LifeInv
  <1> QED
    BY <1>1, <1>2, <1>3 DEF SessionInv

(* What is left when the first timer has fired.                             *)
LEMMA TailFacts ==
  ASSUME NEW s \in Seq(Targets), s # <<>>
  PROVE  /\ Head(s) \in Targets /\ Head(s) = s[1]
         /\ Tail(s) \in Seq(Targets) /\ Len(Tail(s)) = Len(s) - 1
         /\ Tail(s) # <<>> => Tail(s)[Len(Tail(s))] = s[Len(s)]
         /\ Tail(s) = <<>> => Len(s) = 1
  <1>1. /\ Head(s) \in Targets /\ Tail(s) \in Seq(Targets)
        /\ Len(Tail(s)) = Len(s) - 1
        /\ \A i \in 1..Len(Tail(s)) : Tail(s)[i] = s[i + 1]
    BY HeadTailProperties
  <1>2. Head(s) = s[1] /\ Len(s) \in Nat \ {0}
    OBVIOUS
  <1>3. Tail(s) # <<>> => Tail(s)[Len(Tail(s))] = s[Len(s)]
    <2> SUFFICES ASSUME Tail(s) # <<>> PROVE Tail(s)[Len(Tail(s))] = s[Len(s)]
      OBVIOUS
    <2>1. Len(Tail(s)) \in Nat \ {0}
      BY <1>1
    <2> QED
      BY <1>1, <1>2, <2>1
  <1>4. Tail(s) = <<>> => Len(s) = 1
    BY <1>1, <1>2
  <1> QED
    BY <1>1, <1>2, <1>3, <1>4

(* What a call of connect() leaves: the target is the address asked for.    *)
LEMMA ConnectTargets ==
  ASSUME NEW t \in Targets, ClientConnect(t)
  PROVE  target' = t /\ disposed' = disposed
  BY DEF ClientConnect

LEMMA SessionStep == SessionInv /\ [SessionNext]_sessionVars => SessionInv'
  <1> SUFFICES ASSUME SessionInv, [SessionNext]_sessionVars PROVE SessionInv'
    OBVIOUS
  <1>0. /\ ClientInv /\ ProcessInv /\ AddressOK /\ RestInv /\ LifeInv
        /\ target \in Targets
    BY DEF SessionInv, ClientInv, ClientValuesOK
  <1>1. CASE StudioStarts
    <2>1. ClientInv'
      BY <1>0, <1>1, StartKeeps DEF AddressOK
    <2>2. ProcessInv'
      BY <1>0, <1>1, RestartKeeps DEF StudioStarts, LifeInv
    <2>3. rest' = target' /\ target' \in Targets
      BY <2>1, <1>1 DEF StudioStarts, ClientInv, ClientValuesOK
    <2>4. AddressOK' /\ RestInv'
      BY <1>0, <1>1, <2>3, SessionAssumption
         DEF StudioStarts, AddressOK, RestInv, SessionAssumption
    <2>5. LifeInv'
      BY <1>1 DEF StudioStarts, LifeInv
    <2> QED
      BY <2>1, <2>2, <2>4, <2>5 DEF SessionInv
  <1>2. CASE StudioQuits
    <2>1. ClientInv' /\ ProcessInv'
      BY <1>0, <1>2, DisposeKeeps, ProcessDisposeKeeps DEF StudioQuits
    <2>2. AddressOK'
      BY <1>0, <1>2, SessionAssumption DEF StudioQuits, AddressOK, SessionAssumption
    <2>3. LifeInv'
      BY <1>2 DEF StudioQuits, LifeInv, ProcessDispose
    <2>4. RestInv'
      BY <1>2 DEF StudioQuits, RestInv
    <2> QED
      BY <2>1, <2>2, <2>3, <2>4 DEF SessionInv
  <1>3. CASE \E t \in Targets : Connect(t)
    <2>1. PICK t \in Targets : Connect(t)
      BY <1>3
    <2>2. ClientInv'
      BY <1>0, <2>1, ConnectKeeps DEF Connect, LifeInv
    <2>3. ProcessInv'
      BY <1>0, <2>1, ProcessStutters DEF Connect
    <2>4. rest' = t /\ target' = t /\ saved' = t /\ UNCHANGED appVars
      BY <2>1, ConnectTargets DEF Connect
    <2>5. AddressOK' /\ RestInv'
      BY <1>0, <2>4 DEF AddressOK, RestInv, appVars
    <2>6. LifeInv'
      BY <1>0, <2>1, ConnectTargets DEF Connect, LifeInv, appVars, processVars
    <2> QED
      BY <2>2, <2>3, <2>5, <2>6 DEF SessionInv
  <1>4. CASE Disconnect
    <2>1. ClientInv'
      BY <1>0, <1>4, DisconnectKeeps DEF Disconnect, LifeInv
    <2>2. ProcessInv'
      BY <1>0, <1>4, ProcessStutters DEF Disconnect
    <2>3. AddressOK' /\ RestInv'
      BY <1>0, <1>4 DEF Disconnect, ClientDisconnect, AddressOK, RestInv, appVars
    <2>4. LifeInv'
      BY <1>0, <1>4 DEF Disconnect, ClientDisconnect, LifeInv, appVars, processVars
    <2> QED
      BY <2>1, <2>2, <2>3, <2>4 DEF SessionInv
  <1>5. CASE \E t \in Targets : Launch(t)
    <2>1. PICK t \in Targets : Launch(t)
      BY <1>5
    <2>2. ClientInv' /\ ProcessInv'
      BY <1>0, <2>1, ClientStutters, SpawnKeeps DEF Launch
    <2>3. target' = target /\ UNCHANGED <<up, runs>>
      BY <2>1 DEF Launch, clientVars
    <2>4. AddressOK' /\ RestInv'
      <3>1. CASE UNCHANGED <<saved, rest, launches>>
        BY <1>0, <2>3, <3>1 DEF AddressOK, RestInv
      <3>2. CASE /\ Len(launches) < MaxTimers
                 /\ saved' = t /\ rest' = t /\ launches' = Append(launches, t)
        <4>1. /\ launches' \in Seq(Targets) /\ launches' # <<>>
              /\ Len(launches') = Len(launches) + 1
              /\ launches'[Len(launches')] = t
          BY <1>0, <3>2 DEF AddressOK
        <4>2. Len(launches') <= MaxTimers
          BY <1>0, <3>2, <4>1, SessionAssumption DEF AddressOK, SessionAssumption
        <4> QED
          BY <1>0, <2>3, <3>2, <4>1, <4>2 DEF AddressOK, RestInv
      <3> QED
        BY <2>1, <3>1, <3>2 DEF Launch
    <2>5. LifeInv'
      BY <1>0, <2>1 DEF Launch, LifeInv, clientVars
    <2> QED
      BY <2>2, <2>4, <2>5 DEF SessionInv
  <1>6. CASE LaunchFires
    <2> DEFINE t == Head(launches)
    <2>1. /\ t \in Targets /\ t = launches[1]
          /\ Tail(launches) \in Seq(Targets) /\ Len(Tail(launches)) = Len(launches) - 1
          /\ Tail(launches) # <<>>
               => Tail(launches)[Len(Tail(launches))] = launches[Len(launches)]
          /\ Tail(launches) = <<>> => Len(launches) = 1
      BY <1>0, <1>6, TailFacts DEF LaunchFires, AddressOK
    <2>2. /\ ClientConnect(t) /\ launches' = Tail(launches) /\ up
          /\ rest' = IF t = target /\ socket \in {"open", "connecting"} THEN rest ELSE t
          /\ UNCHANGED <<processVars, saved, up, runs>>
      BY <1>6 DEF LaunchFires
    <2>3. ClientInv'
      BY <1>0, <2>1, <2>2, ConnectKeeps DEF LifeInv
    <2>4. ProcessInv'
      BY <1>0, <2>2, ProcessStutters
    <2>5. target' = t /\ disposed' = disposed
      BY <2>1, <2>2, ConnectTargets
    <2>6. rest' = rest \/ rest' = t
      BY <2>2
    <2>7. AddressOK'
      <3>1. Len(launches) \in Nat /\ Len(launches) <= MaxTimers /\ MaxTimers \in Nat
        BY <1>0, SessionAssumption DEF AddressOK, SessionAssumption
      <3>2. Len(launches') <= MaxTimers
        BY <2>1, <2>2, <3>1
      <3> QED
        BY <1>0, <2>1, <2>2, <2>6, <3>2 DEF AddressOK
    <2>8. RestInv'
      <3>1. CASE rest' = t
        BY <2>5, <3>1 DEF RestInv
      <3>2. CASE rest' = rest /\ t = target
        <4>1. rest = target \/ rest = launches[Len(launches)]
          BY <1>0, <2>2 DEF RestInv
        <4>2. CASE rest = target
          BY <2>5, <3>2, <4>2 DEF RestInv
        <4>3. CASE rest = launches[Len(launches)]
          BY <2>1, <2>2, <2>5, <3>2, <4>3 DEF RestInv
        <4> QED
          BY <4>1, <4>2, <4>3
      <3> QED
        BY <2>2, <3>1, <3>2
    <2>9. LifeInv'
      BY <1>0, <2>2, <2>5 DEF LifeInv, processVars
    <2> QED
      BY <2>3, <2>4, <2>7, <2>8, <2>9 DEF SessionInv
  <1>7. CASE StopForge
    <2>1. ClientInv' /\ ProcessInv'
      BY <1>0, <1>7, ClientStutters, StopKeeps DEF StopForge
    <2>2. AddressOK' /\ RestInv'
      BY <1>0, <1>7 DEF StopForge, AddressOK, RestInv, addressVars, appVars, clientVars
    <2>3. LifeInv'
      BY <1>0, <1>7 DEF StopForge, Stop, LifeInv, appVars, clientVars
    <2> QED
      BY <2>1, <2>2, <2>3 DEF SessionInv
  <1>8. CASE \E t \in Targets : ChangeAddress(t)
    <2>1. ClientInv' /\ ProcessInv'
      BY <1>0, <1>8, ClientStutters, ProcessStutters DEF ChangeAddress
    <2>2. AddressOK' /\ RestInv'
      BY <1>0, <1>8 DEF ChangeAddress, AddressOK, RestInv, appVars, clientVars
    <2>3. LifeInv'
      BY <1>0, <1>8 DEF ChangeAddress, LifeInv, appVars, clientVars, processVars
    <2> QED
      BY <2>1, <2>2, <2>3 DEF SessionInv
  <1>9. CASE ClientEvents
    <2>1. ClientInv' /\ ProcessInv'
      BY <1>0, <1>9, EventKeeps, ProcessStutters DEF ClientEvents
    <2>2. target' = target /\ disposed' = disposed
      BY <1>9 DEF ClientEvents, ClientEvent, RetryFires, SocketOpens, SocketFails,
                  SocketCloses, ReplacedCloses
    <2>3. (rest' = rest \/ rest' = target) /\ UNCHANGED <<saved, launches, up, runs, child>>
      BY <1>9 DEF ClientEvents, appVars, processVars
    <2>4. AddressOK' /\ RestInv'
      BY <1>0, <2>2, <2>3 DEF AddressOK, RestInv
    <2>5. LifeInv'
      BY <1>0, <2>2, <2>3 DEF LifeInv
    <2> QED
      BY <2>1, <2>4, <2>5 DEF SessionInv
  <1>10. CASE StateTold
    <2>1. ClientInv' /\ ProcessInv'
      BY <1>0, <1>10, ClientStutters, ProcessStutters DEF StateTold
    <2>2. AddressOK' /\ RestInv'
      BY <1>0, <1>10 DEF StateTold, AddressOK, RestInv, appVars, clientVars
    <2>3. LifeInv'
      BY <1>0, <1>10 DEF StateTold, LifeInv, appVars, clientVars, processVars
    <2> QED
      BY <2>1, <2>2, <2>3 DEF SessionInv
  <1>11. CASE ProcessEvents
    <2>1. ClientInv' /\ ProcessInv'
      BY <1>0, <1>11, ClientStutters, ProcessEventKeeps DEF ProcessEvents
    <2>2. AddressOK' /\ RestInv'
      BY <1>0, <1>11 DEF ProcessEvents, AddressOK, RestInv, addressVars, appVars, clientVars
    <2>3. child = NoProcess => child' = NoProcess
      BY <1>11 DEF ProcessEvents, ProcessEvent, KillTimer, Exits, SpawnError, Closed
    <2>4. LifeInv'
      BY <1>0, <1>11, <2>3 DEF ProcessEvents, LifeInv, appVars, clientVars
    <2> QED
      BY <2>1, <2>2, <2>4 DEF SessionInv
  <1>12. CASE UNCHANGED sessionVars
    <2>1. ClientInv' /\ ProcessInv'
      BY <1>0, <1>12, ClientStutters, ProcessStutters DEF sessionVars
    <2>2. AddressOK' /\ RestInv' /\ LifeInv'
      BY <1>0, <1>12
         DEF sessionVars, addressVars, appVars, clientVars, processVars, AddressOK, RestInv, LifeInv
    <2> QED
      BY <2>1, <2>2 DEF SessionInv
  <1> QED
    BY <1>1, <1>2, <1>3, <1>4, <1>5, <1>6, <1>7, <1>8, <1>9, <1>10, <1>11, <1>12
       DEF SessionNext

(***************************************************************************)
(* A user who does not want a connection has no socket, and no timer that  *)
(* makes one.                                                              *)
(***************************************************************************)
WantedInv ==
    /\ wanted \in {"no", "asked", "late"}
    /\ wanted = "no" => socket = "none" /\ ~retry

LEMMA WantedStep == SessionInv /\ WantedInv /\ [SessionNext]_sessionVars => WantedInv'
  <1> SUFFICES ASSUME WantedInv, [SessionNext]_sessionVars PROVE WantedInv'
    OBVIOUS
  <1> USE DEF WantedInv
  <1>1. CASE StudioStarts
    BY <1>1 DEF StudioStarts
  <1>2. CASE StudioQuits
    BY <1>2 DEF StudioQuits, ClientDispose
  <1>3. CASE \E t \in Targets : Connect(t)
    BY <1>3 DEF Connect
  <1>4. CASE Disconnect
    BY <1>4 DEF Disconnect, ClientDisconnect
  <1>5. CASE \E t \in Targets : Launch(t)
    BY <1>5 DEF Launch, clientVars
  <1>6. CASE LaunchFires
    BY <1>6 DEF LaunchFires
  <1>7. CASE ClientEvents
    <2>1. wanted' = wanted
      BY <1>7 DEF ClientEvents
    <2>2. socket = "none" /\ ~retry => socket' = "none" /\ ~retry'
      BY <1>7 DEF ClientEvents, ClientEvent, RetryFires, SocketOpens, SocketFails,
                  SocketCloses, ReplacedCloses
    <2> QED
      BY <2>1, <2>2
  <1>8. CASE UNCHANGED <<clientVars, wanted>>
    BY <1>8 DEF clientVars
  <1> QED
    BY <1>1, <1>2, <1>3, <1>4, <1>5, <1>6, <1>7, <1>8
       DEF SessionNext, StopForge, ChangeAddress, StateTold, ProcessEvents, sessionVars

-----------------------------------------------------------------------------
THEOREM SessionInvariant == SessionSpec => [](SessionInv /\ WantedInv)
  <1>1. SessionInit => SessionInv /\ WantedInv
    BY SessionInitial DEF SessionInit, ClientInit, WantedInv
  <1>2. SessionInv /\ WantedInv /\ [SessionNext]_sessionVars => (SessionInv /\ WantedInv)'
    BY SessionStep, WantedStep
  <1> QED
    BY <1>1, <1>2, PTL DEF SessionSpec

(***************************************************************************)
(* Every variable keeps its type.                                          *)
(***************************************************************************)
THEOREM SessionTypeCorrect == SessionSpec => []SessionTypeOK
  <1>1. SessionInv /\ WantedInv => SessionTypeOK
    BY DEF SessionInv, ClientInv, ProcessInv, AddressOK, LifeInv, SessionTypeOK,
           ClientTypeOK, ClientValuesOK, WantedInv
  <1> QED
    BY <1>1, SessionInvariant, PTL

(***************************************************************************)
(* The phase that is shown is that of the current socket, and nothing goes *)
(* on once the user has disconnected (client.ts).                          *)
(***************************************************************************)
THEOREM PhaseAgrees == SessionSpec => []PhaseIsTheSocket
  <1>1. SessionInv => PhaseIsTheSocket
    BY DEF SessionInv, ClientInv, ClientLogic
  <1> QED
    BY <1>1, SessionInvariant, PTL

(***************************************************************************)
(* A client the user has not let go of has a socket or a timer.            *)
(***************************************************************************)
THEOREM AlwaysTrying == SessionSpec => []NeverStranded
  <1>1. SessionInv => NeverStranded
    BY DEF SessionInv, ClientInv, ClientLogic
  <1> QED
    BY <1>1, SessionInvariant, PTL

(***************************************************************************)
(* No launch pending, the REST client calls the server of the socket.      *)
(***************************************************************************)
THEOREM RestAgrees == SessionSpec => []RestFollowsClient
  <1>1. SessionInv => RestFollowsClient
    BY DEF SessionInv, RestInv, RestFollowsClient
  <1> QED
    BY <1>1, SessionInvariant, PTL

(***************************************************************************)
(* However many processes come and go, a live one is the child or was told *)
(* to end, and the kill timer hits no other (process.ts).                  *)
(***************************************************************************)
THEOREM ForgeIsOwned == SessionSpec => []ForgesAreOwned
  <1>1. SessionInv => ForgesAreOwned
    BY DEF SessionInv, ProcessInv, ForgesAreOwned
  <1> QED
    BY <1>1, SessionInvariant, PTL

(***************************************************************************)
(* The connection keeps the promise of module Attachment: it is up only    *)
(* after the user asked for it and, once let go, stays down until it is    *)
(* asked for again or a launch made before fires, whatever timers, late    *)
(* events and restarts do (client.ts, main.ts).                            *)
(***************************************************************************)
attached == socket = "open"
pending == Len(launches)

LEMMA ConnectDetaches ==
  ASSUME NEW t \in Targets, ClientConnect(t)
  PROVE  attached' \in {attached, FALSE}
  BY DEF ClientConnect, Open, OnFailure, attached

LEMMA EventAttaches ==
  ASSUME WantedInv, ClientEvents
  PROVE  Promise!Attach \/ Promise!Lose \/ UNCHANGED <<wanted, pending, attached>>
  <1>0. UNCHANGED <<wanted, pending>>
    BY DEF ClientEvents, appVars, pending
  <1> USE <1>0 DEF attached, pending
  <1>1. CASE RetryFires
    BY <1>1 DEF RetryFires, Open, OnFailure, Promise!Lose
  <1>2. CASE SocketOpens
    BY <1>2 DEF SocketOpens, WantedInv, Promise!Attach
  <1>3. CASE SocketFails
    BY <1>3 DEF SocketFails, Promise!Lose
  <1>4. CASE SocketCloses
    BY <1>4 DEF SocketCloses
  <1>5. CASE ReplacedCloses
    BY <1>5 DEF ReplacedCloses
  <1> QED
    BY <1>1, <1>2, <1>3, <1>4, <1>5 DEF ClientEvents, ClientEvent

LEMMA StepKeepsPromise ==
  SessionInv /\ WantedInv /\ [SessionNext]_sessionVars => [Promise!Next]_(Promise!vars)
  <1> SUFFICES ASSUME SessionInv, WantedInv, [SessionNext]_sessionVars
               PROVE  Promise!Next \/ UNCHANGED <<wanted, pending, attached>>
    BY DEF Promise!vars, pending, attached
  <1>0. AddressOK
    BY DEF SessionInv
  <1> USE DEF Promise!Next
  <1>1. CASE StudioStarts
    <2>1. socket' # "open" /\ UNCHANGED launches /\ wanted' \in {"no", "asked"}
      BY <1>1 DEF StudioStarts
    <2> QED
      BY <2>1 DEF Promise!LetGo, Promise!Ask
  <1>2. CASE StudioQuits
    <2>1. socket' # "open" /\ Len(launches') = 0 /\ wanted' = "no"
      BY <1>2 DEF StudioQuits, ClientDispose
    <2> QED
      BY <2>1 DEF Promise!LetGo
  <1>3. CASE \E t \in Targets : Connect(t)
    <2>1. attached' \in {attached, FALSE} /\ UNCHANGED launches /\ wanted' = "asked"
      BY <1>3, ConnectDetaches DEF Connect, appVars
    <2> QED
      BY <2>1 DEF Promise!Ask, attached
  <1>4. CASE Disconnect
    <2>1. socket' # "open" /\ UNCHANGED launches /\ wanted' = "no"
      BY <1>4 DEF Disconnect, ClientDisconnect, appVars
    <2> QED
      BY <2>1 DEF Promise!LetGo
  <1>5. CASE UNCHANGED <<clientVars, launches, wanted>>
    BY <1>5 DEF clientVars, pending, attached
  <1>6. CASE LaunchFires
    <2>1. Head(launches) \in Targets /\ Len(launches) \in Nat \ {0}
          /\ Len(launches') = Len(launches) - 1
      BY <1>0, <1>6, TailFacts DEF LaunchFires, AddressOK
    <2>2. attached' \in {attached, FALSE}
      BY <1>6, <2>1, ConnectDetaches DEF LaunchFires
    <2>3. wanted' = IF wanted = "no" THEN "late" ELSE wanted
      BY <1>6 DEF LaunchFires
    <2>4. pending > 0 /\ pending' = pending - 1
      BY <2>1 DEF pending
    <2>5. Promise!Fire
      BY <2>2, <2>3, <2>4, Zenon DEF Promise!Fire, attached, pending
    <2> QED
      BY <2>5
  <1>7. CASE ClientEvents
    BY <1>7, EventAttaches
  <1>8. CASE \E t \in Targets : Launch(t)
    <2>1. PICK t \in Targets : Launch(t)
      BY <1>8
    <2>2. CASE UNCHANGED <<launches, wanted>>
      BY <1>5, <2>1, <2>2 DEF Launch
    <2>3. CASE launches' = Append(launches, t) /\ wanted' = "asked"
      <3>1. Len(launches') = Len(launches) + 1
        BY <1>0, <2>3 DEF AddressOK
      <3> QED
        BY <2>1, <2>3, <3>1 DEF Launch, clientVars, Promise!Launch
    <2> QED
      BY <2>1, <2>2, <2>3 DEF Launch
  <1> QED
    BY <1>1, <1>2, <1>3, <1>4, <1>5, <1>6, <1>7, <1>8
       DEF SessionNext, StopForge, ChangeAddress, StateTold, ProcessEvents, sessionVars, appVars

THEOREM AttachmentKept == SessionSpec => AttachmentSpec
  <1>1. SessionInit => Promise!Init
    BY DEF SessionInit, ClientInit, Promise!Init
  <1> QED
    BY <1>1, SessionInvariant, StepKeepsPromise, PTL DEF SessionSpec, AttachmentSpec, Promise!Spec
=============================================================================
