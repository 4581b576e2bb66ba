---------------------------- MODULE ForgeProcess ----------------------------
(***************************************************************************)
(* forge as a child process of Studio                                      *)
(* (src/studio/electron/forge/process.ts).  At most one process is the     *)
(* child; stop() asks it to end and kills it four seconds later if it is   *)
(* the child still.  What the process prints, its arguments and the        *)
(* warning about a binary older than its sources are left out.             *)
(***************************************************************************)
EXTENDS Naturals

CONSTANT MaxStarts       \* processes spawned in one behaviour
ASSUME ProcessAssumption == MaxStarts \in Nat

NoProcess == 0
Pids == 1..MaxStarts

VARIABLES
    child,               \* the process the manager holds
    life,                \* of each process: unused, running, unborn (spawn failed), dead or gone
    forgePhase,
    kills,               \* the processes a kill timer is set for
    asked,               \* the processes that were told to end
    killed               \* the processes that were killed
processVars == <<child, life, forgePhase, kills, asked, killed>>

ProcessInit ==
    /\ child = NoProcess /\ life = [p \in Pids |-> "unused"]
    /\ forgePhase = "stopped"
    /\ kills = {} /\ asked = {} /\ killed = {}

Dies(p) == IF life[p] = "running" THEN [life EXCEPT ![p] = "dead"] ELSE life

-----------------------------------------------------------------------------
(* A second start changes nothing; a missing binary or directory, or a      *)
(* spawn that throws, is an error; a spawn may also fail a moment later.    *)
Start ==
    \/ /\ child # NoProcess
       /\ UNCHANGED processVars
    \/ /\ child = NoProcess
       /\ forgePhase' = "error"
       /\ UNCHANGED <<child, life, kills, asked, killed>>
    \/ /\ child = NoProcess
       /\ \E p \in Pids :
            /\ life[p] = "unused" /\ \A q \in Pids : q < p => life[q] # "unused"
            /\ child' = p
            /\ \E l \in {"running", "unborn"} : life' = [life EXCEPT ![p] = l]
       /\ forgePhase' = "running"
       /\ UNCHANGED <<kills, asked, killed>>

(* stop(): ask, and set the timer.                                          *)
Stop ==
    /\ child # NoProcess
    /\ asked' = asked \union {child}
    /\ kills' = kills \union {child}
    /\ UNCHANGED <<child, life, forgePhase, killed>>

(* Mutant: the timer kills whatever process is the child by then.           *)
KillTimerAny(p) ==
    /\ p \in kills /\ kills' = kills \ {p}
    /\ IF child # NoProcess
       THEN killed' = killed \union {child} /\ life' = Dies(child)
       ELSE UNCHANGED <<killed, life>>
    /\ UNCHANGED <<child, forgePhase, asked>>
KillTimer(p) ==
    /\ p \in kills /\ kills' = kills \ {p}
    /\ IF child = p
       THEN killed' = killed \union {p} /\ life' = Dies(p)
       ELSE UNCHANGED <<killed, life>>
    /\ UNCHANGED <<child, forgePhase, asked>>

(* dispose(), as Studio quits; the timers die with it.                      *)
ProcessDispose ==
    /\ asked' = IF child = NoProcess THEN asked ELSE asked \union {child}
    /\ child' = NoProcess /\ kills' = {}
    /\ UNCHANGED <<life, forgePhase, killed>>

-----------------------------------------------------------------------------
(* The operating system.                                                    *)
Exits(p) ==
    /\ life[p] = "running" /\ life' = Dies(p)
    /\ UNCHANGED <<child, forgePhase, kills, asked, killed>>

(* The error event of a spawn that failed; its close event comes after it.  *)
SpawnError(p) ==
    /\ life[p] = "unborn" /\ life' = [life EXCEPT ![p] = "dead"]
    /\ child' = IF child = p THEN NoProcess ELSE child
    /\ forgePhase' = "error"
    /\ UNCHANGED <<kills, asked, killed>>

(* The close event.                                                         *)
Closed(p) ==
    /\ life[p] = "dead" /\ life' = [life EXCEPT ![p] = "gone"]
    /\ IF child = p
       THEN child' = NoProcess /\ forgePhase' = "exited"
       ELSE UNCHANGED <<child, forgePhase>>
    /\ UNCHANGED <<kills, asked, killed>>

ProcessEvent == \E p \in Pids : KillTimer(p) \/ Exits(p) \/ SpawnError(p) \/ Closed(p)
ProcessNext == Start \/ Stop \/ ProcessDispose \/ ProcessEvent
ProcessSpec == ProcessInit /\ [][ProcessNext]_processVars

-----------------------------------------------------------------------------
ProcessTypeOK ==
    /\ child \in Pids \union {NoProcess}
    /\ life \in [Pids -> {"unused", "running", "unborn", "dead", "gone"}]
    /\ forgePhase \in {"stopped", "running", "error", "exited"}
    /\ kills \subseteq Pids /\ asked \subseteq Pids /\ killed \subseteq Pids

(* Studio never runs a forge it does not know: a live process is the child, *)
(* or Studio has quit since and told it to end ("Never leave an orphaned    *)
(* forge.exe", main.ts).  So there are never two processes for one port     *)
(* while Studio runs.                                                       *)
EveryForgeIsOwned ==
    \A p \in Pids : life[p] = "running" => p = child \/ p \in asked

(* Only a process the user stopped is killed: the timer of one process,     *)
(* four seconds late, never hits the process started after it.              *)
KillsOnlyTheStopped == killed \subseteq asked

(* Both: a late timer and a late close event belong to the process they     *)
(* were for, so neither loses nor kills the one started after it.           *)
ForgesAreOwned == EveryForgeIsOwned /\ KillsOnlyTheStopped
=============================================================================
