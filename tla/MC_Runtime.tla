----------------------------- MODULE MC_Runtime -----------------------------
(***************************************************************************)
(* Instances of Runtime for TLC.                                           *)
(***************************************************************************)
EXTENDS Runtime

CONSTANTS x, cx          \* an execution, and the one that compiles its workflow

Compiled == [e \in Execs |-> IF e = x THEN cx ELSE NoExec]

(* One execution: node 1 before node 2. *)
Chain == [e \in Execs |-> [n \in Node |-> IF n = 2 THEN {1} ELSE {}]]
(* Nodes 1 and 2 before node 3. *)
Join == [e \in Execs |-> [n \in Node |-> IF n = 3 THEN {1, 2} ELSE {}]]
(* Nodes that depend on nothing. *)
Flat == [e \in Execs |-> [n \in Node |-> {}]]
ThreeNodes == [e \in Execs |-> 3]
OneNode == [e \in Execs |-> 1]
NoCompile == [e \in Execs |-> NoExec]
NoNodes == {}
Node1 == {1}
Node2 == {2}
Kill == {"ExecutionKilled"}
PauseResume == {"ExecutionPaused", "ExecutionResumed"}
AllControls == {"ExecutionKilled", "ExecutionPaused", "ExecutionResumed",
                "ExecutionReconciled"}
Reconcile == {"ExecutionReconciled"}
PauseKill == {"ExecutionKilled", "ExecutionPaused", "ExecutionResumed"}
=============================================================================
