---------------------------- MODULE MC_ToolBroker ----------------------------
(***************************************************************************)
(* Instances of the tool broker.  Requests 1 and 2 carry the same call     *)
(* identity of attempt "a"; request 3 is the equivalent call of "b", the   *)
(* next attempt of the same node; request 4 is another operation of "a".   *)
(***************************************************************************)
EXTENDS ToolBroker

AttOf == [r \in Requests |-> IF r = 3 THEN "b" ELSE "a"]
CallIdOf == [r \in Requests |-> IF r = 4 THEN "d" ELSE "c"]
OpOf == [r \in Requests |-> IF r = 4 THEN "y" ELSE "x"]
ExecOf == [a \in Attempts |-> "e"]
=============================================================================
