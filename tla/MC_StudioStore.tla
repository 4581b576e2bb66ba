--------------------------- MODULE MC_StudioStore ---------------------------
(***************************************************************************)
(* Instances of the two stores of Studio.  Runs "a" and "b" both have a    *)
(* node "n"; three kinds of event: one that names only its run, one that   *)
(* starts a node, and a log line.                                          *)
(***************************************************************************)
EXTENDS StudioStore

Started(r) == [type |-> "WorkflowStarted", payload |-> Payload(r, None, None, None),
               val |-> [edges |-> {}, nodes |-> <<>>]]
Running(r) == [type |-> "WorkerStarted", payload |-> Payload(None, <<r, "n">>, None, "ag"),
               val |-> None]
Line(r, signal, path) ==
    [type |-> "WorkerLog", payload |-> Payload(None, <<r, "n">>, None, "ag"),
     val |-> [signal |-> signal, path |-> path, mocked |-> FALSE]]
TwoEvents == {Running("a"), Line("b", "human", None)}
=============================================================================
