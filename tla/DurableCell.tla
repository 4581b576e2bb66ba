---------------------------- MODULE DurableCell ----------------------------
(***************************************************************************)
(* What a snapshot file promises: one durable value.  A save replaces it   *)
(* in one step by a newer one and is then acknowledged; whatever happens   *)
(* in between, a restart finds the old value or the new one, never nothing *)
(* and never something older.                                              *)
(***************************************************************************)
EXTENDS Naturals

VARIABLES
    cell,               \* the version a restart would load; 0 is "none yet"
    acked               \* the version the running process knows to be saved

Init == cell = 0 /\ acked = 0

Replace == cell' \in Nat /\ cell' > cell /\ acked' \in {acked, cell'}
Acknowledge == acked' = cell /\ UNCHANGED cell

Next == Replace \/ Acknowledge

Spec == Init /\ [][Next]_<<cell, acked>>
=============================================================================
