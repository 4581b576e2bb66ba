---------------------------- MODULE MC_EventBus ----------------------------
(***************************************************************************)
(* An instance of EventBus for TLC: one subscriber of one event type and   *)
(* one of all events.                                                      *)
(***************************************************************************)
EXTENDS EventBus

CONSTANTS a, w          \* the two subscriptions

Topics == [s \in Subs |-> IF s = w THEN All ELSE "Work"]
=============================================================================
