---------------------------- MODULE EffectIntents ----------------------------
(***************************************************************************)
(* What the effect ledger promises of the operations journalled in it: an  *)
(* operation is begun under a fresh identity, and only when no equivalent  *)
(* one is unresolved; it stays unresolved until its outcome is known.      *)
(* Restarts change nothing.                                                *)
(***************************************************************************)
EXTENDS FiniteSets

CONSTANTS Ops, Keys
VARIABLES unresolved, used

Init ==
    /\ unresolved = [o \in Ops |-> {}]
    /\ used = {}

Begin(o, k) ==
    /\ unresolved[o] = {}
    /\ k \notin used
    /\ unresolved' = [unresolved EXCEPT ![o] = {k}]
    /\ used' = used \cup {k}

Resolve(o, k) ==
    /\ k \in unresolved[o]
    /\ unresolved' = [unresolved EXCEPT ![o] = @ \ {k}]
    /\ UNCHANGED used

Next == \E o \in Ops, k \in Keys : Begin(o, k) \/ Resolve(o, k)

Spec == Init /\ [][Next]_<<unresolved, used>>
=============================================================================
