----------------------------- MODULE Attachment -----------------------------
(***************************************************************************)
(* What the connection of Studio to Forge promises.  It is up only after   *)
(* the user asked for it, and once the user has let go it stays down until *)
(* it is asked for again; except that a launch, which connects a moment    *)
(* later, does so even if the user has let go in between, once.            *)
(***************************************************************************)
EXTENDS Naturals

VARIABLES
    want,            \* what the user said last, "asked" or "no", or "late": a
                     \* launch from before the last "no" has connected since
    due,             \* launches that are to connect
    up
vars == <<want, due, up>>

Init == want = "no" /\ due = 0 /\ up = FALSE

Ask == want' = "asked" /\ up' \in {up, FALSE} /\ UNCHANGED due
Launch == want' = "asked" /\ due' = due + 1 /\ UNCHANGED up
LetGo == want' = "no" /\ up' = FALSE /\ due' \in {due, 0}
Fire ==
    /\ due > 0 /\ due' = due - 1
    /\ want' = IF want = "no" THEN "late" ELSE want
    /\ up' \in {up, FALSE}
Attach == want # "no" /\ up' = TRUE /\ UNCHANGED <<want, due>>
Lose == up' = FALSE /\ UNCHANGED <<want, due>>

Next == Ask \/ Launch \/ LetGo \/ Fire \/ Attach \/ Lose
Spec == Init /\ [][Next]_vars
=============================================================================
