----------------------------- MODULE Approvals -----------------------------
(***************************************************************************)
(* How Studio tells the user of runs that end or wait for a decision, and  *)
(* how the decision is made: runNotifications.ts and runCompletion.ts      *)
(* compare each projection with the one before, toasts.ts keeps what was   *)
(* said, ReviewSheet.tsx shows the request and hitl/checkpoints.ts writes  *)
(* the decision beside it.                                                 *)
(*                                                                         *)
(* Every run has one step, so a review names no more than "the step of the *)
(* selected run"; the path of the request of run r is r itself.  None of   *)
(* the runs is a planning run, which is never announced.                   *)
(***************************************************************************)
EXTENDS ApprovalFeed

CONSTANTS
    MaxToasts,       \* 4 in the code
    MaxCalls         \* bound: decisions that are unanswered at once, and faults before
ASSUME ApprovalBounds == MaxToasts \in Nat \ {0} /\ MaxCalls \in Nat

VARIABLES
    view,            \* the projection shown
    toasts,          \* [kind, run], oldest first
    listing,         \* runs whose outputs were asked for, to complete their toast
    selected,        \* the run selected, or None for the newest
    sheet,           \* the review that is open, or None: see NewSheet
    calls,           \* decisions sent, unanswered, oldest first: [run, decision, stage, own]
    told,            \* run |-> the decision the user was told is recorded: a history
    announced,       \* run |-> how often its end was announced: a history
    going            \* runs that were shown before they ended: a history
shownVars == <<view, toasts, listing, selected>>
histories == <<announced, going>>
studioVars == <<shownVars, sheet, calls, told, histories>>
vars == <<feedVars, studioVars>>

Init ==
    /\ FeedInit
    /\ view = EmptyProjection
    /\ toasts = <<>> /\ listing = {} /\ selected = None /\ sheet = None /\ calls = <<>>
    /\ told = [r \in Runs |-> NoDecision]
    /\ announced = [r \in Runs |-> 0] /\ going = {}

-----------------------------------------------------------------------------
(* Toasts.  One that is showing already is replaced in place.               *)
Toast(kind, r) == [kind |-> kind, run |-> r]
Pushed(shown, toast) ==
    IF toast \in Range(shown) THEN shown
    ELSE LET all == Append(shown, toast)
         IN  SubSeq(all, IF Len(all) > MaxToasts THEN 2 ELSE 1, Len(all))
PushedAll(shown, kind, runs) ==
    FoldLeft(LAMBDA s, r : Pushed(s, Toast(kind, r)), shown, runs)
Dismissed(shown, toast) == SelectSeq(shown, LAMBDA t : t # toast)

(* What changed from one projection to the next.  A run that was unknown or *)
(* had ended already is no news; neither is a node that waited already.     *)
Finished(p, r) == r \in DOMAIN p.runs /\ p.runs[r].status \in {"completed", "failed"}
(* Mutant: that the run had ended before goes unnoticed.                    *)
DetectCompletionsAgain(before, after) ==
    SelectSeq(after.order, LAMBDA r : Finished(after, r) /\ r \in DOMAIN before.runs)
DetectCompletions(before, after) ==
    SelectSeq(after.order, LAMBDA r :
        Finished(after, r) /\ r \in DOMAIN before.runs /\ ~Finished(before, r))
DetectApprovalRequests(before, after) ==
    SelectSeq(after.order, LAMBDA r :
        IsPendingApproval(after, r, Step) /\ ~IsPendingApproval(before, r, Step))

(* Mutant: the toasts of decided approvals stay.                            *)
ClearNothing(shown, p) == shown
ClearDecidedApprovals(shown, p) ==
    SelectSeq(shown, LAMBDA t : t.kind = "approval" => IsPendingApproval(p, t.run, Step))

-----------------------------------------------------------------------------
(* The review sheet is one component: it stays mounted, with all its state, *)
(* when another run is selected, and follows the path of its request.  The  *)
(* text of the request, which it reads then, is left out.                   *)
NewSheet == [path |-> None, busy |-> FALSE]
RunShown(p, choice) == IF choice = None THEN LatestRun(p) ELSE choice
RequestPath(p, choice) ==
    LET r == RunShown(p, choice)
        known == r \in DOMAIN p.runs /\ Step \in DOMAIN p.runs[r].nodes
    IN  IF known /\ p.runs[r].nodes[Step].waiting # None
        THEN p.runs[r].nodes[Step].waiting.path ELSE None
(* The sheet once it shows the request of the run selected.                 *)
Reviewing(s, p, choice) == [s EXCEPT !.path = RequestPath(p, choice)]

(* A batch arrives: the projection changes, and what changed is announced.  *)
Receive ==
    /\ \E n \in 1..Len(wire) :
          /\ view' = ApplyEvents(view, SubSeq(wire, 1, n))
          /\ wire' = SubSeq(wire, n + 1, Len(wire))
    /\ LET ended == DetectCompletions(view, view')
           asking == DetectApprovalRequests(view, view')
       IN  /\ toasts' = ClearDecidedApprovals(
                PushedAll(PushedAll(toasts, "run", ended), "approval", asking), view')
           /\ listing' = listing \cup {r \in Range(ended) : view'.runs[r].status = "completed"}
           /\ announced' = [r \in Runs |-> announced[r] + (IF r \in Range(ended) THEN 1 ELSE 0)]
    /\ going' = going \cup {r \in DOMAIN view'.runs : ~Finished(view', r)}
    /\ sheet' = IF sheet = None THEN None ELSE Reviewing(sheet, view', selected)
    /\ UNCHANGED <<bus, engine, worker, cancelled, decisions, link, raced, faults,
                   selected, calls, told>>

(* The list of files completes the toast of a finished run, and shows it    *)
(* again if the user has dismissed it.                                      *)
OutputsArrive ==
    /\ \E r \in listing : toasts' = Pushed(toasts, Toast("run", r)) /\ listing' = listing \ {r}
    /\ UNCHANGED <<feedVars, view, selected, sheet, calls, told, histories>>

-----------------------------------------------------------------------------
(* The user, who may click as often as they like.                           *)

DismissToast ==
    /\ \E t \in Range(toasts) : toasts' = Dismissed(toasts, t)
    /\ UNCHANGED <<feedVars, view, listing, selected, sheet, calls, told, histories>>

(* The review of a run that waits is opened from its toast, the list of     *)
(* runs or the system notification: the run is selected, the review opens   *)
(* or, being open, follows.                                                 *)
OpenApproval ==
    /\ \E r \in Runs :
          /\ IsPendingApproval(view, r, Step)
          /\ selected' = r
          /\ sheet' = Reviewing(IF sheet = None THEN NewSheet ELSE sheet, view, r)
          /\ toasts' \in {toasts, Dismissed(toasts, Toast("approval", r))}
    /\ UNCHANGED <<feedVars, view, listing, calls, told, histories>>

SelectRun ==
    /\ \E r \in DOMAIN view.runs :
          /\ selected' = r
          /\ sheet' = IF sheet = None THEN None ELSE Reviewing(sheet, view, r)
    /\ UNCHANGED <<feedVars, view, toasts, listing, calls, told, histories>>

(* A sheet that goes away leaves the answers of its calls to nobody.        *)
Disowned(sent) == [i \in DOMAIN sent |-> [sent[i] EXCEPT !.own = FALSE]]
CloseReview ==
    /\ sheet # None
    /\ sheet' = None /\ calls' = Disowned(calls)
    /\ UNCHANGED <<feedVars, shownVars, told, histories>>

(* The user decides about the request at the sheet's path.                  *)
Decide ==
    /\ sheet # None /\ sheet.path # None /\ ~sheet.busy
    /\ Len(calls) < MaxCalls
    /\ \E d \in Decisions :
          calls' = Append(calls, [run |-> sheet.path, decision |-> d, stage |-> "sent", own |-> TRUE])
    /\ sheet' = [sheet EXCEPT !.busy = TRUE]
    /\ UNCHANGED <<feedVars, shownVars, told, histories>>

(* The main process creates the document and then fills it: two decisions   *)
(* of a run may be on their way at once, and the worker may read in between.*)
InDocument(r, content) == decisions' = [decisions EXCEPT ![r] = content]
Reaches(i, stage) == calls' = [calls EXCEPT ![i].stage = stage]
Refused(i) == calls' = [calls EXCEPT ![i].stage = "refused", ![i].decision = NoDecision]
documentVars == <<bus, engine, worker, cancelled, link, wire, raced, shownVars, sheet,
                  told, histories>>

(* Mutant: a document that exists is truncated.                             *)
MayTruncate(r) == TRUE
(* The flag 'wx': the document is created, or the decision is refused.      *)
MayCreate(r) == decisions[r] = NoDecision
CreateDocument ==
    /\ \E i \in DOMAIN calls :
          /\ calls[i].stage = "sent"
          /\ IF MayCreate(calls[i].run)
             THEN InDocument(calls[i].run, Empty) /\ Reaches(i, "created")
             ELSE Refused(i) /\ UNCHANGED decisions
    /\ UNCHANGED <<documentVars, faults>>

FillDocument ==
    /\ \E i \in DOMAIN calls :
          /\ calls[i].stage = "created"
          /\ InDocument(calls[i].run, calls[i].decision) /\ Reaches(i, "written")
    /\ UNCHANGED <<documentVars, faults>>

(* The request cannot be read, or the document cannot be created or filled: *)
(* it stays as it is.                                                       *)
FailDocument ==
    /\ Fault
    /\ \E i \in DOMAIN calls : calls[i].stage \in {"sent", "created"} /\ Refused(i)
    /\ UNCHANGED <<documentVars, decisions>>

(* The answer to a decision: success closes the review that is open,        *)
(* whichever it is.                                                         *)
ResolveArrives ==
    /\ \E i \in DOMAIN calls :
          LET c == calls[i]
          IN  \/ /\ c.stage = "written"
                 /\ sheet' = None /\ told' = [told EXCEPT ![c.run] = c.decision]
                 /\ calls' = Disowned(RemoveAt(calls, i))
              \/ /\ c.stage = "refused"
                 /\ sheet' = IF sheet = None THEN None ELSE [sheet EXCEPT !.busy = @ /\ ~c.own]
                 /\ calls' = RemoveAt(calls, i) /\ UNCHANGED told
    /\ UNCHANGED <<feedVars, shownVars, histories>>

-----------------------------------------------------------------------------
Feed ==
    /\ \/ \E r \in Runs : Submit(r) \/ Poll(r) \/ EndAttempt(r) \/ Command(r)
       \/ Dispatch \/ Connect \/ Disconnect
    /\ UNCHANGED studioVars
Studio ==
    \/ Receive \/ OutputsArrive \/ DismissToast \/ OpenApproval \/ SelectRun
    \/ CloseReview \/ Decide \/ CreateDocument \/ FillDocument \/ FailDocument
    \/ ResolveArrives
Next == (Feed \/ Studio) /\ Len(calls') + faults' <= MaxCalls

Spec == Init /\ [][Next]_vars

-----------------------------------------------------------------------------
Quiet == link /\ bus = <<>> /\ wire = <<>>

(* At most MaxToasts toasts, none twice, and a sheet that is busy waits for *)
(* the answer to a decision of its own.                                     *)
TypeOK ==
    /\ Len(toasts) <= MaxToasts /\ IsInjective(toasts)
    /\ \A r \in Runs : worker[r] \in {"idle", "waiting", "resumed", "ended"}
    /\ sheet # None => (sheet.busy <=> \E i \in DOMAIN calls : calls[i].own)
    /\ DOMAIN view.runs \subseteq Submitted

(* Of the decisions of one run that are clicked in this review or another,  *)
(* in whatever order they reach the disk, the first that creates the        *)
(* document is the only one that is recorded: what the user was told is     *)
(* recorded is what the document holds, and the step goes on only when that *)
(* is an approval (resolveCheckpoint, AwaitApproval).                       *)
FirstDecisionStands ==
    \A r \in Runs :
        /\ told[r] # NoDecision => decisions[r] = told[r]
        /\ \A i, j \in DOMAIN calls :
              /\ calls[i].run = r /\ calls[i].stage = "written" => decisions[r] = calls[i].decision
              /\ calls[i].run = r /\ calls[j].run = r /\ i # j
                    => ~({calls[i].stage, calls[j].stage} \subseteq {"created", "written"})
        /\ worker[r] = "resumed" => decisions[r] = "APPROVED"

(* What the comment of AwaitApproval says: a step that waits for a person   *)
(* goes on waiting until a decision is written or its run is killed.        *)
WaitsForADecision ==
    [][\A r \in Runs : worker[r] = "waiting" /\ worker'[r] # "waiting"
          => decisions[r] \in Decisions \/ r \in cancelled]_vars

(* The user is never asked for a decision the node no longer waits for      *)
(* (clearDecidedApprovals).                                                 *)
ToastIsCurrent ==
    \A t \in Range(toasts) : t.kind = "approval" => IsPendingApproval(view, t.run, Step)

(* A run that Studio has shown before it ended is announced exactly once,   *)
(* however its end arrives and whatever follows it: controls sent too late, *)
(* reconnections and their snapshots (detectCompletions).  A run whose      *)
(* whole life arrives at once is never announced.                           *)
AnnouncedExactlyOnce ==
    \A r \in Runs : announced[r] = IF r \in going /\ Finished(view, r) THEN 1 ELSE 0

(* Once connected and quiet, the statuses of the runs are the engine's,     *)
(* whatever was lost while the socket was down, unless a command was queued *)
(* when the state was taken: that command overtakes the snapshot.           *)
StatusesRestored ==
    Quiet /\ ~raced => \A r \in Submitted :
        r \in DOMAIN view.runs /\ view.runs[r].status = engine[r].status

(* Once connected and quiet, no approval is shown that nobody waits for.    *)
NoPhantomApproval ==
    Quiet => \A r \in Runs : IsPendingApproval(view, r, Step) => worker[r] = "waiting"

(* What the user is asked (toasts.ts, runNotifications.ts, projection.ts):  *)
(* toasts and pending approvals are of runs that wait for an answer, and    *)
(* the list of toasts and the sheet keep their shape.                       *)
NobodyIsAskedInVain == TypeOK /\ ToastIsCurrent /\ NoPhantomApproval

(* What a comment of projection.ts asks for: a node that waits for a person *)
(* is shown waiting, not running (the state restored on reconnection).      *)
WaitingIsShown ==
    Quiet => \A r \in Runs : worker[r] = "waiting" => IsPendingApproval(view, r, Step)
=============================================================================
