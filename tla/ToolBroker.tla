----------------------------- MODULE ToolBroker -----------------------------
(***************************************************************************)
(* The attempt-scoped tool broker (runtime/toolbroker/broker.go and        *)
(* journal.go) with the effect ledger it journals to                       *)
(* (runtime/agent/effects.go and broker_effects.go): one HTTP handler per  *)
(* request, attempts that are opened and revoked, executions that are      *)
(* paused, calls cancelled or timed out, ledger saves that fail, crashes   *)
(* with restart, and the operator who reconciles interrupted effects.      *)
(*                                                                         *)
(* A critical section of the broker's or the ledger's mutex is one step.   *)
(* The ledger is saved inside its mutex, so the map in memory and the      *)
(* snapshot on disk (module SnapshotFile) change together or not at all,   *)
(* and one variable stands for both.                                       *)
(***************************************************************************)
EXTENDS Naturals, FiniteSets

CONSTANTS
    Requests,           \* HTTP requests to /v1/calls, each sent at most once
    Attempts,           \* attempt identities, each opened at most once
    Executions,
    CallIds,
    Ops,                \* classes of equivalent operations: task, tool, arguments
    Att, CallId, Op,    \* of a request
    Exec,               \* of an attempt
    NoRequest,
    GlobalSlots, SessionSlots, AdapterSlots,    \* 32, 4 and 8 in the code
    MaxControls,        \* bound on the pauses, resumes and reconciliations
    MaxSaveFailures,    \* bound on the ledger saves that fail
    MaxCrashes          \* bound on the crashes

ASSUME BrokerAssumption ==
    /\ Att \in [Requests -> Attempts]
    /\ CallId \in [Requests -> CallIds]
    /\ Op \in [Requests -> Ops]
    /\ Exec \in [Attempts -> Executions]
    /\ Ops # {}
    /\ NoRequest \notin Requests
    /\ GlobalSlots \in Nat /\ SessionSlots \in Nat /\ AdapterSlots \in Nat
    /\ MaxControls \in Nat /\ MaxSaveFailures \in Nat /\ MaxCrashes \in Nat

VARIABLES
    session,            \* session[a]: the attempt's session and its paused flag
    held,               \* executions whose pause the dispatcher has forwarded
    calls,              \* session.calls, by call identity
    ledger,             \* effect records, by call identity
    failed,             \* b.persistenceFailed
    h,                  \* h[r]: the handler goroutine of request r
    checked,            \* reconciliations that found their record interrupted
    controls, saveFailures, crashes

vars == <<session, held, calls, ledger, failed, h, checked, controls, saveFailures, crashes>>

Key(r) == <<Att[r], CallId[r]>>
Keys == Attempts \X CallIds

(* The broker and the ledger tell no_effect from the rest only. *)
Effect == {"no_effect", "uncertain"}
Result == [ok: BOOLEAN, effect: Effect]
NoResult == [ok |-> FALSE, effect |-> "none"]
Refusal == [ok |-> FALSE, effect |-> "no_effect"]
Uncommitted == [ok |-> FALSE, effect |-> "uncertain"]

Session == [state: {"none", "open", "revoked"}, paused: BOOLEAN]
CallRecord == [owner: Requests \cup {NoRequest}, active: BOOLEAN,
               response: Result \cup {NoResult}]
NoCall == [owner |-> NoRequest, active |-> FALSE, response |-> NoResult]

Terminal == {"succeeded", "failed", "cancelled"}
EffectState == Terminal \cup {"absent", "running", "interrupted"}
Unresolved == {"running", "interrupted"}

(***************************************************************************)
(* Where a handler is: before authentication, before the first locked      *)
(* section, waiting for a slot of each kind, before the second look at the *)
(* session, before, in and after the adapter call with its two journal     *)
(* entries, before reporting a failed journal, before looking whether the  *)
(* attempt is still active, before answering, or returned.                 *)
(***************************************************************************)
Waiting == {"global", "session", "adapter"}
Journalled == {"enter", "inside", "record"}
Pc == Waiting \cup Journalled
        \cup {"new", "admit", "recheck", "begin", "beginFailed", "recordFailed",
              "stillActive", "answer", "over"}
Handler == [pc: Pc, slots: SUBSET Waiting, cancelled: BOOLEAN,
            result: Result \cup {NoResult}]

Init ==
    /\ session = [a \in Attempts |-> [state |-> "none", paused |-> FALSE]]
    /\ held = {}
    /\ calls = [k \in Keys |-> NoCall]
    /\ ledger = [k \in Keys |-> [state |-> "absent", op |-> CHOOSE o \in Ops : TRUE]]
    /\ failed = FALSE
    /\ h = [r \in Requests |-> [pc |-> "new", slots |-> {}, cancelled |-> FALSE,
                                result |-> NoResult]]
    /\ checked = {}
    /\ controls = 0
    /\ saveFailures = 0
    /\ crashes = 0

Control == controls < MaxControls /\ controls' = controls + 1

-----------------------------------------------------------------------------
(* The dispatcher's calls. *)

BeginAttempt(a) ==
    /\ ~failed
    /\ session[a].state = "none"
    /\ session' = [session EXCEPT ![a] = [state |-> "open", paused |-> FALSE]]
    /\ UNCHANGED <<held, calls, ledger, failed, h, checked, controls, saveFailures, crashes>>

SetExecutionPaused(e, paused) ==
    /\ Control
    /\ held' = IF paused THEN held \cup {e} ELSE held \ {e}
    /\ session' = [a \in Attempts |->
                     IF session[a].state = "open" /\ Exec[a] = e
                     THEN [session[a] EXCEPT !.paused = paused] ELSE session[a]]
    /\ UNCHANGED <<calls, ledger, failed, h, checked, saveFailures, crashes>>

Owned(r) == calls[Key(r)].owner = r /\ calls[Key(r)].active

(* The contexts of the active calls in K are cancelled.  Nothing of the     *)
(* broker looks at a context once the adapter has been entered; what the    *)
(* adapter does with it is among the outcomes of AdapterReturns.            *)
Looking == Waiting \cup {"recheck", "begin", "enter"}
Cancelled(K) ==
    [r \in Requests |-> IF Owned(r) /\ Key(r) \in K /\ h[r].pc \in Looking
                        THEN [h[r] EXCEPT !.cancelled = TRUE] ELSE h[r]]

(***************************************************************************)
(* At the end of an attempt, for every attempt of a killed execution, and  *)
(* for every attempt when the broker closes.  The session is forgotten,    *)
(* and whether it was paused with it.                                      *)
(***************************************************************************)
RevokeAttempt(a) ==
    /\ session[a].state = "open"
    /\ session' = [session EXCEPT ![a] = [state |-> "revoked", paused |-> FALSE]]
    /\ h' = Cancelled({a} \X CallIds)
    /\ UNCHANGED <<held, calls, ledger, failed, checked, controls, saveFailures, crashes>>

-----------------------------------------------------------------------------
(* The handler of a request. *)

Goto(r, pc) == h' = [h EXCEPT ![r].pc = pc]
Reply(r, result) ==
    h' = [h EXCEPT ![r] = [pc |-> "over", slots |-> {}, cancelled |-> FALSE,
                           result |-> result]]

Authenticate(r) ==
    /\ h[r].pc = "new"
    /\ session[Att[r]].state # "none"
    /\ IF session[Att[r]].state = "open" THEN Goto(r, "admit") ELSE Reply(r, Refusal)
    /\ UNCHANGED <<session, held, calls, ledger, failed, checked, controls, saveFailures, crashes>>

(***************************************************************************)
(* The first locked section.  A repeated call identity gets the response   *)
(* of the first call; an unknown or forbidden tool, or arguments that do   *)
(* not fit its schema, refuse the request.                                 *)
(***************************************************************************)
Blocked(r) ==
    failed \/ session[Att[r]].state = "revoked" \/ session[Att[r]].paused

Replayable(r, call) ==
    call.owner # NoRequest /\ Op[call.owner] = Op[r] /\ ~call.active

Refuse(r) ==
    /\ h[r].pc = "admit"
    /\ Blocked(r) \/ ~Replayable(r, calls[Key(r)])
    /\ Reply(r, Refusal)
    /\ UNCHANGED <<session, held, calls, ledger, failed, checked, controls, saveFailures, crashes>>

Replay(r) ==
    /\ h[r].pc = "admit"
    /\ ~Blocked(r)
    /\ Replayable(r, calls[Key(r)])
    /\ Reply(r, calls[Key(r)].response)
    /\ UNCHANGED <<session, held, calls, ledger, failed, checked, controls, saveFailures, crashes>>

Admit(r) ==
    /\ h[r].pc = "admit"
    /\ ~Blocked(r)
    /\ calls[Key(r)].owner = NoRequest
    /\ calls' = [calls EXCEPT ![Key(r)] =
                    [owner |-> r, active |-> TRUE, response |-> NoResult]]
    /\ Goto(r, "global")
    /\ UNCHANGED <<session, held, ledger, failed, checked, controls, saveFailures, crashes>>

(***************************************************************************)
(* The three semaphores are taken in this order, each unless the call's    *)
(* context ends first; they are released together when the handler         *)
(* returns.                                                                *)
(***************************************************************************)
Holders(kind) == {r \in Requests : kind \in h[r].slots}
SessionHolders(a) == {r \in Holders("session") : Att[r] = a}

Free(r, kind) ==
    CASE kind = "global"  -> Cardinality(Holders("global")) < GlobalSlots
      [] kind = "session" -> Cardinality(SessionHolders(Att[r])) < SessionSlots
      [] kind = "adapter" -> Cardinality(Holders("adapter")) < AdapterSlots

After(kind) ==
    CASE kind = "global" -> "session" [] kind = "session" -> "adapter"
      [] kind = "adapter" -> "recheck"

Acquire(r) ==
    LET kind == h[r].pc
    IN  /\ kind \in Waiting
        /\ Free(r, kind)
        /\ h' = [h EXCEPT ![r].pc = After(kind), ![r].slots = @ \cup {kind}]
        /\ UNCHANGED <<session, held, calls, ledger, failed, checked, controls, saveFailures, crashes>>

Pending(r, pc, result) == h' = [h EXCEPT ![r].pc = pc, ![r].result = result]

GiveUp(r) ==
    /\ h[r].pc \in Waiting
    /\ h[r].cancelled
    /\ Pending(r, "answer", Refusal)
    /\ UNCHANGED <<session, held, calls, ledger, failed, checked, controls, saveFailures, crashes>>

Recheck(r) ==
    /\ h[r].pc = "recheck"
    /\ IF Blocked(r) \/ h[r].cancelled THEN Pending(r, "answer", Refusal)
       ELSE Goto(r, "begin")
    /\ UNCHANGED <<session, held, calls, ledger, failed, checked, controls, saveFailures, crashes>>

(***************************************************************************)
(* BeginCall of the ledger: a recorded identity and an unresolved          *)
(* equivalent record are refused; otherwise a running record is saved.     *)
(***************************************************************************)
(* Wrong: only calls still running are looked for. *)
AdmissibleUnlessRunning(r) ==
    /\ ledger[Key(r)].state = "absent"
    /\ \A k \in Keys : ledger[k].op = Op[r] => ledger[k].state # "running"

Admissible(r) ==
    /\ ledger[Key(r)].state = "absent"
    /\ \A k \in Keys : ledger[k].op = Op[r] => ledger[k].state \notin Unresolved

SaveFails == saveFailures < MaxSaveFailures /\ saveFailures' = saveFailures + 1

BeginCall(r) ==
    /\ h[r].pc = "begin"
    /\ \/ /\ ~Admissible(r)
          /\ Pending(r, "answer", Refusal)
          /\ UNCHANGED <<ledger, saveFailures>>
       \/ /\ Admissible(r)
          /\ ledger' = [ledger EXCEPT ![Key(r)] = [state |-> "running", op |-> Op[r]]]
          /\ Goto(r, "enter")
          /\ UNCHANGED saveFailures
       \/ /\ Admissible(r)
          /\ SaveFails
          /\ Goto(r, "beginFailed")
          /\ UNCHANGED ledger
    /\ UNCHANGED <<session, held, calls, failed, checked, controls, crashes>>

(* Wrong: the calls under way are not cancelled. *)
FailPersistenceFlagOnly(r, pc, result) ==
    /\ failed' = TRUE
    /\ h' = [h EXCEPT ![r].pc = pc, ![r].result = result]
    /\ UNCHANGED <<session, held, calls, ledger, checked, controls, saveFailures, crashes>>

(* failPersistence cancels the active calls of the open sessions. *)
FailPersistence(r, pc, result) ==
    LET open == {k \in Keys : session[k[1]].state = "open"}
    IN  /\ failed' = TRUE
        /\ h' = [Cancelled(open) EXCEPT ![r].pc = pc, ![r].result = result]
        /\ UNCHANGED <<session, held, calls, ledger, checked, controls, saveFailures, crashes>>

BeginFailed(r) == h[r].pc = "beginFailed" /\ FailPersistence(r, "answer", Refusal)

(***************************************************************************)
(* invokeAdapter looks at the context, enters the adapter, and takes what  *)
(* it returns; a panic or an unknown certainty counts as uncertain.        *)
(***************************************************************************)
Enter(r) ==
    /\ h[r].pc = "enter"
    /\ IF h[r].cancelled THEN Pending(r, "record", Refusal) ELSE Goto(r, "inside")
    /\ UNCHANGED <<session, held, calls, ledger, failed, checked, controls, saveFailures, crashes>>

AdapterReturns(r) ==
    /\ h[r].pc = "inside"
    /\ \E result \in Result : Pending(r, "record", result)
    /\ UNCHANGED <<session, held, calls, ledger, failed, checked, controls, saveFailures, crashes>>

(***************************************************************************)
(* Finish of the ledger never touches a terminal record.  FinishCall gives *)
(* it a terminal state only for a call without effect.                     *)
(***************************************************************************)
Finishable(k) == ledger[k].state \in Unresolved

FinishState(result) ==
    IF result.effect # "no_effect" THEN "interrupted"
    ELSE IF result.ok THEN "succeeded" ELSE "failed"

(* The response is replaced by an error when it exceeds the output limit. *)
Bounded(result) == {result, [ok |-> FALSE, effect |-> result.effect]}

FinishCall(r) ==
    /\ h[r].pc = "record"
    /\ \/ /\ Finishable(Key(r))
          /\ ledger' = [ledger EXCEPT ![Key(r)].state = FinishState(h[r].result)]
          /\ \E result \in Bounded(h[r].result) : Pending(r, "stillActive", result)
          /\ UNCHANGED saveFailures
       \/ /\ IF Finishable(Key(r)) THEN SaveFails ELSE UNCHANGED saveFailures
          /\ Goto(r, "recordFailed")
          /\ UNCHANGED ledger
    /\ UNCHANGED <<session, held, calls, failed, checked, controls, crashes>>

(* Wrong: the adapter's result is answered although it is not recorded. *)
RecordFailedSilently(r) ==
    h[r].pc = "recordFailed" /\ FailPersistence(r, "stillActive", h[r].result)

RecordFailed(r) ==
    h[r].pc = "recordFailed" /\ FailPersistence(r, "stillActive", Uncommitted)

(***************************************************************************)
(* The result of an attempt revoked meanwhile is discarded, and the answer *)
(* is the one a revoked attempt gets.                                      *)
(***************************************************************************)
StillActive(r) ==
    /\ h[r].pc = "stillActive"
    /\ IF session[Att[r]].state = "open" THEN Goto(r, "answer") ELSE Reply(r, Refusal)
    /\ UNCHANGED <<session, held, calls, ledger, failed, checked, controls, saveFailures, crashes>>

Answer(r) ==
    /\ h[r].pc = "answer"
    /\ calls' = [calls EXCEPT ![Key(r)].active = FALSE, ![Key(r)].response = h[r].result]
    /\ Reply(r, h[r].result)
    /\ UNCHANGED <<session, held, ledger, failed, checked, controls, saveFailures, crashes>>

(***************************************************************************)
(* The context of a call ends: its deadline passes, its client goes away,  *)
(* or the client cancels it through /v1/calls/<id>/cancel.                 *)
(***************************************************************************)
CancelCall(r) ==
    /\ Owned(r)
    /\ h[r].pc \in Looking /\ ~h[r].cancelled
    /\ h' = Cancelled({Key(r)})
    /\ UNCHANGED <<session, held, calls, ledger, failed, checked, controls, saveFailures, crashes>>

-----------------------------------------------------------------------------
(***************************************************************************)
(* The operator's reconciliation reads the record, releases the mutex and  *)
(* then finishes the record with the observed state.                       *)
(***************************************************************************)
(* Wrong: a call still running may be reconciled. *)
CheckReconcileUnresolved(k, observed) ==
    /\ Control
    /\ ledger[k].state \in Unresolved
    /\ checked' = checked \cup {<<k, observed>>}
    /\ UNCHANGED <<session, held, calls, ledger, failed, h, saveFailures, crashes>>

CheckReconcile(k, observed) ==
    /\ Control
    /\ ledger[k].state = "interrupted"
    /\ checked' = checked \cup {<<k, observed>>}
    /\ UNCHANGED <<session, held, calls, ledger, failed, h, saveFailures, crashes>>

Reconcile(k, observed) ==
    /\ <<k, observed>> \in checked
    /\ checked' = checked \ {<<k, observed>>}
    /\ \/ /\ Finishable(k)
          /\ ledger' = [ledger EXCEPT ![k].state = observed]
          /\ UNCHANGED saveFailures
       \/ Finishable(k) /\ SaveFails /\ UNCHANGED ledger
       \/ ~Finishable(k) /\ UNCHANGED <<ledger, saveFailures>>
    /\ UNCHANGED <<session, held, calls, failed, h, controls, crashes>>

(***************************************************************************)
(* A crash ends the handlers and the workers; the restarted process reads  *)
(* the ledger and saves every running record as interrupted.               *)
(***************************************************************************)
(* Wrong: a finished record is opened again. *)
RecoveredAll(record) ==
    IF record.state # "absent" THEN [record EXCEPT !.state = "interrupted"] ELSE record

Recovered(record) ==
    IF record.state = "running" THEN [record EXCEPT !.state = "interrupted"] ELSE record

Crash ==
    /\ crashes < MaxCrashes
    /\ crashes' = crashes + 1
    /\ session' = [a \in Attempts |->
                     IF session[a].state = "open"
                     THEN [state |-> "revoked", paused |-> FALSE] ELSE session[a]]
    /\ calls' = [k \in Keys |-> NoCall]
    /\ ledger' = [k \in Keys |-> Recovered(ledger[k])]
    /\ failed' = FALSE
    /\ h' = [r \in Requests |->
               IF h[r].pc \in {"new", "over"} THEN h[r]
               ELSE [pc |-> "over", slots |-> {}, cancelled |-> FALSE, result |-> NoResult]]
    /\ checked' = {}
    /\ UNCHANGED <<held, controls, saveFailures>>

-----------------------------------------------------------------------------
Handle(r) ==
    \/ Authenticate(r) \/ Refuse(r) \/ Replay(r) \/ Admit(r)
    \/ Acquire(r) \/ GiveUp(r) \/ Recheck(r)
    \/ BeginCall(r) \/ BeginFailed(r) \/ Enter(r)
    \/ FinishCall(r) \/ RecordFailed(r) \/ StillActive(r) \/ Answer(r)

Next ==
    \/ \E a \in Attempts : BeginAttempt(a) \/ RevokeAttempt(a)
    \/ \E e \in Executions, paused \in BOOLEAN : SetExecutionPaused(e, paused)
    \/ \E r \in Requests : Handle(r) \/ AdapterReturns(r) \/ CancelCall(r)
    \/ \E k \in Keys, observed \in Terminal :
          CheckReconcile(k, observed) \/ Reconcile(k, observed)
    \/ Crash

Spec == Init /\ [][Next]_vars

(***************************************************************************)
(* Every handler keeps running and every call's deadline passes.  Nothing  *)
(* is assumed of the adapters: a call may stay inside one for ever.        *)
(***************************************************************************)
LiveSpec == Spec /\ \A r \in Requests : WF_vars(Handle(r)) /\ WF_vars(CancelCall(r))

-----------------------------------------------------------------------------
(***************************************************************************)
(* The variables keep their types.                                         *)
(***************************************************************************)
TypeOK ==
    /\ session \in [Attempts -> Session]
    /\ held \subseteq Executions
    /\ calls \in [Keys -> CallRecord]
    /\ ledger \in [Keys -> [state: EffectState, op: Ops]]
    /\ failed \in BOOLEAN
    /\ h \in [Requests -> Handler]
    /\ checked \subseteq Keys \X Terminal
    /\ controls \in Nat
    /\ saveFailures \in Nat
    /\ crashes \in Nat

(***************************************************************************)
(* "EffectJournal must commit Begin before the adapter is entered": while  *)
(* a call is inside its adapter the ledger holds its running record, and   *)
(* no equivalent call is unresolved, whatever was cancelled, revoked,      *)
(* reconciled or crashed before (handleCall, BeginCall, Reconcile).        *)
(***************************************************************************)
EntryIsRecorded ==
    \A r \in Requests : h[r].pc = "inside" =>
        /\ ledger[Key(r)] = [state |-> "running", op |-> Op[r]]
        /\ \A k \in Keys \ {Key(r)} :
              ledger[k].op = Op[r] => ledger[k].state \notin Unresolved

(***************************************************************************)
(* A client that is told of a success is told of a recorded outcome: a     *)
(* success without effect is recorded as succeeded, and any other success  *)
(* waits for reconciliation or has been reconciled.  It holds for replayed *)
(* responses and across restarts ("Duplicate call IDs return a safely      *)
(* committed prior response", handleCall, FinishCall).                     *)
(***************************************************************************)
ReplyIsCommitted ==
    \A r \in Requests : (h[r].pc = "over" /\ h[r].result.ok) =>
        IF h[r].result.effect = "no_effect"
        THEN ledger[Key(r)].state = "succeeded"
        ELSE ledger[Key(r)].state \in Terminal \cup {"interrupted"}

(* The calls between their admission to the adapter and their answer. *)
InFlight == {r \in Requests : h[r].pc \in Journalled}

(***************************************************************************)
(* At most SessionSlots calls of an attempt and AdapterSlots calls in all  *)
(* are between their admission to the adapter and their answer.            *)
(***************************************************************************)
CallsBounded ==
    /\ Cardinality(InFlight) <= AdapterSlots
    /\ \A a \in Attempts : Cardinality({r \in InFlight : Att[r] = a}) <= SessionSlots

(***************************************************************************)
(* No adapter is entered for an attempt that is revoked, nor once a ledger *)
(* save has failed, although the session was looked at several steps       *)
(* earlier (handleCall's second look, failPersistence, RevokeAttempt).     *)
(***************************************************************************)
NoEntryAfterTheEnd ==
    [][\A r \in Requests : (h[r].pc = "enter" /\ h'[r].pc = "inside") =>
          ~failed /\ session[Att[r]].state = "open"]_vars

(***************************************************************************)
(* What a caller and its adapter may rely on (handleCall): an answered     *)
(* success is recorded, and no call enters once it must not.               *)
(***************************************************************************)
CallsKeepTheRules == []ReplyIsCommitted /\ NoEntryAfterTheEnd

(***************************************************************************)
(* A terminal effect record never changes, and "interrupted records never  *)
(* move back to running", although Reconcile gives up the mutex between    *)
(* its look and its change (Finish, Reconcile, FinishCall).                *)
(***************************************************************************)
LedgerMovesForward ==
    [][\A k \in Keys :
          /\ ledger[k].state \in Terminal => ledger'[k] = ledger[k]
          /\ ledger[k].state = "interrupted" => ledger'[k].state # "running"]_vars

(* The refinement mapping: what the ledger means to EffectIntents. *)
unresolved == [o \in Ops |-> {k \in Keys : ledger[k].op = o /\ ledger[k].state \in Unresolved}]
used == {k \in Keys : ledger[k].state # "absent"}
Intents == INSTANCE EffectIntents

(***************************************************************************)
(* The ledger implements its promise: of equivalent operations at most one *)
(* is unresolved, and no call identity is begun twice.                     *)
(***************************************************************************)
IntentSpec == Intents!Spec

(***************************************************************************)
(* A call that waits for a slot held by calls that never return from their *)
(* adapter is answered all the same, by its deadline (the selects of       *)
(* handleCall).                                                            *)
(***************************************************************************)
HungAdapterBlocksNobody ==
    \A r \in Requests : (h[r].pc \in Waiting) ~> (h[r].pc \in {"inside", "over"})

(***************************************************************************)
(* "Pause blocks new calls": no call is admitted while its execution is    *)
(* paused.                                                                 *)
(***************************************************************************)
PauseBlocksNewCalls ==
    [][\A r \in Requests : (h[r].pc = "admit" /\ h'[r].pc = "global") =>
          Exec[Att[r]] \notin held]_vars
=============================================================================
