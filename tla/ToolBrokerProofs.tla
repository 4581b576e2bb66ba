-------------------------- MODULE ToolBrokerProofs --------------------------
(***************************************************************************)
(* Proofs about the tool broker and its effect ledger, for any requests,   *)
(* attempts, slots, save failures and crashes.                             *)
(***************************************************************************)
EXTENDS ToolBroker, FiniteSetTheorems, TLAPS

-----------------------------------------------------------------------------
(* Operators. *)

LEMMA KeyType == \A r \in Requests : Key(r) \in Keys
  BY BrokerAssumption DEF Key, Keys

LEMMA ConstantTypes ==
    /\ Refusal \in Result
    /\ Uncommitted \in Result
    /\ NoCall \in CallRecord
  BY DEF Refusal, Uncommitted, NoCall, Result, Effect, CallRecord

(***************************************************************************)
(* Cancelling contexts moves no handler.                                   *)
(***************************************************************************)
LEMMA CancelledKeepsPc ==
    ASSUME TypeOK, NEW K
    PROVE  /\ Cancelled(K) \in [Requests -> Handler]
           /\ \A r \in Requests : Cancelled(K)[r].pc = h[r].pc
  BY DEF TypeOK, Cancelled, Handler

-----------------------------------------------------------------------------
(* Types. *)

LEMMA TypeInit == Init => TypeOK
  <1> SUFFICES ASSUME Init PROVE TypeOK
    OBVIOUS
  <1>1. ledger \in [Keys -> [state: EffectState, op: Ops]]
    <2>1. (CHOOSE o \in Ops : TRUE) \in Ops
      BY BrokerAssumption
    <2> QED
      BY <2>1 DEF Init, EffectState
  <1>2. calls \in [Keys -> CallRecord]
    BY ConstantTypes DEF Init
  <1>3. h \in [Requests -> Handler]
    BY DEF Init, Handler, Pc
  <1>4. session \in [Attempts -> Session]
    BY DEF Init, Session
  <1> QED
    BY <1>1, <1>2, <1>3, <1>4 DEF Init, TypeOK

(***************************************************************************)
(* What Goto, Reply and Pending do to one handler.                         *)
(***************************************************************************)
LEMMA HandlerSteps ==
    ASSUME TypeOK, NEW r \in Requests, NEW pc \in Pc, NEW result \in Result \cup {NoResult},
           Goto(r, pc) \/ Pending(r, pc, result) \/ (Reply(r, result) /\ pc = "over")
    PROVE  /\ h' \in [Requests -> Handler]
           /\ h'[r].pc = pc
           /\ \A q \in Requests \ {r} : h'[q] = h[q]
  <1>1. "over" \in Pc
    BY DEF Pc
  <1>2. CASE Goto(r, pc)
    BY <1>2 DEF TypeOK, Goto, Handler
  <1>3. CASE Pending(r, pc, result)
    BY <1>3 DEF TypeOK, Pending, Handler
  <1>4. CASE Reply(r, result) /\ pc = "over"
    <2> DEFINE over == [pc |-> "over", slots |-> {}, cancelled |-> FALSE, result |-> result]
    <2>1. h \in [Requests -> Handler] /\ h[r] \in Handler
      BY DEF TypeOK
    <2>2. over \in Handler /\ over.pc = "over"
      BY <1>1, <2>1 DEF Handler
    <2>3. h' = [h EXCEPT ![r] = over]
      BY <1>4 DEF Reply
    <2> HIDE DEF over
    <2> QED
      BY <1>4, <2>1, <2>2, <2>3
  <1> QED
    BY <1>2, <1>3, <1>4

(***************************************************************************)
(* A step of one handler that leaves everything else alone keeps the       *)
(* types.                                                                  *)
(***************************************************************************)
LEMMA TypeOfHandlerStep ==
    ASSUME TypeOK, h' \in [Requests -> Handler],
           UNCHANGED <<session, held, calls, ledger, failed, checked, controls, crashes>>,
           saveFailures' \in Nat
    PROVE  TypeOK'
  BY DEF TypeOK

LEMMA TypeHandle ==
    ASSUME TypeOK, NEW r \in Requests, Handle(r) \/ AdapterReturns(r)
    PROVE  TypeOK'
  <1> USE ConstantTypes, KeyType
  <1>0. /\ NoResult \in Result \cup {NoResult}
        /\ h[r] \in Handler /\ h[r].result \in Result \cup {NoResult}
        /\ calls[Key(r)] \in CallRecord
        /\ calls[Key(r)].response \in Result \cup {NoResult}
        /\ saveFailures \in Nat
    BY DEF TypeOK, Handler, CallRecord
  <1>pc. {"admit", "over", "global", "session", "adapter", "recheck", "begin", "enter",
          "inside", "record", "beginFailed", "recordFailed", "stillActive", "answer"}
            \subseteq Pc
    BY DEF Pc, Waiting, Journalled
  <1>1. CASE Authenticate(r) \/ Refuse(r) \/ Replay(r) \/ StillActive(r)
    <2>1. h' \in [Requests -> Handler]
      BY <1>0, <1>1, <1>pc, HandlerSteps DEF Authenticate, Refuse, Replay, StillActive
    <2> QED
      BY <1>0, <1>1, <2>1, TypeOfHandlerStep DEF Authenticate, Refuse, Replay, StillActive
  <1>2. CASE Admit(r)
    <2>1. h' \in [Requests -> Handler]
      BY <1>0, <1>2, <1>pc, HandlerSteps DEF Admit
    <2>2. [owner |-> r, active |-> TRUE, response |-> NoResult] \in CallRecord
      BY DEF CallRecord
    <2>3. calls' \in [Keys -> CallRecord]
      BY <1>2, <2>2 DEF Admit, TypeOK
    <2> QED
      BY <1>2, <2>1, <2>3 DEF Admit, TypeOK
  <1>3. CASE Acquire(r)
    <2>1. After(h[r].pc) \in Pc
      BY <1>3, <1>pc DEF Acquire, After, Waiting
    <2>2. h' \in [Requests -> Handler]
      BY <1>0, <1>3, <2>1 DEF Acquire, TypeOK, Handler
    <2> QED
      BY <1>0, <1>3, <2>2, TypeOfHandlerStep DEF Acquire
  <1>4. CASE GiveUp(r) \/ Recheck(r) \/ Enter(r) \/ AdapterReturns(r)
    <2>1. h' \in [Requests -> Handler]
      BY <1>0, <1>4, <1>pc, HandlerSteps DEF GiveUp, Recheck, Enter, AdapterReturns
    <2> QED
      BY <1>0, <1>4, <2>1, TypeOfHandlerStep DEF GiveUp, Recheck, Enter, AdapterReturns
  <1>5. CASE BeginCall(r)
    <2>1. h' \in [Requests -> Handler]
      BY <1>0, <1>5, <1>pc, HandlerSteps DEF BeginCall
    <2>2. saveFailures' \in Nat
      BY <1>0, <1>5 DEF BeginCall, SaveFails
    <2>3. [state |-> "running", op |-> Op[r]] \in [state: EffectState, op: Ops]
      BY BrokerAssumption DEF EffectState
    <2>4. ledger' \in [Keys -> [state: EffectState, op: Ops]]
      BY <1>5, <2>3 DEF BeginCall, TypeOK
    <2> QED
      BY <1>5, <2>1, <2>2, <2>4 DEF BeginCall, TypeOK
  <1>6. CASE BeginFailed(r) \/ RecordFailed(r)
    <2> DEFINE open == {k \in Keys : session[k[1]].state = "open"}
    <2>1. Cancelled(open) \in [Requests -> Handler]
      BY CancelledKeepsPc
    <2>2. \E pc \in Pc, result \in Result : FailPersistence(r, pc, result)
      BY <1>6, <1>pc DEF BeginFailed, RecordFailed
    <2> DEFINE f == Cancelled(open)
    <2>3. PICK pc \in Pc, result \in Result :
             h' = [f EXCEPT ![r].pc = pc, ![r].result = result]
      BY <2>2 DEF FailPersistence
    <2> HIDE DEF f
    <2>4. h' \in [Requests -> Handler]
      <3> DEFINE g == [f[r] EXCEPT !.pc = pc, !.result = result]
      <3>1. f \in [Requests -> Handler]
        BY <2>1 DEF f
      <3>2. g \in Handler
        BY <3>1 DEF Handler
      <3>3. h' = [f EXCEPT ![r] = g]
        BY <2>3, <3>1
      <3> HIDE DEF g
      <3> QED
        BY <3>1, <3>2, <3>3
    <2> QED
      BY <2>2, <2>4 DEF FailPersistence, TypeOK
  <1>7. CASE FinishCall(r)
    <2>1. FinishState(h[r].result) \in EffectState
      BY DEF FinishState, EffectState, Terminal
    <2>2. ledger' \in [Keys -> [state: EffectState, op: Ops]]
      BY <1>7, <2>1 DEF FinishCall, TypeOK
    <2>3. Bounded(h[r].result) \subseteq Result \cup {NoResult}
      <3>1. CASE h[r].result \in Result
        <4>1. [ok |-> FALSE, effect |-> h[r].result.effect] \in Result
          BY <3>1 DEF Result
        <4> QED
          BY <3>1, <4>1 DEF Bounded
      <3>2. CASE h[r].result = NoResult
        <4>1. [ok |-> FALSE, effect |-> h[r].result.effect] = NoResult
          BY <3>2 DEF NoResult
        <4> QED
          BY <3>2, <4>1 DEF Bounded
      <3> QED
        BY <1>0, <3>1, <3>2
    <2>4. h' \in [Requests -> Handler]
      BY <1>0, <1>7, <1>pc, <2>3, HandlerSteps DEF FinishCall
    <2>5. saveFailures' \in Nat
      BY <1>0, <1>7 DEF FinishCall, SaveFails
    <2> QED
      BY <1>7, <2>2, <2>4, <2>5 DEF FinishCall, TypeOK
  <1>8. CASE Answer(r)
    <2>1. h' \in [Requests -> Handler]
      BY <1>0, <1>8, <1>pc, HandlerSteps DEF Answer
    <2>2. calls' \in [Keys -> CallRecord]
      BY <1>0, <1>8 DEF Answer, TypeOK, CallRecord
    <2> QED
      BY <1>8, <2>1, <2>2 DEF Answer, TypeOK
  <1> QED
    BY <1>1, <1>2, <1>3, <1>4, <1>5, <1>6, <1>7, <1>8 DEF Handle

LEMMA TypeControl ==
    ASSUME TypeOK,
           \/ \E a \in Attempts : BeginAttempt(a) \/ RevokeAttempt(a)
           \/ \E e \in Executions, paused \in BOOLEAN : SetExecutionPaused(e, paused)
           \/ \E r \in Requests : CancelCall(r)
           \/ \E k \in Keys, o \in Terminal : CheckReconcile(k, o) \/ Reconcile(k, o)
           \/ Crash
    PROVE  TypeOK'
  <1>1. CASE \E a \in Attempts : BeginAttempt(a)
    BY <1>1 DEF BeginAttempt, TypeOK, Session
  <1>2. CASE \E a \in Attempts : RevokeAttempt(a)
    <2>1. PICK a \in Attempts : RevokeAttempt(a)
      BY <1>2
    <2>2. h' \in [Requests -> Handler]
      BY <2>1, CancelledKeepsPc DEF RevokeAttempt
    <2>3. session' \in [Attempts -> Session]
      BY <2>1 DEF RevokeAttempt, TypeOK, Session
    <2> QED
      BY <2>1, <2>2, <2>3 DEF RevokeAttempt, TypeOK
  <1>3. CASE \E e \in Executions, paused \in BOOLEAN : SetExecutionPaused(e, paused)
    <2>1. PICK e \in Executions, paused \in BOOLEAN : SetExecutionPaused(e, paused)
      BY <1>3
    <2>2. session' \in [Attempts -> Session]
      BY <2>1 DEF SetExecutionPaused, TypeOK, Session
    <2>3. held' \subseteq Executions
      BY <2>1 DEF SetExecutionPaused, TypeOK
    <2>4. controls' \in Nat
      BY <2>1 DEF SetExecutionPaused, Control, TypeOK
    <2> QED
      BY <2>1, <2>2, <2>3, <2>4 DEF SetExecutionPaused, TypeOK
  <1>4. CASE \E r \in Requests : CancelCall(r)
    <2>1. PICK r \in Requests : CancelCall(r)
      BY <1>4
    <2>2. h' \in [Requests -> Handler]
      BY <2>1, CancelledKeepsPc DEF CancelCall
    <2> QED
      BY <2>1, <2>2 DEF CancelCall, TypeOK
  <1>5. CASE \E k \in Keys, o \in Terminal : CheckReconcile(k, o)
    BY <1>5 DEF CheckReconcile, Control, TypeOK
  <1>6. CASE \E k \in Keys, o \in Terminal : Reconcile(k, o)
    <2>1. PICK k \in Keys, o \in Terminal : Reconcile(k, o)
      BY <1>6
    <2>2. ledger' \in [Keys -> [state: EffectState, op: Ops]]
      BY <2>1 DEF Reconcile, TypeOK, EffectState
    <2>3. checked' \subseteq Keys \X Terminal
      BY <2>1 DEF Reconcile, TypeOK
    <2>4. saveFailures' \in Nat
      BY <2>1 DEF Reconcile, SaveFails, TypeOK
    <2> QED
      BY <2>1, <2>2, <2>3, <2>4 DEF Reconcile, TypeOK
  <1>7. CASE Crash
    <2>1. session' \in [Attempts -> Session]
      BY <1>7 DEF Crash, TypeOK, Session
    <2>2. calls' \in [Keys -> CallRecord]
      BY <1>7, ConstantTypes DEF Crash
    <2>3. ledger' \in [Keys -> [state: EffectState, op: Ops]]
      BY <1>7 DEF Crash, Recovered, TypeOK, EffectState
    <2>4. [pc |-> "over", slots |-> {}, cancelled |-> FALSE, result |-> NoResult] \in Handler
      BY DEF Handler, Pc
    <2>5. h' \in [Requests -> Handler]
      BY <1>7, <2>4 DEF Crash, TypeOK
    <2>6. crashes' \in Nat
      BY <1>7 DEF Crash, TypeOK
    <2>7. checked' = {} /\ failed' = FALSE
      BY <1>7 DEF Crash
    <2> QED
      BY <1>7, <2>1, <2>2, <2>3, <2>5, <2>6, <2>7 DEF Crash, TypeOK
  <1> QED
    BY <1>1, <1>2, <1>3, <1>4, <1>5, <1>6, <1>7

LEMMA TypeStep == TypeOK /\ [Next]_vars => TypeOK'
  <1> SUFFICES ASSUME TypeOK, [Next]_vars PROVE TypeOK'
    OBVIOUS
  <1>1. CASE \E r \in Requests : Handle(r) \/ AdapterReturns(r)
    BY <1>1, TypeHandle
  <1>2. CASE Next /\ ~\E r \in Requests : Handle(r) \/ AdapterReturns(r)
    BY <1>2, TypeControl DEF Next
  <1>3. CASE UNCHANGED vars
    BY <1>3 DEF vars, TypeOK
  <1> QED
    BY <1>1, <1>2, <1>3

(***************************************************************************)
(* Every variable of the broker and the ledger keeps its type.             *)
(***************************************************************************)
THEOREM TypeCorrect == Spec => []TypeOK
  <1>1. Init => TypeOK
    BY TypeInit
  <1>2. TypeOK /\ [Next]_vars => TypeOK'
    BY TypeStep
  <1> QED
    BY <1>1, <1>2, PTL DEF Spec

-----------------------------------------------------------------------------
(* The inductive invariant. *)

(* A handler past its admission owns the record of its call. *)
Owning == Pc \ {"new", "admit", "over"}
Owner == \A r \in Requests : h[r].pc \in Owning => calls[Key(r)].owner = r

(* From the journal's begin to its finish the record is running. *)
Recorded ==
    \A r \in Requests : h[r].pc \in Journalled =>
        ledger[Key(r)] = [state |-> "running", op |-> Op[r]]

(* A reconciliation that has been let through is not about a running call. *)
CheckedKnown ==
    \A k \in Keys, o \in Terminal :
        <<k, o>> \in checked => ledger[k].state \notin {"absent", "running"}

(* Two unresolved records are of operations that are not equivalent. *)
OneUnresolved ==
    \A k \in Keys, l \in Keys :
        (k # l /\ ledger[k].state \in Unresolved /\ ledger[l].state \in Unresolved)
            => ledger[k].op # ledger[l].op

Inv == Owner /\ Recorded /\ CheckedKnown /\ OneUnresolved

(***************************************************************************)
(* What a step may do to one handler while the ledger, the calls and the   *)
(* reconciliations stay as they are.                                       *)
(***************************************************************************)
LEMMA QuietStep ==
    ASSUME TypeOK, Inv, UNCHANGED <<calls, ledger, checked>>,
           \A q \in Requests :
              /\ h'[q].pc \in Owning => h[q].pc \in Owning
              /\ h'[q].pc \in Journalled => h[q].pc \in Journalled
    PROVE  Inv'
  <1>1. Owner'
    BY DEF Inv, Owner, Key
  <1>2. Recorded'
    BY DEF Inv, Recorded, Key
  <1>3. CheckedKnown' /\ OneUnresolved'
    BY DEF Inv, CheckedKnown, OneUnresolved
  <1> QED
    BY <1>1, <1>2, <1>3 DEF Inv

(***************************************************************************)
(* The steps that move one handler and nothing else.                       *)
(***************************************************************************)
LEMMA MovedHandler ==
    ASSUME TypeOK, NEW r \in Requests, NEW pc \in Pc, NEW result \in Result \cup {NoResult},
           Goto(r, pc) \/ Pending(r, pc, result) \/ (Reply(r, result) /\ pc = "over"),
           Inv, UNCHANGED <<calls, ledger, checked>>,
           pc \in Owning => h[r].pc \in Owning,
           pc \in Journalled => h[r].pc \in Journalled
    PROVE  Inv'
  BY HandlerSteps, QuietStep

LEMMA RunningState ==
    ASSUME TypeOK, Inv, NEW r \in Requests, h[r].pc \in Journalled
    PROVE  ledger[Key(r)].state = "running" /\ ledger[Key(r)].op = Op[r]
  <1>1. ledger[Key(r)] = [state |-> "running", op |-> Op[r]]
    BY DEF Inv, Recorded
  <1> QED
    BY <1>1

LEMMA InvHandle ==
    ASSUME TypeOK, Inv, NEW r \in Requests, Handle(r) \/ AdapterReturns(r)
    PROVE  Inv'
  <1> USE ConstantTypes, KeyType
  <1>0. /\ h[r].result \in Result \cup {NoResult}
        /\ calls[Key(r)].response \in Result \cup {NoResult}
    BY DEF TypeOK, Handler, CallRecord
  <1>pc. {"admit", "over", "global", "session", "adapter", "recheck", "begin", "enter",
          "inside", "record", "beginFailed", "recordFailed", "stillActive", "answer"}
            \subseteq Pc
    BY DEF Pc, Waiting, Journalled
  <1>1. CASE Authenticate(r) \/ Refuse(r) \/ Replay(r) \/ StillActive(r)
    BY <1>0, <1>1, <1>pc, MovedHandler
       DEF Authenticate, Refuse, Replay, StillActive, Owning, Journalled
  <1>2. CASE GiveUp(r) \/ Recheck(r) \/ Enter(r) \/ AdapterReturns(r)
    BY <1>0, <1>2, <1>pc, MovedHandler
       DEF GiveUp, Recheck, Enter, AdapterReturns, Owning, Journalled, Waiting
  <1>3. CASE Acquire(r)
    <2>1. After(h[r].pc) \in {"session", "adapter", "recheck"}
      BY <1>3 DEF Acquire, After, Waiting
    <2>2. h[r].pc \in Owning
      BY <1>3, <1>pc DEF Acquire, Owning, Waiting
    <2>3. \A q \in Requests : h'[q].pc = IF q = r THEN After(h[r].pc) ELSE h[q].pc
      BY <1>3 DEF Acquire, TypeOK, Handler
    <2> QED
      BY <1>3, <2>1, <2>2, <2>3, QuietStep DEF Acquire, Journalled
  <1>4. CASE Admit(r)
    <2>1. h'[r].pc = "global" /\ \A q \in Requests \ {r} : h'[q] = h[q]
      BY <1>0, <1>4, <1>pc, HandlerSteps DEF Admit
    <2>2. \A q \in Requests : h[q].pc \in Owning => Key(q) # Key(r)
      BY <1>4, BrokerAssumption DEF Inv, Owner, Admit
    <2>3. calls'[Key(r)].owner = r /\ \A k \in Keys \ {Key(r)} : calls'[k] = calls[k]
      BY <1>4 DEF Admit, TypeOK
    <2>4. Owner'
      BY <2>1, <2>2, <2>3 DEF Inv, Owner, Key
    <2>5. Recorded' /\ CheckedKnown' /\ OneUnresolved'
      BY <1>4, <2>1 DEF Admit, Inv, Recorded, CheckedKnown, OneUnresolved, Journalled, Key
    <2> QED
      BY <2>4, <2>5 DEF Inv
  <1>5. CASE BeginCall(r)
    <2>1. CASE Pending(r, "answer", Refusal) \/ Goto(r, "beginFailed")
      <3>1. CASE UNCHANGED ledger
        BY <1>0, <1>5, <2>1, <3>1, <1>pc, MovedHandler DEF BeginCall, Owning, Journalled
      <3> QED
        BY <1>5, <2>1, <3>1, <1>pc, HandlerSteps DEF BeginCall
    <2>2. CASE /\ Admissible(r)
               /\ ledger' = [ledger EXCEPT ![Key(r)] = [state |-> "running", op |-> Op[r]]]
               /\ Goto(r, "enter")
      <3>1. h'[r].pc = "enter" /\ \A q \in Requests \ {r} : h'[q] = h[q]
        BY <1>0, <2>2, <1>pc, HandlerSteps
      <3>2. /\ ledger'[Key(r)] = [state |-> "running", op |-> Op[r]]
            /\ \A k \in Keys \ {Key(r)} : ledger'[k] = ledger[k]
        BY <2>2 DEF TypeOK
      <3>3. Owner'
        BY <1>5, <3>1, <1>pc DEF BeginCall, Inv, Owner, Owning, Key
      <3>4. \A q \in Requests \ {r} : h[q].pc \in Journalled => Key(q) # Key(r)
        <4>1. \A q \in Requests : h[q].pc \in Journalled => ledger[Key(q)].state = "running"
          BY RunningState
        <4> QED
          BY <2>2, <4>1 DEF Admissible
      <3>5. Recorded'
        BY <3>1, <3>2, <3>4 DEF Inv, Recorded, Key
      <3>6. CheckedKnown'
        BY <1>5, <2>2, <3>2 DEF BeginCall, Admissible, Inv, CheckedKnown
      <3>7. OneUnresolved'
        BY <2>2, <3>2 DEF Admissible, Inv, OneUnresolved
      <3> QED
        BY <3>3, <3>5, <3>6, <3>7 DEF Inv
    <2> QED
      BY <1>5, <2>1, <2>2 DEF BeginCall
  <1>6. CASE BeginFailed(r) \/ RecordFailed(r)
    <2> DEFINE f == Cancelled({k \in Keys : session[k[1]].state = "open"})
    <2>1. /\ f \in [Requests -> Handler]
          /\ \A q \in Requests : f[q].pc = h[q].pc
      BY CancelledKeepsPc
    <2>2. PICK pc \in {"answer", "stillActive"}, result \in Result :
             h' = [f EXCEPT ![r].pc = pc, ![r].result = result]
      BY <1>6 DEF BeginFailed, RecordFailed, FailPersistence
    <2>3. h[r].pc \in Owning /\ UNCHANGED <<calls, ledger, checked>>
      BY <1>6, <1>pc DEF BeginFailed, RecordFailed, FailPersistence, Owning
    <2> HIDE DEF f
    <2>4. \A q \in Requests : h'[q].pc = IF q = r THEN pc ELSE h[q].pc
      BY <2>1, <2>2 DEF Handler
    <2> QED
      BY <2>2, <2>3, <2>4, QuietStep DEF Journalled
  <1>7. CASE FinishCall(r)
    <2>1. CASE UNCHANGED ledger /\ Goto(r, "recordFailed")
      BY <1>0, <1>7, <2>1, <1>pc, MovedHandler DEF FinishCall, Owning, Journalled
    <2>2. CASE /\ ledger' = [ledger EXCEPT ![Key(r)].state = FinishState(h[r].result)]
               /\ \E result \in Bounded(h[r].result) : Pending(r, "stillActive", result)
      <3>1. h'[r].pc = "stillActive" /\ \A q \in Requests \ {r} : h'[q] = h[q]
        BY <2>2 DEF Pending, TypeOK, Handler
      <3>2. /\ ledger'[Key(r)].state \in {"interrupted", "succeeded", "failed"}
            /\ ledger'[Key(r)].op = ledger[Key(r)].op
            /\ \A k \in Keys \ {Key(r)} : ledger'[k] = ledger[k]
        BY <2>2 DEF TypeOK, FinishState
      <3>3. Owner'
        BY <1>7, <3>1, <1>pc DEF FinishCall, Inv, Owner, Owning, Key
      <3>4. h[r].pc \in Owning /\ h[r].pc \in Journalled
        BY <1>7, <1>pc DEF FinishCall, Owning, Journalled
      <3>5. \A q \in Requests : h[q].pc \in Journalled => h[q].pc \in Owning
        BY DEF Journalled, Owning, Pc
      <3>6. \A q \in Requests \ {r} : h[q].pc \in Journalled => Key(q) # Key(r)
        BY <3>4, <3>5 DEF Inv, Owner
      <3>7. Recorded'
        BY <3>1, <3>2, <3>6 DEF Inv, Recorded, Key, Journalled
      <3>8. CheckedKnown'
        BY <1>7, <3>2 DEF FinishCall, Inv, CheckedKnown
      <3>9. ledger[Key(r)].state = "running"
        BY <3>4, RunningState
      <3>10. OneUnresolved'
        BY <3>2, <3>9 DEF Inv, OneUnresolved, Unresolved
      <3> QED
        BY <3>3, <3>7, <3>8, <3>10 DEF Inv
    <2> QED
      BY <1>7, <2>1, <2>2 DEF FinishCall
  <1>8. CASE Answer(r)
    <2>1. h'[r].pc = "over" /\ \A q \in Requests \ {r} : h'[q] = h[q]
      BY <1>0, <1>8, <1>pc, HandlerSteps DEF Answer
    <2>2. \A k \in Keys : calls'[k].owner = calls[k].owner
      BY <1>8 DEF Answer, TypeOK, CallRecord
    <2>3. Owner'
      BY <2>1, <2>2 DEF Inv, Owner, Owning, Key
    <2>4. Recorded' /\ CheckedKnown' /\ OneUnresolved'
      BY <1>8, <2>1 DEF Answer, Inv, Recorded, CheckedKnown, OneUnresolved, Journalled, Key
    <2> QED
      BY <2>3, <2>4 DEF Inv
  <1> QED
    BY <1>1, <1>2, <1>3, <1>4, <1>5, <1>6, <1>7, <1>8 DEF Handle

LEMMA InvControl ==
    ASSUME TypeOK, Inv,
           \/ \E a \in Attempts : BeginAttempt(a) \/ RevokeAttempt(a)
           \/ \E e \in Executions, paused \in BOOLEAN : SetExecutionPaused(e, paused)
           \/ \E r \in Requests : CancelCall(r)
           \/ \E k \in Keys, o \in Terminal : CheckReconcile(k, o) \/ Reconcile(k, o)
           \/ Crash
    PROVE  Inv'
  <1>1. CASE \/ \E a \in Attempts : BeginAttempt(a) \/ RevokeAttempt(a)
             \/ \E e \in Executions, paused \in BOOLEAN : SetExecutionPaused(e, paused)
             \/ \E r \in Requests : CancelCall(r)
    <2>1. \A q \in Requests : h'[q].pc = h[q].pc
      <3>1. h' = h \/ \E K : h' = Cancelled(K)
        BY <1>1 DEF BeginAttempt, RevokeAttempt, SetExecutionPaused, CancelCall
      <3> QED
        BY <3>1, CancelledKeepsPc
    <2>2. UNCHANGED <<calls, ledger, checked>>
      BY <1>1 DEF BeginAttempt, RevokeAttempt, SetExecutionPaused, CancelCall
    <2> QED
      BY <2>1, <2>2, QuietStep
  <1>2. CASE \E k \in Keys, o \in Terminal : CheckReconcile(k, o)
    <2>1. UNCHANGED <<calls, ledger, h>>
      BY <1>2 DEF CheckReconcile
    <2>2. Owner'
      BY <2>1 DEF Inv, Owner, Key
    <2>3. Recorded'
      BY <2>1 DEF Inv, Recorded, Key
    <2>4. OneUnresolved'
      BY <2>1 DEF Inv, OneUnresolved
    <2>5. CheckedKnown'
      BY <1>2 DEF CheckReconcile, Inv, CheckedKnown
    <2> QED
      BY <2>2, <2>3, <2>4, <2>5 DEF Inv
  <1>3. CASE \E k \in Keys, o \in Terminal : Reconcile(k, o)
    <2>1. PICK k \in Keys, o \in Terminal : Reconcile(k, o)
      BY <1>3
    <2>2. ledger[k].state \notin {"absent", "running"}
      BY <2>1 DEF Reconcile, Inv, CheckedKnown
    <2>3. \/ UNCHANGED ledger
          \/ /\ ledger'[k].state = o
             /\ ledger'[k].op = ledger[k].op
             /\ \A l \in Keys \ {k} : ledger'[l] = ledger[l]
      BY <2>1 DEF Reconcile, TypeOK
    <2>4. Owner'
      BY <2>1 DEF Reconcile, Inv, Owner, Key
    <2>5. \A q \in Requests : h[q].pc \in Journalled => Key(q) # k
      BY <2>2, RunningState
    <2>6. Recorded'
      BY <2>1, <2>3, <2>5, KeyType DEF Reconcile, Inv, Recorded, Key
    <2>7. CheckedKnown'
      BY <2>1, <2>3 DEF Reconcile, Inv, CheckedKnown, Terminal
    <2>8. OneUnresolved'
      BY <2>3 DEF Inv, OneUnresolved, Unresolved, Terminal
    <2> QED
      BY <2>4, <2>6, <2>7, <2>8 DEF Inv
  <1>4. CASE Crash
    <2>1. \A q \in Requests : h'[q].pc \in {"new", "over"}
      BY <1>4 DEF Crash
    <2>2. Owner' /\ Recorded'
      BY <2>1 DEF Owner, Recorded, Owning, Journalled
    <2>3. CheckedKnown'
      BY <1>4 DEF Crash, CheckedKnown
    <2>4. \A k \in Keys : /\ ledger'[k].op = ledger[k].op
                          /\ ledger'[k].state \in Unresolved => ledger[k].state \in Unresolved
      BY <1>4 DEF Crash, Recovered, TypeOK, Unresolved
    <2>5. OneUnresolved'
      <3> SUFFICES ASSUME NEW k \in Keys, NEW l \in Keys, k # l,
                          ledger'[k].state \in Unresolved, ledger'[l].state \in Unresolved
                   PROVE  ledger'[k].op # ledger'[l].op
        BY DEF OneUnresolved
      <3>1. ledger[k].state \in Unresolved /\ ledger[l].state \in Unresolved
        BY <2>4
      <3>2. ledger[k].op # ledger[l].op
        BY <3>1 DEF Inv, OneUnresolved
      <3> QED
        BY <2>4, <3>2
    <2> QED
      BY <2>2, <2>3, <2>5 DEF Inv
  <1> QED
    BY <1>1, <1>2, <1>3, <1>4

LEMMA InvInit == Init => Inv
  <1> SUFFICES ASSUME Init PROVE Inv
    OBVIOUS
  <1>1. Owner /\ Recorded
    BY DEF Init, Owner, Recorded, Owning, Journalled
  <1>2. checked = {} /\ \A k \in Keys : ledger[k].state = "absent"
    BY DEF Init
  <1>3. CheckedKnown
    BY <1>2 DEF CheckedKnown
  <1>4. OneUnresolved
    BY <1>2 DEF OneUnresolved, Unresolved
  <1> QED
    BY <1>1, <1>3, <1>4 DEF Inv

LEMMA InvStep == TypeOK /\ Inv /\ [Next]_vars => Inv'
  <1> SUFFICES ASSUME TypeOK, Inv, [Next]_vars PROVE Inv'
    OBVIOUS
  <1>1. CASE \E r \in Requests : Handle(r) \/ AdapterReturns(r)
    BY <1>1, InvHandle
  <1>2. CASE Next /\ ~\E r \in Requests : Handle(r) \/ AdapterReturns(r)
    BY <1>2, InvControl DEF Next
  <1>3. CASE UNCHANGED vars
    BY <1>3, QuietStep DEF vars
  <1> QED
    BY <1>1, <1>2, <1>3

LEMMA Invariance == Spec => [](TypeOK /\ Inv)
  <1>1. Init => TypeOK /\ Inv
    BY TypeInit, InvInit
  <1>2. TypeOK /\ Inv /\ [Next]_vars => (TypeOK /\ Inv)'
    BY TypeStep, InvStep
  <1> QED
    BY <1>1, <1>2, PTL DEF Spec

(***************************************************************************)
(* Whenever a call is inside its adapter the ledger holds its running      *)
(* record, and no equivalent call is unresolved (handleCall, BeginCall).   *)
(***************************************************************************)
THEOREM EntryRecorded == Spec => []EntryIsRecorded
  <1>1. TypeOK /\ Inv => EntryIsRecorded
    <2> SUFFICES ASSUME TypeOK, Inv, NEW r \in Requests, h[r].pc = "inside"
                 PROVE  /\ ledger[Key(r)] = [state |-> "running", op |-> Op[r]]
                        /\ \A k \in Keys \ {Key(r)} :
                              ledger[k].op = Op[r] => ledger[k].state \notin Unresolved
      BY DEF EntryIsRecorded
    <2>1. h[r].pc \in Journalled
      BY DEF Journalled
    <2>2. ledger[Key(r)] = [state |-> "running", op |-> Op[r]]
      BY <2>1 DEF Inv, Recorded
    <2>3. ledger[Key(r)].state \in Unresolved /\ ledger[Key(r)].op = Op[r]
      BY <2>1, RunningState DEF Unresolved
    <2>4. \A k \in Keys \ {Key(r)} :
             ledger[k].op = Op[r] => ledger[k].state \notin Unresolved
      BY <2>3, KeyType DEF Inv, OneUnresolved
    <2> QED
      BY <2>2, <2>4
  <1> QED
    BY <1>1, Invariance, PTL

-----------------------------------------------------------------------------
(* The ledger's steps. *)

(***************************************************************************)
(* A step leaves the ledger alone, begins one call, or changes one         *)
(* unresolved record.                                                      *)
(***************************************************************************)
Begun(r) ==
    /\ Admissible(r)
    /\ ledger'[Key(r)] = [state |-> "running", op |-> Op[r]]
    /\ \A k \in Keys \ {Key(r)} : ledger'[k] = ledger[k]

Settled(k) ==
    /\ ledger[k].state \in Unresolved
    /\ ledger'[k].state \in Terminal \cup {"interrupted"}
    /\ ledger'[k].op = ledger[k].op
    /\ \A l \in Keys \ {k} : ledger'[l] = ledger[l]

Interrupted ==
    \A k \in Keys :
        /\ ledger'[k].op = ledger[k].op
        /\ IF ledger[k].state = "running" THEN ledger'[k].state = "interrupted"
           ELSE ledger'[k].state = ledger[k].state

LEMMA LedgerSteps ==
    ASSUME TypeOK, Inv, [Next]_vars
    PROVE  \/ UNCHANGED ledger
           \/ \E r \in Requests : Begun(r)
           \/ \E k \in Keys : Settled(k)
           \/ Interrupted
  <1>1. CASE \E r \in Requests : Handle(r) \/ AdapterReturns(r)
    <2>1. PICK r \in Requests : Handle(r) \/ AdapterReturns(r)
      BY <1>1
    <2>2. CASE BeginCall(r)
      BY <2>2, KeyType DEF BeginCall, Begun, TypeOK
    <2>3. CASE FinishCall(r)
      <3>1. CASE UNCHANGED ledger
        BY <3>1
      <3>2. CASE /\ Finishable(Key(r))
                 /\ ledger' = [ledger EXCEPT ![Key(r)].state = FinishState(h[r].result)]
        <4>1. FinishState(h[r].result) \in Terminal \cup {"interrupted"}
          BY DEF FinishState, Terminal
        <4> QED
          BY <3>2, <4>1, KeyType DEF Settled, Finishable, TypeOK
      <3> QED
        BY <2>3, <3>1, <3>2 DEF FinishCall
    <2>4. CASE BeginFailed(r) \/ RecordFailed(r)
      BY <2>4 DEF BeginFailed, RecordFailed, FailPersistence
    <2>5. CASE \/ Authenticate(r) \/ Refuse(r) \/ Replay(r) \/ Admit(r) \/ Acquire(r)
               \/ GiveUp(r) \/ Recheck(r) \/ Enter(r) \/ StillActive(r) \/ Answer(r)
               \/ AdapterReturns(r)
      BY <2>5 DEF Authenticate, Refuse, Replay, Admit, Acquire, GiveUp, Recheck, Enter,
                  StillActive, Answer, AdapterReturns
    <2> QED
      BY <2>1, <2>2, <2>3, <2>4, <2>5 DEF Handle
  <1>2. CASE \E k \in Keys, o \in Terminal : Reconcile(k, o)
    <2>1. PICK k \in Keys, o \in Terminal : Reconcile(k, o)
      BY <1>2
    <2>2. CASE UNCHANGED ledger
      BY <2>2
    <2>3. CASE Finishable(k) /\ ledger' = [ledger EXCEPT ![k].state = o]
      BY <2>3 DEF Settled, Finishable, TypeOK
    <2> QED
      BY <2>1, <2>2, <2>3 DEF Reconcile
  <1>3. CASE Crash
    BY <1>3 DEF Crash, Recovered, Interrupted, TypeOK
  <1>4. CASE \/ \E a \in Attempts : BeginAttempt(a) \/ RevokeAttempt(a)
             \/ \E e \in Executions, paused \in BOOLEAN : SetExecutionPaused(e, paused)
             \/ \E r \in Requests : CancelCall(r)
             \/ \E k \in Keys, o \in Terminal : CheckReconcile(k, o)
             \/ UNCHANGED vars
    BY <1>4 DEF BeginAttempt, RevokeAttempt, SetExecutionPaused, CancelCall,
                CheckReconcile, vars
  <1> QED
    BY <1>1, <1>2, <1>3, <1>4 DEF Next

(***************************************************************************)
(* A terminal effect record never changes, and an interrupted one never    *)
(* runs again (Finish, Reconcile, FinishCall).                             *)
(***************************************************************************)
THEOREM LedgerForward == Spec => LedgerMovesForward
  <1> DEFINE Forward ==
        \A k \in Keys :
          /\ ledger[k].state \in Terminal => ledger'[k] = ledger[k]
          /\ ledger[k].state = "interrupted" => ledger'[k].state # "running"
  <1>1. TypeOK /\ Inv /\ [Next]_vars => Forward
    <2> SUFFICES ASSUME TypeOK, Inv, [Next]_vars PROVE Forward
      OBVIOUS
    <2>1. CASE UNCHANGED ledger
      BY <2>1
    <2>2. CASE \E r \in Requests : Begun(r)
      BY <2>2 DEF Begun, Admissible, Terminal
    <2>3. CASE \E k \in Keys : Settled(k)
      BY <2>3 DEF Settled, Unresolved, Terminal
    <2>4. CASE Interrupted
      <3>1. TypeOK'
        BY TypeStep
      <3> SUFFICES ASSUME NEW k \in Keys
                   PROVE  /\ ledger[k].state \in Terminal => ledger'[k] = ledger[k]
                          /\ ledger[k].state = "interrupted" => ledger'[k].state # "running"
        OBVIOUS
      <3>2. /\ ledger[k] = [state |-> ledger[k].state, op |-> ledger[k].op]
            /\ ledger'[k] = [state |-> ledger'[k].state, op |-> ledger'[k].op]
        BY <3>1 DEF TypeOK
      <3> QED
        BY <2>4, <3>2 DEF Interrupted, Terminal
    <2> QED
      BY <2>1, <2>2, <2>3, <2>4, LedgerSteps
  <1>2. TypeOK /\ Inv /\ [Next]_vars => [Forward]_vars
    BY <1>1
  <1> QED
    BY <1>2, Invariance, PTL DEF Spec, LedgerMovesForward

(***************************************************************************)
(* The ledger keeps the promise of module EffectIntents: of equivalent     *)
(* operations at most one is unresolved, and no identity is begun twice,   *)
(* across failed saves and restarts.                                       *)
(***************************************************************************)
THEOREM IntentsImplemented == Spec => IntentSpec
  <1>1. Init => Intents!Init
    <2> SUFFICES ASSUME Init PROVE Intents!Init
      OBVIOUS
    <2>1. \A k \in Keys : ledger[k].state = "absent"
      BY DEF Init
    <2> QED
      BY <2>1 DEF Intents!Init, unresolved, used, Unresolved
  <1>2. TypeOK /\ Inv /\ [Next]_vars => [Intents!Next]_<<unresolved, used>>
    <2> SUFFICES ASSUME TypeOK, Inv, [Next]_vars
                 PROVE  Intents!Next \/ UNCHANGED <<unresolved, used>>
      OBVIOUS
    <2>1. CASE UNCHANGED ledger
      BY <2>1 DEF unresolved, used
    <2>2. CASE \E r \in Requests : Begun(r)
      <3>1. PICK r \in Requests : Begun(r)
        BY <2>2
      <3>2. Op[r] \in Ops /\ Key(r) \in Keys
        BY BrokerAssumption, KeyType
      <3>3. unresolved[Op[r]] = {} /\ Key(r) \notin used
        BY <3>1, <3>2 DEF Begun, Admissible, unresolved, used
      <3>4. unresolved' = [unresolved EXCEPT ![Op[r]] = {Key(r)}]
        <4>1. /\ ledger'[Key(r)].op = Op[r]
              /\ ledger'[Key(r)].state = "running"
          BY <3>1 DEF Begun
        <4>2. /\ ledger[Key(r)].state = "absent"
              /\ \A k \in Keys : ledger[k].op = Op[r] => ledger[k].state \notin Unresolved
          BY <3>1 DEF Begun, Admissible
        <4>3. {k \in Keys : ledger'[k].op = Op[r] /\ ledger'[k].state \in Unresolved} = {Key(r)}
          BY <3>1, <3>2, <4>1, <4>2 DEF Begun, Unresolved
        <4>4. \A o \in Ops \ {Op[r]} :
                 {k \in Keys : ledger'[k].op = o /\ ledger'[k].state \in Unresolved}
                   = {k \in Keys : ledger[k].op = o /\ ledger[k].state \in Unresolved}
          BY <3>1, <3>2, <4>1, <4>2 DEF Begun, Unresolved
        <4> QED
          BY <3>2, <4>3, <4>4 DEF unresolved
      <3>5. used' = used \cup {Key(r)}
        BY <3>1, <3>2 DEF Begun, used
      <3>6. Intents!Begin(Op[r], Key(r))
        BY <3>3, <3>4, <3>5 DEF Intents!Begin
      <3> QED
        BY <3>2, <3>6 DEF Intents!Next
    <2>3. CASE \E k \in Keys : Settled(k)
      <3>1. PICK k \in Keys : Settled(k)
        BY <2>3
      <3>2. ledger[k].op \in Ops
        BY DEF TypeOK
      <3>3. UNCHANGED used
        BY <3>1 DEF Settled, used, Unresolved, Terminal
      <3>4. CASE ledger'[k].state = "interrupted"
        <4>1. UNCHANGED unresolved
          BY <3>1, <3>4 DEF Settled, unresolved, Unresolved
        <4> QED
          BY <3>3, <4>1
      <3>5. CASE ledger'[k].state \in Terminal
        <4>1. k \in unresolved[ledger[k].op]
          BY <3>1, <3>2 DEF Settled, unresolved
        <4>2. unresolved' = [unresolved EXCEPT ![ledger[k].op] = @ \ {k}]
          <5>0. ledger'[k].state \notin Unresolved
            BY <3>1, <3>5 DEF Settled, Unresolved, Terminal
          <5>1. \A l \in Keys \ {k} : ledger'[l] = ledger[l]
            BY <3>1 DEF Settled
          <5>2. ASSUME NEW o \in Ops
                PROVE  {l \in Keys : ledger'[l].op = o /\ ledger'[l].state \in Unresolved}
                          = {l \in Keys : ledger[l].op = o /\ ledger[l].state \in Unresolved} \ {k}
            <6>1. ASSUME NEW l \in Keys, l # k
                  PROVE  (ledger'[l].op = o /\ ledger'[l].state \in Unresolved)
                            <=> (ledger[l].op = o /\ ledger[l].state \in Unresolved)
              BY <5>1, <6>1
            <6> QED
              BY <5>0, <6>1, Zenon
          <5>3. \A o \in Ops \ {ledger[k].op} :
                   k \notin {l \in Keys : ledger[l].op = o /\ ledger[l].state \in Unresolved}
            OBVIOUS
          <5> DEFINE of == [o \in Ops |-> {l \in Keys : ledger[l].op = o
                                                     /\ ledger[l].state \in Unresolved}]
          <5>4. unresolved = of /\ unresolved' = [o \in Ops |-> of[o] \ {k}]
            BY <5>2 DEF unresolved
          <5>5. \A o \in Ops \ {ledger[k].op} : of[o] \ {k} = of[o]
            BY <5>3
          <5>6. [of EXCEPT ![ledger[k].op] = @ \ {k}]
                   = [o \in Ops |-> IF o = ledger[k].op THEN of[o] \ {k} ELSE of[o]]
            OBVIOUS
          <5> HIDE DEF of
          <5>7. \A o \in Ops : of[o] \ {k} = IF o = ledger[k].op THEN of[o] \ {k} ELSE of[o]
            BY <5>5
          <5>8. [o \in Ops |-> of[o] \ {k}] = [of EXCEPT ![ledger[k].op] = @ \ {k}]
            BY <5>6, <5>7
          <5> QED
            BY <5>4, <5>8
        <4>3. Intents!Resolve(ledger[k].op, k)
          BY <3>3, <4>1, <4>2 DEF Intents!Resolve
        <4> QED
          BY <3>2, <4>3 DEF Intents!Next
      <3> QED
        BY <3>1, <3>4, <3>5 DEF Settled
    <2>4. CASE Interrupted
      <3>1. \A k \in Keys : /\ ledger'[k].op = ledger[k].op
                            /\ ledger'[k].state \in Unresolved <=> ledger[k].state \in Unresolved
                            /\ ledger'[k].state = "absent" <=> ledger[k].state = "absent"
        BY <2>4 DEF Interrupted, Unresolved
      <3> QED
        BY <3>1 DEF unresolved, used
    <2> QED
      BY <2>1, <2>2, <2>3, <2>4, LedgerSteps
  <1> QED
    BY <1>1, <1>2, Invariance, PTL DEF Spec, IntentSpec, Intents!Spec

-----------------------------------------------------------------------------
(* The rules of a call.  Their invariant, beside Inv: a handler past its    *)
(* first look belongs to an attempt that was opened, and past its admission *)
(* its call is active; one that may still enter has its context cancelled,  *)
(* or belongs to an open attempt of a broker whose saves have succeeded;    *)
(* and what a handler answers, or keeps for a replay, is recorded.          *)
Opened == \A r \in Requests : h[r].pc # "new" => session[Att[r]].state # "none"
Active == \A r \in Requests : h[r].pc \in Owning => calls[Key(r)].active
InTime == \A r \in Requests : h[r].pc \in {"begin", "enter"} =>
              h[r].cancelled \/ (~failed /\ session[Att[r]].state = "open")

Committed(result, record) ==
    result.ok => IF result.effect = "no_effect" THEN record.state = "succeeded"
                 ELSE record.state \in Terminal \cup {"interrupted"}
Closing == {"stillActive", "answer", "over"}
Answers ==
    /\ \A r \in Requests : h[r].pc \in Closing => Committed(h[r].result, ledger[Key(r)])
    /\ \A k \in Keys : Committed(calls[k].response, ledger[k])

CallInv == Opened /\ Active /\ InTime /\ Answers
(***************************************************************************)
(* What a step of one handler does to it and to the others.                *)
(***************************************************************************)
LEMMA HandlerMoves ==
    ASSUME TypeOK, NEW r \in Requests, NEW pc, NEW result
    PROVE  /\ Goto(r, pc) => /\ h'[r] = [h[r] EXCEPT !.pc = pc]
                             /\ \A q \in Requests \ {r} : h'[q] = h[q]
           /\ Pending(r, pc, result) => /\ h'[r] = [h[r] EXCEPT !.pc = pc, !.result = result]
                                        /\ \A q \in Requests \ {r} : h'[q] = h[q]
           /\ Reply(r, result) => /\ h'[r] = [pc |-> "over", slots |-> {},
                                              cancelled |-> FALSE, result |-> result]
                                  /\ \A q \in Requests \ {r} : h'[q] = h[q]
  BY DEF TypeOK, Goto, Pending, Reply

LEMMA CancelledEffect ==
    ASSUME TypeOK, NEW K, NEW q \in Requests
    PROVE  /\ Cancelled(K)[q].pc = h[q].pc
           /\ Cancelled(K)[q].result = h[q].result
           /\ Cancelled(K)[q].slots = h[q].slots
           /\ h[q].cancelled => Cancelled(K)[q].cancelled
           /\ Owned(q) /\ Key(q) \in K /\ h[q].pc \in Looking => Cancelled(K)[q].cancelled
  <1>1. h[q] \in Handler
    BY DEF TypeOK
  <1>2. Cancelled(K)[q] = IF Owned(q) /\ Key(q) \in K /\ h[q].pc \in Looking
                          THEN [h[q] EXCEPT !.cancelled = TRUE] ELSE h[q]
    BY DEF Cancelled
  <1> QED
    BY <1>1, <1>2 DEF Handler

(***************************************************************************)
(* A failed save cancels the other calls and moves its own handler.        *)
(***************************************************************************)
LEMMA FailureEffect ==
    ASSUME TypeOK, NEW r \in Requests, BeginFailed(r) \/ RecordFailed(r)
    PROVE  /\ failed' = TRUE
           /\ UNCHANGED <<session, held, calls, ledger, checked>>
           /\ h[r].pc \in {"beginFailed", "recordFailed"}
           /\ h'[r].pc \in {"answer", "stillActive"}
           /\ h'[r].result \in {Refusal, Uncommitted}
           /\ h'[r].slots = h[r].slots
           /\ \A q \in Requests \ {r} :
                 h'[q] = Cancelled({k \in Keys : session[k[1]].state = "open"})[q]
  <1> DEFINE f == Cancelled({k \in Keys : session[k[1]].state = "open"})
  <1>1. f \in [Requests -> Handler]
    BY CancelledKeepsPc
  <1>2. f[r].slots = h[r].slots
    BY CancelledEffect
  <1>3. PICK pc \in {"answer", "stillActive"}, result \in {Refusal, Uncommitted} :
           h' = [f EXCEPT ![r].pc = pc, ![r].result = result]
    BY DEF BeginFailed, RecordFailed, FailPersistence
  <1>4. /\ failed' = TRUE
        /\ UNCHANGED <<session, held, calls, ledger, checked>>
        /\ h[r].pc \in {"beginFailed", "recordFailed"}
    BY DEF BeginFailed, RecordFailed, FailPersistence
  <1> HIDE DEF f
  <1>5. h'[r] = [f[r] EXCEPT !.pc = pc, !.result = result]
    BY <1>1, <1>3
  <1>6. f[r] \in Handler
    BY <1>1
  <1>7. h'[r].pc = pc /\ h'[r].result = result /\ h'[r].slots = f[r].slots
    BY <1>5, <1>6 DEF Handler
  <1>8. \A q \in Requests \ {r} : h'[q] = f[q]
    BY <1>1, <1>3
  <1> QED
    BY <1>2, <1>3, <1>4, <1>7, <1>8 DEF f

(***************************************************************************)
(* The other handlers keep their place, and their context at most ends.    *)
(***************************************************************************)
LEMMA OthersKeep ==
    ASSUME TypeOK, NEW r \in Requests, Handle(r) \/ AdapterReturns(r)
    PROVE  /\ UNCHANGED session
           /\ \A q \in Requests \ {r} :
                 /\ h'[q].pc = h[q].pc
                 /\ h'[q].result = h[q].result
                 /\ h'[q].slots = h[q].slots
                 /\ h[q].cancelled => h'[q].cancelled
  <1>1. CASE BeginFailed(r) \/ RecordFailed(r)
    <2> DEFINE K == {k \in Keys : session[k[1]].state = "open"}
    <2>1. UNCHANGED session /\ \A q \in Requests \ {r} : h'[q] = Cancelled(K)[q]
      BY <1>1, FailureEffect
    <2> HIDE DEF K
    <2>2. \A q \in Requests :
             /\ Cancelled(K)[q].pc = h[q].pc
             /\ Cancelled(K)[q].result = h[q].result
             /\ Cancelled(K)[q].slots = h[q].slots
             /\ h[q].cancelled => Cancelled(K)[q].cancelled
      BY CancelledEffect
    <2> QED
      BY <2>1, <2>2
  <1>2. CASE Acquire(r)
    <2>1. UNCHANGED session /\ \A q \in Requests \ {r} : h'[q] = h[q]
      BY <1>2 DEF Acquire, TypeOK
    <2> QED
      BY <2>1
  <1>3. CASE \/ Authenticate(r) \/ Refuse(r) \/ Replay(r) \/ Admit(r)
             \/ GiveUp(r) \/ Recheck(r) \/ BeginCall(r) \/ Enter(r)
             \/ FinishCall(r) \/ StillActive(r) \/ Answer(r) \/ AdapterReturns(r)
    <2>1. UNCHANGED session
      BY <1>3 DEF Authenticate, Refuse, Replay, Admit, GiveUp, Recheck, BeginCall, Enter,
                  FinishCall, StillActive, Answer, AdapterReturns
    <2>2. \/ \E pc : Goto(r, pc)
          \/ \E pc, result : Pending(r, pc, result)
          \/ \E result : Reply(r, result)
      BY <1>3 DEF Authenticate, Refuse, Replay, Admit, GiveUp, Recheck, BeginCall, Enter,
                  FinishCall, StillActive, Answer, AdapterReturns
    <2> QED
      BY <2>1, <2>2, HandlerMoves
  <1> QED
    BY <1>1, <1>2, <1>3 DEF Handle

Controlled ==
    \/ \E a \in Attempts : BeginAttempt(a) \/ RevokeAttempt(a)
    \/ \E e \in Executions, paused \in BOOLEAN : SetExecutionPaused(e, paused)
    \/ \E r \in Requests : CancelCall(r)
    \/ \E k \in Keys, o \in Terminal : CheckReconcile(k, o) \/ Reconcile(k, o)
    \/ UNCHANGED vars

(***************************************************************************)
(* The steps that are not a handler's move no handler, but for a crash,    *)
(* which ends them all.                                                    *)
(***************************************************************************)
LEMMA ControlKeeps ==
    ASSUME TypeOK,
           Controlled
    PROVE  /\ UNCHANGED <<calls, failed>>
           /\ \A q \in Requests : /\ h'[q].pc = h[q].pc
                                  /\ h'[q].result = h[q].result
                                  /\ h'[q].slots = h[q].slots
                                  /\ h[q].cancelled => h'[q].cancelled
  <1>1. UNCHANGED <<calls, failed>>
    BY DEF Controlled, BeginAttempt, RevokeAttempt, SetExecutionPaused, CancelCall,
           CheckReconcile, Reconcile, vars
  <1>2. h' = h \/ \E K : h' = Cancelled(K)
    BY DEF Controlled, BeginAttempt, RevokeAttempt, SetExecutionPaused, CancelCall,
           CheckReconcile, Reconcile, vars
  <1> QED
    BY <1>1, <1>2, CancelledEffect

LEMMA CrashEnds ==
    ASSUME TypeOK, Crash, NEW q \in Requests
    PROVE  /\ h'[q].pc \in {"new", "over"}
           /\ h'[q].pc = "new" <=> h[q].pc = "new"
           /\ h'[q].slots \subseteq h[q].slots
           /\ h'[q] = h[q] \/ h'[q].result = NoResult
  <1>1. h'[q] = IF h[q].pc \in {"new", "over"} THEN h[q]
                ELSE [pc |-> "over", slots |-> {}, cancelled |-> FALSE, result |-> NoResult]
    BY DEF Crash
  <1> QED
    BY <1>1

LEMMA NextSplit ==
    ASSUME [Next]_vars
    PROVE  \/ \E r \in Requests : Handle(r) \/ AdapterReturns(r)
           \/ Controlled
           \/ Crash
  BY DEF Next, Controlled

-----------------------------------------------------------------------------
LEMMA OpenedStep ==
    ASSUME TypeOK, Opened, [Next]_vars
    PROVE  Opened'
  <1>1. \A a \in Attempts : session[a].state # "none" => session'[a].state # "none"
    <2>1. CASE \E r \in Requests : Handle(r) \/ AdapterReturns(r)
      BY <2>1, OthersKeep
    <2>2. CASE \E a \in Attempts : BeginAttempt(a) \/ RevokeAttempt(a)
      BY <2>2 DEF BeginAttempt, RevokeAttempt, TypeOK
    <2>3. CASE \E e \in Executions, paused \in BOOLEAN : SetExecutionPaused(e, paused)
      BY <2>3 DEF SetExecutionPaused, TypeOK, Session
    <2>4. CASE Crash
      BY <2>4 DEF Crash
    <2>5. CASE \/ \E r \in Requests : CancelCall(r)
               \/ \E k \in Keys, o \in Terminal : CheckReconcile(k, o) \/ Reconcile(k, o)
               \/ UNCHANGED vars
      BY <2>5 DEF CancelCall, CheckReconcile, Reconcile, vars
    <2> QED
      BY <2>1, <2>2, <2>3, <2>4, <2>5, NextSplit DEF Controlled
  <1>2. \A q \in Requests : h'[q].pc # "new" =>
           h[q].pc # "new" \/ session[Att[q]].state # "none"
    <2>1. CASE \E r \in Requests : Handle(r) \/ AdapterReturns(r)
      <3>1. PICK r \in Requests : Handle(r) \/ AdapterReturns(r)
        BY <2>1
      <3>2. h[r].pc = "new" => Authenticate(r)
        BY <3>1 DEF Handle, AdapterReturns, Refuse, Replay, Admit, Acquire, GiveUp, Recheck,
                    BeginCall, BeginFailed, Enter, FinishCall, RecordFailed, StillActive,
                    Answer, Waiting
      <3>3. h[r].pc = "new" => session[Att[r]].state # "none"
        BY <3>2 DEF Authenticate
      <3> QED
        BY <3>1, <3>3, OthersKeep
    <2>2. CASE Crash
      BY <2>2, CrashEnds
    <2>3. CASE Controlled
      BY <2>3, ControlKeeps
    <2> QED
      BY <2>1, <2>2, <2>3, NextSplit
  <1> QED
    BY <1>1, <1>2, BrokerAssumption DEF Opened

(***************************************************************************)
(* A handler comes to own its call by its admission only, and gives it up  *)
(* by returning.                                                           *)
(***************************************************************************)
LEMMA OwningMoves ==
    ASSUME TypeOK, NEW r \in Requests, Handle(r) \/ AdapterReturns(r)
    PROVE  /\ h'[r].pc \in Owning => h[r].pc \in Owning \/ Admit(r)
           /\ Admit(r) \/ Answer(r) \/ UNCHANGED calls
  <1>1. h[r].pc \in Owning \/ h[r].pc \in {"new", "admit", "over"}
    BY DEF TypeOK, Handler, Owning
  <1>2. h[r].pc \in {"new", "admit", "over"} =>
           Authenticate(r) \/ Refuse(r) \/ Replay(r) \/ Admit(r)
    BY DEF Handle, AdapterReturns, Acquire, GiveUp, Recheck, BeginCall, BeginFailed, Enter,
           FinishCall, RecordFailed, StillActive, Answer, Waiting
  <1>3. Authenticate(r) \/ Refuse(r) \/ Replay(r) => h'[r].pc \in {"admit", "over"}
    <2>1. Authenticate(r) \/ Refuse(r) \/ Replay(r) =>
             Goto(r, "admit") \/ \E result : Reply(r, result)
      BY DEF Authenticate, Refuse, Replay
    <2>2. \A result : Reply(r, result) => h'[r].pc = "over"
      BY DEF Reply, TypeOK
    <2>3. Goto(r, "admit") => h'[r].pc = "admit"
      BY DEF Goto, TypeOK, Handler
    <2> QED
      BY <2>1, <2>2, <2>3
  <1>4. Admit(r) \/ Answer(r) \/ UNCHANGED calls
    BY DEF Handle, AdapterReturns, Authenticate, Refuse, Replay, Acquire, GiveUp, Recheck,
           BeginCall, BeginFailed, Enter, FinishCall, RecordFailed, FailPersistence,
           StillActive
  <1> QED
    BY <1>1, <1>2, <1>3, <1>4 DEF Owning

LEMMA ActiveStep ==
    ASSUME TypeOK, Inv, Active, [Next]_vars
    PROVE  Active'
  <1> SUFFICES ASSUME NEW q \in Requests, h'[q].pc \in Owning
               PROVE  calls'[Key(q)].active
    BY DEF Active, Key
  <1>1. CASE \E r \in Requests : Handle(r) \/ AdapterReturns(r)
    <2>1. PICK r \in Requests : Handle(r) \/ AdapterReturns(r)
      BY <1>1
    <2>2. q = r \/ (h'[q].pc = h[q].pc /\ h[q].pc \in Owning)
      BY <2>1, OthersKeep
    <2>3. CASE Admit(r)
      <3>1. calls[Key(r)].owner = NoRequest
        BY <2>3 DEF Admit
      <3>2. q = r \/ Key(q) # Key(r)
        BY <2>2, <3>1, BrokerAssumption DEF Inv, Owner
      <3>3. calls'[Key(r)].active /\ \A k \in Keys \ {Key(r)} : calls'[k] = calls[k]
        BY <2>3, KeyType DEF Admit, TypeOK
      <3> QED
        BY <2>2, <3>2, <3>3, KeyType DEF Active
    <2>4. CASE Answer(r)
      <3>1. h'[r].pc = "over"
        BY <2>4 DEF Answer, Reply, TypeOK
      <3>2. q # r /\ h[q].pc \in Owning
        BY <2>2, <3>1 DEF Owning
      <3>3. h[r].pc \in Owning
        BY <2>4 DEF Answer, Owning, Pc
      <3>4. Key(q) # Key(r)
        BY <3>2, <3>3 DEF Inv, Owner
      <3>5. calls'[Key(q)] = calls[Key(q)]
        BY <2>4, <3>4, KeyType DEF Answer, TypeOK
      <3> QED
        BY <3>2, <3>5 DEF Active
    <2>5. CASE UNCHANGED calls /\ ~Admit(r)
      <3>1. h[q].pc \in Owning
        BY <2>1, <2>2, <2>5, OwningMoves
      <3> QED
        BY <2>5, <3>1 DEF Active
    <2> QED
      BY <2>1, <2>3, <2>4, <2>5, OwningMoves
  <1>2. CASE Controlled
    <2>1. calls' = calls /\ h'[q].pc = h[q].pc
      BY <1>2, ControlKeeps
    <2> QED
      BY <2>1 DEF Active
  <1>3. CASE Crash
    BY <1>3, CrashEnds DEF Owning
  <1> QED
    BY <1>1, <1>2, <1>3, NextSplit

(***************************************************************************)
(* A handler comes to the journal through its second look, and to the      *)
(* adapter's door through the journal.                                     *)
(***************************************************************************)
LEMMA DoorMoves ==
    ASSUME TypeOK, NEW r \in Requests, Handle(r) \/ AdapterReturns(r),
           h'[r].pc \in {"begin", "enter"}
    PROVE  /\ UNCHANGED <<failed, session>>
           /\ \/ h[r].pc = "begin" /\ h'[r].cancelled = h[r].cancelled
              \/ ~Blocked(r) /\ h[r].pc = "recheck"
  <1>0. h[r] \in Handler
    BY DEF TypeOK
  <1>1. ~(BeginFailed(r) \/ RecordFailed(r))
    BY FailureEffect
  <1>2. ~Acquire(r)
    <2>1. Acquire(r) => h'[r].pc \in {"session", "adapter", "recheck"}
      BY <1>0 DEF Acquire, After, Waiting, TypeOK, Handler
    <2> QED
      BY <2>1
  <1>3. ~(Authenticate(r) \/ Refuse(r) \/ Replay(r) \/ Admit(r) \/ GiveUp(r) \/ Enter(r)
            \/ AdapterReturns(r) \/ FinishCall(r) \/ StillActive(r) \/ Answer(r))
    <2>1. ASSUME Authenticate(r) \/ Refuse(r) \/ Replay(r) \/ Admit(r) \/ GiveUp(r) \/ Enter(r)
                   \/ AdapterReturns(r) \/ FinishCall(r) \/ StillActive(r) \/ Answer(r)
          PROVE  \/ \E pc \in {"admit", "global", "inside", "recordFailed", "answer"} : Goto(r, pc)
                 \/ \E pc \in {"answer", "record", "stillActive"} : \E result : Pending(r, pc, result)
                 \/ \E result : Reply(r, result)
      BY <2>1 DEF Authenticate, Refuse, Replay, Admit, GiveUp, Enter, AdapterReturns,
                  FinishCall, StillActive, Answer
    <2>2. \A pc : Goto(r, pc) => h'[r].pc = pc
      BY <1>0 DEF Goto, TypeOK, Handler
    <2>3. \A pc, result : Pending(r, pc, result) => h'[r].pc = pc
      BY <1>0 DEF Pending, TypeOK, Handler
    <2>4. \A result : Reply(r, result) => h'[r].pc = "over"
      BY <1>0 DEF Reply, TypeOK
    <2> QED
      BY <2>1, <2>2, <2>3, <2>4
  <1>4. CASE BeginCall(r)
    <2>1. \/ Goto(r, "enter")
          \/ Goto(r, "beginFailed") \/ Pending(r, "answer", Refusal)
      BY <1>4 DEF BeginCall
    <2>2. Goto(r, "enter") => h'[r].cancelled = h[r].cancelled
      BY <1>0 DEF Goto, TypeOK, Handler
    <2>3. Goto(r, "beginFailed") \/ Pending(r, "answer", Refusal) => h'[r].pc \notin {"begin", "enter"}
      BY <1>0 DEF Goto, Pending, TypeOK, Handler
    <2> QED
      BY <1>4, <2>1, <2>2, <2>3 DEF BeginCall
  <1>5. CASE Recheck(r)
    <2>1. Pending(r, "answer", Refusal) => h'[r].pc = "answer"
      BY <1>0 DEF Pending, TypeOK, Handler
    <2> QED
      BY <1>5, <2>1 DEF Recheck
  <1> QED
    BY <1>1, <1>2, <1>3, <1>4, <1>5 DEF Handle

(***************************************************************************)
(* The end of an attempt and the failure of a save cancel every call that  *)
(* might still enter.                                                      *)
(***************************************************************************)
LEMMA InTimeStep ==
    ASSUME TypeOK, Inv, Opened, Active, InTime, [Next]_vars
    PROVE  InTime'
  <1> SUFFICES ASSUME NEW q \in Requests, h'[q].pc \in {"begin", "enter"}
               PROVE  h'[q].cancelled \/ (~failed' /\ session'[Att[q]].state = "open")
    BY DEF InTime
  <1>0. Att[q] \in Attempts /\ CallId[q] \in CallIds
    BY BrokerAssumption
  <1>own. ASSUME h[q].pc \in {"begin", "enter"} PROVE Owned(q) /\ h[q].pc \in Looking
    <2>1. h[q].pc \in Owning /\ h[q].pc \in Looking
      BY <1>own DEF Owning, Pc, Waiting, Journalled, Looking
    <2> QED
      BY <2>1 DEF Inv, Owner, Active, Owned
  <1>1. CASE \E r \in Requests : Handle(r) \/ AdapterReturns(r)
    <2>1. PICK r \in Requests : Handle(r) \/ AdapterReturns(r)
      BY <1>1
    <2>2. CASE q = r
      <3>1. /\ UNCHANGED <<failed, session>>
            /\ \/ h[q].pc = "begin" /\ h'[q].cancelled = h[q].cancelled
               \/ ~Blocked(q) /\ h[q].pc = "recheck"
        BY <2>1, <2>2, DoorMoves
      <3>2. CASE h[q].pc = "begin" /\ h'[q].cancelled = h[q].cancelled
        BY <3>1, <3>2 DEF InTime
      <3>3. CASE ~Blocked(q) /\ h[q].pc = "recheck"
        <4>1. session[Att[q]].state \in {"none", "open", "revoked"}
          BY <1>0 DEF TypeOK, Session
        <4>2. session[Att[q]].state # "none"
          BY <3>3 DEF Opened
        <4> QED
          BY <3>1, <3>3, <4>1, <4>2 DEF Blocked
      <3> QED
        BY <3>1, <3>2, <3>3
    <2>3. CASE q # r /\ (BeginFailed(r) \/ RecordFailed(r))
      <3> DEFINE K == {k \in Keys : session[k[1]].state = "open"}
      <3>1. h'[q] = Cancelled(K)[q] /\ session' = session
        BY <2>3, FailureEffect
      <3>2. h[q].pc \in {"begin", "enter"}
        BY <3>1, CancelledEffect
      <3>3. CASE session[Att[q]].state = "open"
        <4>1. Key(q) \in K
          BY <3>3, KeyType DEF Key
        <4> HIDE DEF K
        <4> QED
          BY <1>own, <3>1, <3>2, <4>1, CancelledEffect
      <3>4. CASE session[Att[q]].state # "open"
        <4>1. h[q].cancelled
          BY <3>2, <3>4 DEF InTime
        <4> HIDE DEF K
        <4> QED
          BY <3>1, <4>1, CancelledEffect
      <3> QED
        BY <3>3, <3>4
    <2>4. CASE q # r /\ ~(BeginFailed(r) \/ RecordFailed(r))
      <3>1. failed' = failed /\ session' = session
        BY <2>1, <2>4 DEF Handle, AdapterReturns, Authenticate, Refuse, Replay, Admit, Acquire,
              GiveUp, Recheck, BeginCall, Enter, FinishCall, StillActive, Answer
      <3>2. h'[q].pc = h[q].pc /\ (h[q].cancelled => h'[q].cancelled)
        BY <2>1, <2>4, OthersKeep
      <3> QED
        BY <3>1, <3>2 DEF InTime
    <2> QED
      BY <2>2, <2>3, <2>4
  <1>2. CASE Controlled
    <2>1. /\ failed' = failed
          /\ h'[q].pc = h[q].pc
          /\ h[q].cancelled => h'[q].cancelled
      BY <1>2, ControlKeeps
    <2>2. h[q].cancelled \/ (~failed /\ session[Att[q]].state = "open")
      BY <2>1 DEF InTime
    <2>3. CASE \E a \in Attempts : RevokeAttempt(a)
      <3>1. PICK a \in Attempts : RevokeAttempt(a)
        BY <2>3
      <3>2. CASE Att[q] = a
        <4> DEFINE K == {a} \X CallIds
        <4>1. Key(q) \in K
          BY <1>0, <3>2 DEF Key
        <4>2. h'[q] = Cancelled(K)[q]
          BY <3>1 DEF RevokeAttempt
        <4> HIDE DEF K
        <4> QED
          BY <1>own, <2>1, <4>1, <4>2, CancelledEffect
      <3>3. CASE Att[q] # a
        <4>1. session'[Att[q]] = session[Att[q]]
          BY <1>0, <3>1, <3>3 DEF RevokeAttempt, TypeOK
        <4> QED
          BY <2>1, <2>2, <4>1
      <3> QED
        BY <3>2, <3>3
    <2>4. CASE ~\E a \in Attempts : RevokeAttempt(a)
      <3>1. session[Att[q]].state = "open" => session'[Att[q]].state = "open"
        <4>1. CASE \E a \in Attempts : BeginAttempt(a)
          BY <1>0, <4>1 DEF BeginAttempt, TypeOK
        <4>2. CASE \E e \in Executions, paused \in BOOLEAN : SetExecutionPaused(e, paused)
          BY <1>0, <4>2 DEF SetExecutionPaused, TypeOK, Session
        <4>3. CASE \/ \E r \in Requests : CancelCall(r)
                   \/ \E k \in Keys, o \in Terminal : CheckReconcile(k, o) \/ Reconcile(k, o)
                   \/ UNCHANGED vars
          BY <4>3 DEF CancelCall, CheckReconcile, Reconcile, vars
        <4> QED
          BY <1>2, <2>4, <4>1, <4>2, <4>3 DEF Controlled
      <3> QED
        BY <2>1, <2>2, <3>1
    <2> QED
      BY <2>3, <2>4
  <1>3. CASE Crash
    BY <1>3, CrashEnds
  <1> QED
    BY <1>1, <1>2, <1>3, NextSplit

-----------------------------------------------------------------------------
(***************************************************************************)
(* What is recorded of a result is not taken back, whatever is begun,      *)
(* settled or interrupted meanwhile.                                       *)
(***************************************************************************)
LEMMA CommittedStays ==
    ASSUME TypeOK, Inv, [Next]_vars, NEW result, NEW k \in Keys,
           Committed(result, ledger[k])
    PROVE  Committed(result, ledger'[k])
  <1> SUFFICES ASSUME result.ok
               PROVE  IF result.effect = "no_effect" THEN ledger'[k].state = "succeeded"
                      ELSE ledger'[k].state \in Terminal \cup {"interrupted"}
    BY DEF Committed
  <1>1. IF result.effect = "no_effect" THEN ledger[k].state = "succeeded"
        ELSE ledger[k].state \in Terminal \cup {"interrupted"}
    BY DEF Committed
  <1>2. CASE UNCHANGED ledger
    BY <1>1, <1>2
  <1>3. CASE \E r \in Requests : Begun(r)
    BY <1>1, <1>3 DEF Begun, Admissible, Terminal
  <1>4. CASE \E l \in Keys : Settled(l)
    BY <1>1, <1>4 DEF Settled, Unresolved, Terminal
  <1>5. CASE Interrupted
    BY <1>1, <1>5 DEF Interrupted, Terminal
  <1> QED
    BY <1>2, <1>3, <1>4, <1>5, LedgerSteps

(***************************************************************************)
(* Where the result of a handler that is about to answer comes from.       *)
(***************************************************************************)
LEMMA ResultMoves ==
    ASSUME TypeOK, NEW r \in Requests, Handle(r) \/ AdapterReturns(r), h'[r].pc \in Closing
    PROVE  \/ ~h'[r].result.ok
           \/ h[r].pc \in Closing /\ h'[r].result = h[r].result
           \/ h'[r].result = calls[Key(r)].response
           \/ /\ ledger'[Key(r)].state = FinishState(h[r].result)
              /\ h'[r].result \in Bounded(h[r].result)
  <1>0. h[r] \in Handler /\ ~Refusal.ok /\ ~Uncommitted.ok
    BY DEF TypeOK, Refusal, Uncommitted
  <1>goto. \A pc : Goto(r, pc) => h'[r].pc = pc /\ h'[r].result = h[r].result
    BY <1>0 DEF Goto, TypeOK, Handler
  <1>pending. \A pc, result : Pending(r, pc, result) => h'[r].pc = pc /\ h'[r].result = result
    BY <1>0 DEF Pending, TypeOK, Handler
  <1>reply. \A result : Reply(r, result) => h'[r].result = result
    BY <1>0 DEF Reply, TypeOK
  <1>1. CASE BeginFailed(r) \/ RecordFailed(r)
    BY <1>0, <1>1, FailureEffect
  <1>2. CASE Acquire(r)
    <2>1. h'[r].pc \in {"session", "adapter", "recheck"}
      BY <1>0, <1>2 DEF Acquire, After, Waiting, TypeOK, Handler
    <2> QED
      BY <2>1 DEF Closing
  <1>3. CASE Authenticate(r) \/ Refuse(r) \/ GiveUp(r) \/ Recheck(r) \/ BeginCall(r)
    BY <1>0, <1>3, <1>goto, <1>pending, <1>reply
       DEF Authenticate, Refuse, GiveUp, Recheck, BeginCall, Closing
  <1>4. CASE Replay(r)
    BY <1>4, <1>reply DEF Replay
  <1>5. CASE Admit(r) \/ Enter(r) \/ AdapterReturns(r)
    BY <1>5, <1>goto, <1>pending DEF Admit, Enter, AdapterReturns, Closing
  <1>6. CASE FinishCall(r)
    <2>1. CASE Goto(r, "recordFailed")
      BY <2>1, <1>goto DEF Closing
    <2>2. CASE /\ ledger' = [ledger EXCEPT ![Key(r)].state = FinishState(h[r].result)]
               /\ \E result \in Bounded(h[r].result) : Pending(r, "stillActive", result)
      <3>1. ledger'[Key(r)].state = FinishState(h[r].result)
        BY <2>2, KeyType DEF TypeOK
      <3> QED
        BY <2>2, <3>1, <1>pending
    <2> QED
      BY <1>6, <2>1, <2>2 DEF FinishCall
  <1>7. CASE StillActive(r) \/ Answer(r)
    BY <1>0, <1>7, <1>goto, <1>reply DEF StillActive, Answer, Closing
  <1> QED
    BY <1>1, <1>2, <1>3, <1>4, <1>5, <1>6, <1>7 DEF Handle

LEMMA AnswersStep ==
    ASSUME TypeOK, Inv, Answers, [Next]_vars
    PROVE  Answers'
  <1>0. ~NoResult.ok /\ NoCall.response = NoResult
    BY DEF NoResult, NoCall
  <1>1. ASSUME NEW q \in Requests, h'[q].pc \in Closing
        PROVE  Committed(h'[q].result, ledger'[Key(q)])
    <2> USE KeyType
    <2>1. CASE h[q].pc \in Closing /\ h'[q].result = h[q].result
      <3>1. Committed(h[q].result, ledger[Key(q)])
        BY <2>1 DEF Answers
      <3> QED
        BY <2>1, <3>1, CommittedStays
    <2>2. CASE \E r \in Requests : Handle(r) \/ AdapterReturns(r)
      <3>1. PICK r \in Requests : Handle(r) \/ AdapterReturns(r)
        BY <2>2
      <3>2. CASE q # r
        BY <1>1, <2>1, <3>1, <3>2, OthersKeep
      <3>3. CASE q = r
        <4>1. CASE ~h'[q].result.ok
          BY <4>1 DEF Committed
        <4>2. CASE h'[q].result = calls[Key(q)].response
          <5>1. Committed(calls[Key(q)].response, ledger[Key(q)])
            BY DEF Answers
          <5> QED
            BY <4>2, <5>1, CommittedStays
        <4>3. CASE /\ ledger'[Key(q)].state = FinishState(h[q].result)
                   /\ h'[q].result \in Bounded(h[q].result)
          <5>1. CASE h'[q].result = h[q].result
            BY <4>3, <5>1 DEF Committed, FinishState
          <5>2. CASE h'[q].result = [ok |-> FALSE, effect |-> h[q].result.effect]
            <6>1. ~h'[q].result.ok
              BY <5>2
            <6> QED
              BY <4>1, <6>1
          <5> QED
            BY <4>3, <5>1, <5>2 DEF Bounded
        <4> QED
          BY <1>1, <2>1, <3>1, <3>3, <4>1, <4>2, <4>3, ResultMoves
      <3> QED
        BY <3>2, <3>3
    <2>3. CASE Controlled
      BY <1>1, <2>1, <2>3, ControlKeeps
    <2>4. CASE Crash
      <3>1. CASE h'[q].result = NoResult
        BY <1>0, <3>1 DEF Committed
      <3>2. CASE h'[q] = h[q]
        BY <1>1, <2>1, <3>2
      <3> QED
        BY <2>4, <3>1, <3>2, CrashEnds
    <2> QED
      BY <2>2, <2>3, <2>4, NextSplit
  <1>2. ASSUME NEW k \in Keys
        PROVE  Committed(calls'[k].response, ledger'[k])
    <2>1. CASE calls'[k].response = calls[k].response
      <3>1. Committed(calls[k].response, ledger[k])
        BY DEF Answers
      <3> QED
        BY <2>1, <3>1, CommittedStays
    <2>2. CASE calls'[k].response = NoResult
      BY <1>0, <2>2 DEF Committed
    <2>3. CASE \E r \in Requests : Handle(r) \/ AdapterReturns(r)
      <3>1. PICK r \in Requests : Handle(r) \/ AdapterReturns(r)
        BY <2>3
      <3>2. CASE Admit(r)
        <4>1. calls'[k] = IF k = Key(r) THEN [owner |-> r, active |-> TRUE, response |-> NoResult]
                          ELSE calls[k]
          BY <3>2 DEF Admit, TypeOK
        <4> QED
          BY <2>1, <2>2, <4>1
      <3>3. CASE Answer(r)
        <4>1. calls'[k].response = IF k = Key(r) THEN h[r].result ELSE calls[k].response
          BY <3>3 DEF Answer, TypeOK, CallRecord
        <4>2. h'[r].pc = "over" /\ h'[r].result = h[r].result
          BY <3>3 DEF Answer, Reply, TypeOK
        <4>3. CASE k = Key(r)
          BY <1>1, <4>1, <4>2, <4>3 DEF Closing
        <4> QED
          BY <2>1, <4>1, <4>3
      <3>4. CASE UNCHANGED calls
        BY <2>1, <3>4
      <3> QED
        BY <3>1, <3>2, <3>3, <3>4, OwningMoves
    <2>4. CASE Controlled
      BY <2>1, <2>4, ControlKeeps
    <2>5. CASE Crash
      BY <1>0, <2>2, <2>5 DEF Crash
    <2> QED
      BY <2>3, <2>4, <2>5, NextSplit
  <1>3. /\ \A q \in Requests : h'[q].pc \in Closing => Committed(h'[q].result, ledger'[Key(q)])
        /\ \A k \in Keys : Committed(calls'[k].response, ledger'[k])
    BY <1>1, <1>2
  <1> QED
    BY <1>3 DEF Answers, Committed, Key

LEMMA CallInvariance == Spec => [](TypeOK /\ Inv /\ CallInv)
  <1>1. Init => CallInv
    <2> SUFFICES ASSUME Init PROVE CallInv
      OBVIOUS
    <2>1. \A r \in Requests : h[r].pc = "new"
      BY DEF Init
    <2>2. \A k \in Keys : ~calls[k].response.ok
      BY DEF Init, NoCall, NoResult
    <2> QED
      BY <2>1, <2>2
         DEF CallInv, Opened, Active, InTime, Answers, Closing, Committed, Owning
  <1>2. TypeOK /\ Inv /\ CallInv /\ [Next]_vars => CallInv'
    BY OpenedStep, ActiveStep, InTimeStep, AnswersStep DEF CallInv
  <1> QED
    BY <1>1, <1>2, Invariance, PTL DEF Spec

(***************************************************************************)
(* A client told of a success is told of a recorded outcome, and no        *)
(* adapter is entered for a revoked attempt or after a failed save         *)
(* (handleCall, failPersistence, RevokeAttempt).                           *)
(***************************************************************************)
THEOREM RulesKept == Spec => CallsKeepTheRules
  <1> DEFINE Entering ==
        \A r \in Requests : (h[r].pc = "enter" /\ h'[r].pc = "inside") =>
            ~failed /\ session[Att[r]].state = "open"
  <1>1. CallInv => ReplyIsCommitted
    BY DEF CallInv, Answers, Closing, Committed, ReplyIsCommitted
  <1>2. TypeOK /\ Inv /\ CallInv /\ [Next]_vars => Entering
    <2> SUFFICES ASSUME TypeOK, Inv, CallInv, [Next]_vars, NEW q \in Requests,
                        h[q].pc = "enter", h'[q].pc = "inside"
                 PROVE  ~failed /\ session[Att[q]].state = "open"
      OBVIOUS
    <2>1. CASE \E r \in Requests : Handle(r) \/ AdapterReturns(r)
      <3>1. PICK r \in Requests : Handle(r) \/ AdapterReturns(r)
        BY <2>1
      <3>2. q = r
        BY <3>1, OthersKeep
      <3>3. Enter(q)
        BY <3>1, <3>2 DEF Handle, AdapterReturns, Authenticate, Refuse, Replay, Admit, Acquire,
              GiveUp, Recheck, BeginCall, BeginFailed, FinishCall, RecordFailed, StillActive,
              Answer, Waiting
      <3>4. Pending(q, "record", Refusal) => h'[q].pc = "record"
        BY DEF Pending, TypeOK, Handler
      <3>5. ~h[q].cancelled
        BY <3>3, <3>4 DEF Enter
      <3> QED
        BY <3>5 DEF CallInv, InTime
    <2>2. CASE Controlled
      BY <2>2, ControlKeeps
    <2>3. CASE Crash
      BY <2>3, CrashEnds
    <2> QED
      BY <2>1, <2>2, <2>3, NextSplit
  <1>3. TypeOK /\ Inv /\ CallInv /\ [Next]_vars => [Entering]_vars
    BY <1>2
  <1> QED
    BY <1>1, <1>3, CallInvariance, PTL DEF Spec, CallsKeepTheRules, NoEntryAfterTheEnd

-----------------------------------------------------------------------------
(* The slots.  A handler that waits for a kind of slot holds the kinds that *)
(* come before it, one at the journal holds them all, and each kind has no  *)
(* more holders than slots.                                                 *)
HoldsBoth == {"recheck", "begin"} \cup Journalled
SlotsTaken ==
    \A r \in Requests :
        /\ h[r].pc = "adapter" => "session" \in h[r].slots
        /\ h[r].pc \in HoldsBoth => {"session", "adapter"} \subseteq h[r].slots

Within(S, limit) == IsFiniteSet(S) /\ Cardinality(S) <= limit

SlotsWithin ==
    /\ Within(Holders("adapter"), AdapterSlots)
    /\ \A a \in Attempts : Within(SessionHolders(a), SessionSlots)

SlotInv == SlotsTaken /\ SlotsWithin

LEMMA WithinSubset ==
    ASSUME NEW S, NEW T, NEW limit \in Nat, Within(S, limit), T \subseteq S
    PROVE  Within(T, limit)
  <1>1. IsFiniteSet(S) /\ Cardinality(S) <= limit
    BY DEF Within
  <1>2. IsFiniteSet(T) /\ Cardinality(T) <= Cardinality(S)
    BY <1>1, FS_Subset
  <1>3. Cardinality(S) \in Nat /\ Cardinality(T) \in Nat
    BY <1>1, <1>2, FS_CardinalityType
  <1> QED
    BY <1>1, <1>2, <1>3 DEF Within

LEMMA WithinAdd ==
    ASSUME NEW S, NEW x, NEW limit \in Nat, Within(S, limit), Cardinality(S) < limit
    PROVE  Within(S \cup {x}, limit)
  <1>1. IsFiniteSet(S) /\ Cardinality(S) \in Nat
    BY FS_CardinalityType DEF Within
  <1> QED
    BY <1>1, FS_AddElement DEF Within

(***************************************************************************)
(* Only Acquire takes a slot.                                              *)
(***************************************************************************)
LEMMA SlotMoves ==
    ASSUME TypeOK, [Next]_vars
    PROVE  \/ \E r \in Requests : Acquire(r)
           \/ \A q \in Requests : h'[q].slots \subseteq h[q].slots
  <1>1. CASE \E r \in Requests : Handle(r) \/ AdapterReturns(r)
    <2>1. PICK r \in Requests : Handle(r) \/ AdapterReturns(r)
      BY <1>1
    <2>2. \A q \in Requests \ {r} : h'[q].slots = h[q].slots
      BY <2>1, OthersKeep
    <2>3. Acquire(r) \/ h'[r].slots \subseteq h[r].slots
      <3>0. h[r] \in Handler
        BY DEF TypeOK
      <3>1. CASE BeginFailed(r) \/ RecordFailed(r)
        BY <3>1, FailureEffect
      <3>2. ~(BeginFailed(r) \/ RecordFailed(r) \/ Acquire(r)) =>
               \/ \E pc : Goto(r, pc)
               \/ \E pc, result : Pending(r, pc, result)
               \/ \E result : Reply(r, result)
        BY <2>1 DEF Handle, AdapterReturns, Authenticate, Refuse, Replay, Admit, GiveUp, Recheck,
              BeginCall, Enter, FinishCall, StillActive, Answer
      <3>3. \A pc : Goto(r, pc) => h'[r].slots = h[r].slots
        BY <3>0 DEF Goto, TypeOK, Handler
      <3>4. \A pc, result : Pending(r, pc, result) => h'[r].slots = h[r].slots
        BY <3>0 DEF Pending, TypeOK, Handler
      <3>5. \A result : Reply(r, result) => h'[r].slots = {}
        BY <3>0 DEF Reply, TypeOK
      <3> QED
        BY <3>1, <3>2, <3>3, <3>4, <3>5
    <2> QED
      BY <2>2, <2>3
  <1>2. CASE Controlled
    BY <1>2, ControlKeeps
  <1>3. CASE Crash
    BY <1>3, CrashEnds
  <1> QED
    BY <1>1, <1>2, <1>3, NextSplit

LEMMA SlotKeepers ==
    ASSUME TypeOK, NEW r \in Requests, Handle(r) \/ AdapterReturns(r), ~Acquire(r)
    PROVE  /\ h'[r].pc # "adapter"
           /\ h'[r].pc \in HoldsBoth => h[r].pc \in HoldsBoth /\ h'[r].slots = h[r].slots
  <1>0. h[r] \in Handler
    BY DEF TypeOK
  <1>goto. \A pc : Goto(r, pc) => h'[r].pc = pc /\ h'[r].slots = h[r].slots
    BY <1>0 DEF Goto, TypeOK, Handler
  <1>pending. \A pc, result : Pending(r, pc, result) => h'[r].pc = pc /\ h'[r].slots = h[r].slots
    BY <1>0 DEF Pending, TypeOK, Handler
  <1>reply. \A result : Reply(r, result) => h'[r].pc = "over"
    BY <1>0 DEF Reply, TypeOK
  <1>1. CASE BeginFailed(r) \/ RecordFailed(r)
    BY <1>1, FailureEffect DEF HoldsBoth, Journalled
  <1>2. CASE Authenticate(r) \/ Refuse(r) \/ Replay(r) \/ Admit(r) \/ GiveUp(r)
               \/ FinishCall(r) \/ StillActive(r) \/ Answer(r)
    BY <1>2, <1>goto, <1>pending, <1>reply
       DEF Authenticate, Refuse, Replay, Admit, GiveUp, FinishCall, StillActive, Answer,
           HoldsBoth, Journalled
  <1>3. CASE Recheck(r) \/ BeginCall(r) \/ Enter(r) \/ AdapterReturns(r)
    BY <1>3, <1>goto, <1>pending
       DEF Recheck, BeginCall, Enter, AdapterReturns, HoldsBoth, Journalled
  <1> QED
    BY <1>1, <1>2, <1>3 DEF Handle

LEMMA AcquireEffect ==
    ASSUME TypeOK, NEW r \in Requests, Acquire(r)
    PROVE  /\ h[r].pc \in Waiting /\ Free(r, h[r].pc)
           /\ h'[r].pc = After(h[r].pc)
           /\ h'[r].slots = h[r].slots \cup {h[r].pc}
           /\ \A q \in Requests \ {r} : h'[q] = h[q]
  BY DEF Acquire, TypeOK, Handler

LEMMA SlotsTakenStep ==
    ASSUME TypeOK, SlotsTaken, [Next]_vars
    PROVE  SlotsTaken'
  <1> SUFFICES ASSUME NEW q \in Requests
               PROVE  /\ h'[q].pc = "adapter" => "session" \in h'[q].slots
                      /\ h'[q].pc \in HoldsBoth => {"session", "adapter"} \subseteq h'[q].slots
    BY DEF SlotsTaken
  <1>0. /\ h[q].pc = "adapter" => "session" \in h[q].slots
        /\ h[q].pc \in HoldsBoth => {"session", "adapter"} \subseteq h[q].slots
    BY DEF SlotsTaken
  <1>1. CASE h'[q].pc = h[q].pc /\ h'[q].slots = h[q].slots
    BY <1>0, <1>1
  <1>2. CASE \E r \in Requests : Handle(r) \/ AdapterReturns(r)
    <2>1. PICK r \in Requests : Handle(r) \/ AdapterReturns(r)
      BY <1>2
    <2>2. CASE q # r
      BY <1>1, <2>1, <2>2, OthersKeep
    <2>3. CASE q = r /\ Acquire(r)
      <3>1. /\ h[q].pc \in Waiting
            /\ h'[q].pc = After(h[q].pc)
            /\ h'[q].slots = h[q].slots \cup {h[q].pc}
        BY <2>3, AcquireEffect
      <3>2. CASE h[q].pc = "global"
        BY <3>1, <3>2 DEF After, HoldsBoth, Journalled
      <3>3. CASE h[q].pc = "session"
        BY <3>1, <3>3 DEF After, HoldsBoth, Journalled
      <3>4. CASE h[q].pc = "adapter"
        BY <1>0, <3>1, <3>4 DEF After, HoldsBoth, Journalled
      <3> QED
        BY <3>1, <3>2, <3>3, <3>4 DEF Waiting
    <2>4. CASE q = r /\ ~Acquire(r)
      BY <1>0, <2>1, <2>4, SlotKeepers
    <2> QED
      BY <2>2, <2>3, <2>4
  <1>3. CASE Controlled
    BY <1>1, <1>3, ControlKeeps
  <1>4. CASE Crash
    BY <1>4, CrashEnds DEF HoldsBoth, Journalled
  <1> QED
    BY <1>2, <1>3, <1>4, NextSplit

LEMMA SlotsWithinStep ==
    ASSUME TypeOK, SlotsWithin, [Next]_vars
    PROVE  SlotsWithin'
  <1>0. AdapterSlots \in Nat /\ SessionSlots \in Nat
    BY BrokerAssumption
  <1> DEFINE adapters == {q \in Requests : "adapter" \in h'[q].slots}
             sessions(a) == {q \in Requests : "session" \in h'[q].slots /\ Att[q] = a}
  <1>h. /\ Holders("adapter") = {q \in Requests : "adapter" \in h[q].slots}
        /\ \A a : SessionHolders(a) = {q \in Requests : "session" \in h[q].slots /\ Att[q] = a}
    BY DEF Holders, SessionHolders
  <1>1. Within(adapters, AdapterSlots) /\ \A a \in Attempts : Within(sessions(a), SessionSlots)
    <2>1. CASE \A q \in Requests : h'[q].slots \subseteq h[q].slots
      <3>1. adapters \subseteq Holders("adapter")
        BY <1>h, <2>1
      <3>2. \A a \in Attempts : sessions(a) \subseteq SessionHolders(a)
        BY <1>h, <2>1
      <3> QED
        BY <1>0, <3>1, <3>2, WithinSubset DEF SlotsWithin
    <2>2. CASE \E r \in Requests : Acquire(r)
      <3>1. PICK r \in Requests : Acquire(r)
        BY <2>2
      <3>2. /\ h[r].pc \in Waiting /\ Free(r, h[r].pc)
            /\ h'[r].slots = h[r].slots \cup {h[r].pc}
            /\ \A q \in Requests \ {r} : h'[q] = h[q]
        BY <3>1, AcquireEffect
      <3>3. Within(adapters, AdapterSlots)
        <4>1. CASE h[r].pc = "adapter"
          <5>1. adapters = Holders("adapter") \cup {r}
            BY <1>h, <3>2, <4>1
          <5>2. Cardinality(Holders("adapter")) < AdapterSlots
            BY <3>2, <4>1 DEF Free
          <5> QED
            BY <1>0, <5>1, <5>2, WithinAdd DEF SlotsWithin
        <4>2. CASE h[r].pc # "adapter"
          <5>1. adapters \subseteq Holders("adapter")
            BY <1>h, <3>2, <4>2
          <5> QED
            BY <1>0, <5>1, WithinSubset DEF SlotsWithin
        <4> QED
          BY <4>1, <4>2
      <3>4. ASSUME NEW a \in Attempts PROVE Within(sessions(a), SessionSlots)
        <4>1. CASE h[r].pc = "session" /\ Att[r] = a
          <5>1. sessions(a) = SessionHolders(a) \cup {r}
            BY <1>h, <3>2, <4>1
          <5>2. Cardinality(SessionHolders(a)) < SessionSlots
            BY <3>2, <4>1 DEF Free
          <5> QED
            BY <1>0, <5>1, <5>2, WithinAdd DEF SlotsWithin
        <4>2. CASE ~(h[r].pc = "session" /\ Att[r] = a)
          <5>1. sessions(a) \subseteq SessionHolders(a)
            BY <1>h, <3>2, <4>2
          <5> QED
            BY <1>0, <5>1, WithinSubset DEF SlotsWithin
        <4> QED
          BY <4>1, <4>2
      <3> QED
        BY <3>3, <3>4
    <2> QED
      BY <2>1, <2>2, SlotMoves
  <1> QED
    BY <1>1 DEF SlotsWithin, Within, Holders, SessionHolders

LEMMA SlotInvariance == Spec => [](TypeOK /\ SlotInv)
  <1>1. Init => SlotInv
    <2> SUFFICES ASSUME Init PROVE SlotInv
      OBVIOUS
    <2>1. \A r \in Requests : h[r].pc = "new" /\ h[r].slots = {}
      BY DEF Init
    <2>2. SlotsTaken
      BY <2>1 DEF SlotsTaken, HoldsBoth, Journalled
    <2>3. Holders("adapter") = {} /\ \A a \in Attempts : SessionHolders(a) = {}
      BY <2>1 DEF Holders, SessionHolders
    <2>4. \A limit \in Nat : Within({}, limit)
      BY FS_EmptySet DEF Within
    <2> QED
      BY <2>2, <2>3, <2>4, BrokerAssumption DEF SlotInv, SlotsWithin
  <1>2. TypeOK /\ SlotInv /\ [Next]_vars => SlotInv'
    BY SlotsTakenStep, SlotsWithinStep DEF SlotInv
  <1> QED
    BY <1>1, <1>2, TypeInit, TypeStep, PTL DEF Spec

(***************************************************************************)
(* No more calls are between their admission to the adapter and their      *)
(* answer than there are slots, of an attempt and in all (the semaphores   *)
(* of handleCall, released on every return).                               *)
(***************************************************************************)
THEOREM CallsWithinBounds == Spec => []CallsBounded
  <1>1. SlotInv => CallsBounded
    <2> SUFFICES ASSUME SlotInv PROVE CallsBounded
      OBVIOUS
    <2>1. \A r \in InFlight : {"session", "adapter"} \subseteq h[r].slots
      BY DEF SlotInv, SlotsTaken, HoldsBoth, InFlight
    <2>2. InFlight \subseteq Holders("adapter")
      BY <2>1 DEF InFlight, Holders
    <2>3. \A a \in Attempts : {r \in InFlight : Att[r] = a} \subseteq SessionHolders(a)
      BY <2>1 DEF InFlight, SessionHolders, Holders
    <2>4. Within(InFlight, AdapterSlots)
      BY <2>2, BrokerAssumption, WithinSubset DEF SlotInv, SlotsWithin
    <2>5. \A a \in Attempts : Within({r \in InFlight : Att[r] = a}, SessionSlots)
      BY <2>3, BrokerAssumption, WithinSubset DEF SlotInv, SlotsWithin
    <2> QED
      BY <2>4, <2>5 DEF CallsBounded, Within
  <1> QED
    BY <1>1, SlotInvariance, PTL
=============================================================================
