------------------------------ MODULE EventBus ------------------------------
(***************************************************************************)
(* The event bus (runtime/events/bus.go): publishers on any goroutine, the *)
(* one dispatch goroutine that hands an event to its subscribers in turn,  *)
(* subscribers that come, go, publish from their handlers or panic, and    *)
(* Close, which drains the queue.                                          *)
(***************************************************************************)
EXTENDS BusQueue, FiniteSets

CONSTANTS
    Subs,               \* subscriptions, each made at most once
    Topic,              \* Topic[s]: the event type s subscribes to, or All
    All,                \* the topic of SubscribeAll
    MaxEvents           \* bound on the events that enter the queue

PublishedType == {"Work", "WorkerLog", "RuntimeShutdown"}
EventType == PublishedType \cup {"SubscriberPanicked", "RuntimeOverloaded"}

ASSUME EventBusAssumption ==
    /\ All \notin EventType
    /\ Topic \in [Subs -> EventType \cup {All}]
    /\ MaxEvents \in Nat

VARIABLES
    bus,                \* the queue and its flags; an event is [id, type]
    seq,                \* b.sequence: the identity last assigned
    lists,              \* b.subscribers and b.wildcards, in order of subscription
    active,             \* subscriptions whose active flag is set
    leaving,            \* unsubscribed, not yet taken off their list
    hand,               \* the dispatch goroutine
    seen,               \* seen[s]: identity of the last event s was called with
    since,              \* since[s]: last event taken when s subscribed
    quarantined         \* subscriptions that have panicked

vars == <<bus, seq, lists, active, leaving, hand, seen, since, quarantined>>

Event == [id: Nat, type: EventType]
NoEvent == [id |-> 0, type |-> "none"]

(***************************************************************************)
(* The dispatch goroutine waits for an event, walks through the copy of    *)
(* the subscriber lists it made for the event at hand, is inside a handler *)
(* (the head of the copy), or has returned.                                *)
(***************************************************************************)
Hand == [pc: {"wait", "walk", "call", "done"}, ev: Event \cup {NoEvent},
         todo: Seq(Subs)]

Init ==
    /\ bus = EmptyBus
    /\ seq = 0
    /\ lists = [t \in EventType \cup {All} |-> <<>>]
    /\ active = {}
    /\ leaving = {}
    /\ hand = [pc |-> "wait", ev |-> NoEvent, todo |-> <<>>]
    /\ seen = [s \in Subs |-> 0]
    /\ since = [s \in Subs |-> 0]
    /\ quarantined = {}

IsLog(t) == t = "WorkerLog"
IsShutdown(t) == t = "RuntimeShutdown"

(***************************************************************************)
(* Publish assigns the next identity to what it enqueues: the event, or    *)
(* the overload that replaces the queue.                                   *)
(***************************************************************************)
(* Wrong: the identity is drawn before the event is found refused. *)
PublishCounted(t) ==
    LET ev == [id |-> seq + 1, type |-> t]
        overload == [id |-> seq + 1, type |-> "RuntimeOverloaded"]
    IN  /\ bus' = Enqueue(bus, ev, overload, IsLog(t), IsShutdown(t))
        /\ seq' = seq + 1

Publish(t) ==
    LET ev == [id |-> seq + 1, type |-> t]
        overload == [id |-> seq + 1, type |-> "RuntimeOverloaded"]
    IN  /\ bus' = Enqueue(bus, ev, overload, IsLog(t), IsShutdown(t))
        /\ seq' = IF Refused(bus, IsLog(t), IsShutdown(t)) THEN seq ELSE seq + 1

PublishFromOutside(t) ==
    /\ seq < MaxEvents
    /\ Publish(t)
    /\ UNCHANGED <<lists, active, leaving, hand, seen, since, quarantined>>

(***************************************************************************)
(* Subscribing appends to the list of the topic.  Unsubscribing clears the *)
(* active flag at once and then takes the lock to shorten the list; a      *)
(* handler that was found active just before may still be called.  A       *)
(* subscription that has panicked stays on its list until it unsubscribes. *)
(***************************************************************************)
Within(s, list) == \E i \in 1..Len(list) : list[i] = s
Subscribed(s) == Within(s, lists[Topic[s]])

Subscribe(s) ==
    /\ s \notin active \cup leaving \cup quarantined
    /\ ~Subscribed(s) /\ ~Within(s, hand.todo)
    /\ seen[s] = 0
    /\ lists' = [lists EXCEPT ![Topic[s]] = Append(@, s)]
    /\ active' = active \cup {s}
    /\ since' = [since EXCEPT ![s] = hand.ev.id]
    /\ UNCHANGED <<bus, seq, leaving, hand, seen, quarantined>>

Unsubscribe(s) ==
    /\ Subscribed(s)
    /\ s \notin leaving
    /\ active' = active \ {s}
    /\ leaving' = leaving \cup {s}
    /\ UNCHANGED <<bus, seq, lists, hand, seen, since, quarantined>>

Without(list, i) == SubSeq(list, 1, i - 1) \o SubSeq(list, i + 1, Len(list))

Shortened(s) ==
    \E i \in 1..Len(lists[Topic[s]]) :
        /\ lists[Topic[s]][i] = s
        /\ lists' = [lists EXCEPT ![Topic[s]] = Without(@, i)]

(* Wrong: the dispatch goroutine walks the list itself, which removal shifts. *)
RemoveShifting(s) ==
    /\ s \in leaving
    /\ leaving' = leaving \ {s}
    /\ Shortened(s)
    /\ hand' = IF hand.pc = "walk" /\ hand.todo # <<>>
               THEN [hand EXCEPT !.todo = Tail(@)] ELSE hand
    /\ UNCHANGED <<bus, seq, active, seen, since, quarantined>>

Remove(s) ==
    /\ s \in leaving
    /\ leaving' = leaving \ {s}
    /\ Shortened(s)
    /\ UNCHANGED <<bus, seq, active, hand, seen, since, quarantined>>

-----------------------------------------------------------------------------
(* The dispatch goroutine. *)

Take ==
    LET ev == Head(bus.queue)
    IN  /\ hand.pc = "wait"
        /\ bus.queue # <<>>
        /\ bus' = [bus EXCEPT !.queue = Tail(@)]
        /\ hand' = [pc |-> "walk", ev |-> ev, todo |-> lists[ev.type] \o lists[All]]
        /\ UNCHANGED <<seq, lists, active, leaving, seen, since, quarantined>>

(***************************************************************************)
(* The next subscriber of the copy is called if its flag is still set.     *)
(***************************************************************************)
(* Wrong: the active flag is not looked at. *)
CallAnyway ==
    /\ hand.pc = "walk"
    /\ hand.todo # <<>>
    /\ hand' = [hand EXCEPT !.pc = "call"]
    /\ seen' = [seen EXCEPT ![Head(hand.todo)] = hand.ev.id]
    /\ UNCHANGED <<bus, seq, lists, active, leaving, since, quarantined>>

Call ==
    LET s == Head(hand.todo)
    IN  /\ hand.pc = "walk"
        /\ hand.todo # <<>>
        /\ IF s \in active
           THEN /\ hand' = [hand EXCEPT !.pc = "call"]
                /\ seen' = [seen EXCEPT ![s] = hand.ev.id]
           ELSE /\ hand' = [hand EXCEPT !.todo = Tail(@)]
                /\ UNCHANGED seen
        /\ UNCHANGED <<bus, seq, lists, active, leaving, since, quarantined>>

(***************************************************************************)
(* The handler publishes a follow-up, returns, or panics.                  *)
(***************************************************************************)
PublishFromHandler(t) ==
    /\ hand.pc = "call"
    /\ seq < MaxEvents
    /\ Publish(t)
    /\ UNCHANGED <<lists, active, leaving, hand, seen, since, quarantined>>

Return ==
    /\ hand.pc = "call"
    /\ hand' = [hand EXCEPT !.pc = "walk", !.todo = Tail(@)]
    /\ UNCHANGED <<bus, seq, lists, active, leaving, seen, since, quarantined>>

Panic ==
    LET s == Head(hand.todo)
    IN  /\ hand.pc = "call"
        /\ active' = active \ {s}
        /\ quarantined' = quarantined \cup {s}
        /\ Publish("SubscriberPanicked")
        /\ hand' = [hand EXCEPT !.pc = "walk", !.todo = Tail(@)]
        /\ UNCHANGED <<lists, leaving, seen, since>>

Finish ==
    /\ hand.pc = "walk"
    /\ hand.todo = <<>>
    /\ hand' = [hand EXCEPT !.pc = "wait"]
    /\ UNCHANGED <<bus, seq, lists, active, leaving, seen, since, quarantined>>

(* Wrong: the goroutine returns as soon as the bus is closed. *)
ExitAtOnce ==
    /\ hand.pc = "wait"
    /\ bus.closed
    /\ hand' = [hand EXCEPT !.pc = "done"]
    /\ UNCHANGED <<bus, seq, lists, active, leaving, seen, since, quarantined>>

Exit ==
    /\ hand.pc = "wait"
    /\ bus.queue = <<>>
    /\ bus.closed
    /\ hand' = [hand EXCEPT !.pc = "done"]
    /\ UNCHANGED <<bus, seq, lists, active, leaving, seen, since, quarantined>>

Close ==
    /\ ~bus.closed
    /\ bus' = [bus EXCEPT !.closed = TRUE]
    /\ UNCHANGED <<seq, lists, active, leaving, hand, seen, since, quarantined>>

Dispatch == Take \/ Call \/ Return \/ Panic \/ Finish \/ Exit

Next ==
    \/ Dispatch
    \/ \E t \in PublishedType : PublishFromOutside(t) \/ PublishFromHandler(t)
    \/ \E s \in Subs : Subscribe(s) \/ Unsubscribe(s) \/ Remove(s)
    \/ Close

Spec == Init /\ [][Next]_vars

(***************************************************************************)
(* The dispatch goroutine keeps running and its handlers return.           *)
(***************************************************************************)
LiveSpec == Spec /\ WF_vars(Dispatch)

-----------------------------------------------------------------------------
(***************************************************************************)
(* The variables keep their types.                                         *)
(***************************************************************************)
TypeOK ==
    /\ bus \in BusValue(Event)
    /\ seq \in Nat
    /\ lists \in [EventType \cup {All} -> Seq(Subs)]
    /\ active \subseteq Subs
    /\ leaving \subseteq Subs
    /\ hand \in Hand
    /\ seen \in [Subs -> Nat]
    /\ since \in [Subs -> Nat]
    /\ quarantined \subseteq Subs

(***************************************************************************)
(* Nothing is lost silently: unless the bus has overloaded, the queue      *)
(* holds exactly the identities after the one taken last, in order, and it *)
(* never holds more than Capacity events (Publish, dispatch).              *)
(***************************************************************************)
NoSilentLoss ==
    /\ Len(bus.queue) <= Capacity
    /\ ~bus.overloaded =>
          /\ seq = hand.ev.id + Len(bus.queue)
          /\ \A i \in 1..Len(bus.queue) : bus.queue[i].id = hand.ev.id + i

(***************************************************************************)
(* When the dispatch goroutine is through with an event, every subscriber  *)
(* of it that was there before the event was taken and is still active has *)
(* been called with it: unsubscribing or a panic of one subscriber skips   *)
(* no other.                                                               *)
(***************************************************************************)
Due(s) == s \in active /\ since[s] < hand.ev.id /\ Topic[s] \in {hand.ev.type, All}

EverySubscriberIsCalled ==
    (hand.pc = "wait" /\ hand.ev # NoEvent) =>
        \A s \in Subs : Due(s) => seen[s] = hand.ev.id

(***************************************************************************)
(* A subscriber sees each event at most once and in the order of their     *)
(* identities, and a subscriber that has panicked is never called again.   *)
(***************************************************************************)
CalledInOrder ==
    [][\A s \in Subs : seen'[s] # seen[s] =>
          seen'[s] > seen[s] /\ s \notin quarantined]_vars

(***************************************************************************)
(* An overload is announced: a bus that refuses work gets its overload     *)
(* event to the subscribers, also when it is closed meanwhile.  (Only the  *)
(* shutdown event still enters the queue behind it.)                       *)
(***************************************************************************)
OverloadIsAnnounced ==
    (bus.overloaded /\ hand.ev.type # "RuntimeShutdown")
        ~> (hand.ev.type = "RuntimeOverloaded")

(***************************************************************************)
(* Close drains: the dispatch goroutine ends, and then nothing is queued   *)
(* ("rejects new work and drains queued events").                          *)
(***************************************************************************)
CloseDrains == bus.closed ~> (hand.pc = "done" /\ bus.queue = <<>>)

(***************************************************************************)
(* Delivery as a whole (Subscribe, Publish, dispatch): nobody is skipped,  *)
(* nobody is called twice or out of order, and nobody who panicked again.  *)
(***************************************************************************)
EachIsCalledInOrder == []EverySubscriberIsCalled /\ CalledInOrder

(***************************************************************************)
(* The dispatch goroutine gets to the end (dispatch, Close): of the queue  *)
(* when the bus is closed, and to the announcement of an overload.         *)
(***************************************************************************)
DispatchGetsThere == CloseDrains /\ OverloadIsAnnounced
=============================================================================
