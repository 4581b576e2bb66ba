------------------------------ MODULE BusQueue ------------------------------
(***************************************************************************)
(* The queue of the event bus (runtime/events/bus.go) as a value: what one *)
(* call of Publish does to it.  EventBus gives the bus its goroutine and   *)
(* its subscribers; the runtime modules carry such a value as their bus.   *)
(***************************************************************************)
EXTENDS Naturals, Sequences

CONSTANTS
    Capacity,           \* 4096 in the code: events held before the bus overloads
    LogCapacity         \* 1024 in the code: events held before WorkerLog is shed

ASSUME CapacityAssumption ==
    /\ Capacity \in Nat \ {0}
    /\ LogCapacity \in 1..Capacity

(***************************************************************************)
(* A bus value: the queued events, and the two flags that make Publish     *)
(* refuse an event.                                                        *)
(***************************************************************************)
BusValue(Event) ==
    [queue: Seq(Event), overloaded: BOOLEAN, closed: BOOLEAN]

EmptyBus == [queue |-> <<>>, overloaded |-> FALSE, closed |-> FALSE]

(***************************************************************************)
(* Publish discards the event when the bus is closed, when it is           *)
(* overloaded (except the shutdown event), or when it is a log line and    *)
(* the queue is long.                                                      *)
(***************************************************************************)
Refused(b, isLog, isShutdown) ==
    \/ b.closed
    \/ b.overloaded /\ ~isShutdown
    \/ isLog /\ Len(b.queue) >= LogCapacity

(* Wrong: the queue is discarded and nobody is told. *)
EnqueueForgetting(b, ev, overload, isLog, isShutdown) ==
    IF Refused(b, isLog, isShutdown) THEN b
    ELSE IF Len(b.queue) >= Capacity
         THEN [b EXCEPT !.queue = <<>>, !.overloaded = TRUE]
         ELSE [b EXCEPT !.queue = Append(@, ev)]

(***************************************************************************)
(* The value of the bus after Publish(ev).  A full queue is replaced by    *)
(* the single event `overload', and the bus refuses further events.        *)
(***************************************************************************)
Enqueue(b, ev, overload, isLog, isShutdown) ==
    IF Refused(b, isLog, isShutdown) THEN b
    ELSE IF Len(b.queue) >= Capacity
         THEN [b EXCEPT !.queue = <<overload>>, !.overloaded = TRUE]
         ELSE [b EXCEPT !.queue = Append(@, ev)]

Accepting(b) == ~b.closed /\ ~b.overloaded
=============================================================================
