--------------------------- MODULE EventBusProofs ---------------------------
(***************************************************************************)
(* Proofs about the event bus, for any subscriptions, topics and           *)
(* capacities: what its queue may lose, and whom its dispatch goroutine    *)
(* calls.                                                                  *)
(***************************************************************************)
EXTENDS EventBus, TLAPS

-----------------------------------------------------------------------------
(* Sequences. *)

LEMMA TailFacts ==
    ASSUME NEW S, NEW q \in Seq(S), q # <<>>
    PROVE  /\ Head(q) \in S /\ Head(q) = q[1]
           /\ Tail(q) \in Seq(S)
           /\ Len(q) \in Nat \ {0}
           /\ Len(Tail(q)) = Len(q) - 1
           /\ \A i \in 1..Len(q) - 1 : Tail(q)[i] = q[i + 1]
  OBVIOUS

LEMMA AppendFacts ==
    ASSUME NEW S, NEW q \in Seq(S), NEW x \in S
    PROVE  /\ Append(q, x) \in Seq(S)
           /\ Len(Append(q, x)) = Len(q) + 1
           /\ \A i \in 1..Len(q) : Append(q, x)[i] = q[i]
           /\ Append(q, x)[Len(q) + 1] = x
  OBVIOUS

LEMMA ConcatFacts ==
    ASSUME NEW S, NEW p \in Seq(S), NEW q \in Seq(S)
    PROVE  /\ p \o q \in Seq(S)
           /\ Len(p \o q) = Len(p) + Len(q)
           /\ \A i \in 1..Len(p \o q) :
                 (p \o q)[i] = IF i <= Len(p) THEN p[i] ELSE q[i - Len(p)]
  OBVIOUS

(***************************************************************************)
(* Taking the entry at one place off a list keeps the others.              *)
(***************************************************************************)
LEMMA WithoutFacts ==
    ASSUME NEW S, NEW q \in Seq(S), NEW i \in 1..Len(q)
    PROVE  /\ Without(q, i) \in Seq(S)
           /\ Len(Without(q, i)) = Len(q) - 1
           /\ \A j \in 1..Len(q) - 1 : Without(q, i)[j] = IF j < i THEN q[j] ELSE q[j + 1]
  <1> DEFINE p == SubSeq(q, 1, i - 1)
             r == SubSeq(q, i + 1, Len(q))
  <1>1. p \in Seq(S) /\ Len(p) = i - 1 /\ \A j \in 1..i - 1 : p[j] = q[j]
    OBVIOUS
  <1>2. r \in Seq(S) /\ Len(r) = Len(q) - i /\ \A j \in 1..Len(q) - i : r[j] = q[i + j]
    OBVIOUS
  <1>3. Without(q, i) = p \o r
    BY DEF Without
  <1> HIDE DEF p, r
  <1>4. /\ p \o r \in Seq(S)
        /\ Len(p \o r) = Len(q) - 1
        /\ \A j \in 1..Len(q) - 1 : (p \o r)[j] = IF j <= i - 1 THEN p[j] ELSE r[j - (i - 1)]
    <2>1. /\ p \o r \in Seq(S)
          /\ Len(p \o r) = Len(p) + Len(r)
          /\ \A j \in 1..Len(p \o r) :
                (p \o r)[j] = IF j <= Len(p) THEN p[j] ELSE r[j - Len(p)]
      BY <1>1, <1>2, ConcatFacts
    <2>2. Len(p) = i - 1 /\ Len(p \o r) = Len(q) - 1
      BY <1>1, <1>2, <2>1
    <2> QED
      BY <2>1, <2>2
  <1>5. ASSUME NEW j \in 1..Len(q) - 1
        PROVE  (p \o r)[j] = IF j < i THEN q[j] ELSE q[j + 1]
    <2>1. CASE j < i
      BY <1>1, <1>4, <2>1
    <2>2. CASE ~(j < i)
      <3>1. j - (i - 1) \in 1..Len(q) - i /\ i + (j - (i - 1)) = j + 1
        BY <2>2
      <3> QED
        BY <1>2, <1>4, <2>2, <3>1
    <2> QED
      BY <2>1, <2>2
  <1> QED
    BY <1>3, <1>4, <1>5

Injective(q) == \A i \in 1..Len(q), j \in 1..Len(q) : q[i] = q[j] => i = j

LEMMA WithoutInjective ==
    ASSUME NEW S, NEW q \in Seq(S), NEW i \in 1..Len(q), Injective(q)
    PROVE  /\ Injective(Without(q, i))
           /\ \A s : Within(s, Without(q, i)) <=> Within(s, q) /\ s # q[i]
  <1> DEFINE w == Without(q, i)
  <1>1. /\ Len(w) = Len(q) - 1
        /\ \A j \in 1..Len(q) - 1 : w[j] = IF j < i THEN q[j] ELSE q[j + 1]
        /\ Len(q) \in Nat
    BY WithoutFacts
  <1> HIDE DEF w
  <1>2. Injective(w)
    BY <1>1 DEF Injective
  <1>3. ASSUME NEW s, Within(s, w) PROVE Within(s, q) /\ s # q[i]
    <2>1. PICK j \in 1..Len(q) - 1 : w[j] = s
      BY <1>1, <1>3 DEF Within
    <2> QED
      BY <1>1, <2>1 DEF Injective, Within
  <1>4. ASSUME NEW s, Within(s, q), s # q[i] PROVE Within(s, w)
    <2>1. PICK k \in 1..Len(q) : q[k] = s
      BY <1>4 DEF Within
    <2>2. CASE k < i
      <3>1. k \in 1..Len(w) /\ w[k] = s
        BY <1>1, <2>1, <2>2
      <3> QED
        BY <3>1 DEF Within
    <2>3. CASE k > i
      <3>1. k - 1 \in 1..Len(w) /\ w[k - 1] = s
        BY <1>1, <2>1, <2>3
      <3> QED
        BY <3>1 DEF Within
    <2> QED
      BY <1>4, <2>1, <2>2, <2>3
  <1> QED
    BY <1>2, <1>3, <1>4 DEF w

-----------------------------------------------------------------------------
(* Publishing. *)

(***************************************************************************)
(* A publication is refused, makes the bus overload, or appends one event  *)
(* with the next identity.                                                 *)
(***************************************************************************)
Overloads(t) ==
    /\ seq' = seq + 1
    /\ bus' = [bus EXCEPT !.queue = <<[id |-> seq + 1, type |-> "RuntimeOverloaded"]>>,
                          !.overloaded = TRUE]

Appends(t) ==
    /\ Len(bus.queue) < Capacity
    /\ seq' = seq + 1
    /\ bus' = [bus EXCEPT !.queue = Append(@, [id |-> seq + 1, type |-> t])]

LEMMA PublishSplit ==
    ASSUME TypeOK, NEW t \in EventType, Publish(t)
    PROVE  UNCHANGED <<bus, seq>> \/ Overloads(t) \/ Appends(t)
  <1>1. Len(bus.queue) \in Nat /\ Capacity \in Nat
    BY CapacityAssumption DEF TypeOK, BusValue
  <1> QED
    BY <1>1 DEF Publish, Enqueue, Overloads, Appends

LEMMA PublishTypes ==
    ASSUME TypeOK, NEW t \in EventType, Publish(t)
    PROVE  bus' \in BusValue(Event) /\ seq' \in Nat
  <1>0. bus \in BusValue(Event) /\ bus.queue \in Seq(Event) /\ seq \in Nat
    BY DEF TypeOK, BusValue
  <1>1. CASE Overloads(t)
    <2> DEFINE overload == [id |-> seq + 1, type |-> "RuntimeOverloaded"]
    <2>1. overload \in Event
      BY <1>0 DEF Event, EventType
    <2>2. /\ seq' \in Nat
          /\ bus' = [bus EXCEPT !.queue = <<overload>>, !.overloaded = TRUE]
      BY <1>0, <1>1 DEF Overloads
    <2> HIDE DEF overload
    <2>3. <<overload>> \in Seq(Event)
      BY <2>1
    <2> QED
      BY <1>0, <2>2, <2>3 DEF BusValue
  <1>2. CASE Appends(t)
    <2> DEFINE ev == [id |-> seq + 1, type |-> t]
    <2>1. ev \in Event
      BY <1>0 DEF Event
    <2>2. Append(bus.queue, ev) \in Seq(Event)
      BY <1>0, <2>1, AppendFacts
    <2>3. bus' = [bus EXCEPT !.queue = Append(bus.queue, ev)]
      BY <1>2 DEF Appends
    <2>4. seq' \in Nat
      BY <1>0, <1>2 DEF Appends
    <2> HIDE DEF ev
    <2> QED
      BY <1>0, <2>2, <2>3, <2>4 DEF BusValue
  <1>3. CASE UNCHANGED <<bus, seq>>
    BY <1>0, <1>3
  <1> QED
    BY <1>1, <1>2, <1>3, PublishSplit

(***************************************************************************)
(* The steps that publish, and what else they do.                          *)
(***************************************************************************)
Publishing ==
    \/ \E t \in PublishedType : PublishFromOutside(t) \/ PublishFromHandler(t)
    \/ Panic

LEMMA PublishedTypes == PublishedType \subseteq EventType /\ "SubscriberPanicked" \in EventType
  BY DEF EventType

LEMMA PublishingPublishes ==
    ASSUME Publishing
    PROVE  \E t \in EventType : Publish(t)
  BY PublishedTypes DEF Publishing, PublishFromOutside, PublishFromHandler, Panic

-----------------------------------------------------------------------------
(* Types.  A handler runs for the head of the copy. *)

Calling == hand.pc = "call" => hand.todo # <<>>

LEMMA TypeInit == Init => TypeOK /\ Calling
  <1>1. ASSUME Init PROVE hand \in Hand
    BY <1>1 DEF Init, Hand
  <1>2. ASSUME Init PROVE bus \in BusValue(Event)
    BY <1>2 DEF Init, EmptyBus, BusValue
  <1>3. ASSUME Init PROVE lists \in [EventType \cup {All} -> Seq(Subs)]
    BY <1>3 DEF Init
  <1> QED
    BY <1>1, <1>2, <1>3 DEF Init, TypeOK, Calling

LEMMA TypeStep == TypeOK /\ Calling /\ [Next]_vars => TypeOK' /\ Calling'
  <1> SUFFICES ASSUME TypeOK, Calling, [Next]_vars PROVE TypeOK' /\ Calling'
    OBVIOUS
  <1>0. /\ bus \in BusValue(Event) /\ bus.queue \in Seq(Event) /\ seq \in Nat
        /\ hand \in Hand /\ hand.todo \in Seq(Subs) /\ hand.ev \in Event \cup {NoEvent}
        /\ hand.ev.id \in Nat
        /\ seen \in [Subs -> Nat] /\ since \in [Subs -> Nat]
        /\ lists \in [EventType \cup {All} -> Seq(Subs)]
    BY DEF TypeOK, BusValue, Hand, Event, NoEvent
  <1>t. \A s \in Subs : Topic[s] \in EventType \cup {All}
    BY EventBusAssumption
  <1>1. ASSUME NEW t \in PublishedType, PublishFromOutside(t) \/ PublishFromHandler(t)
        PROVE  TypeOK' /\ Calling'
    <2>1. bus' \in BusValue(Event) /\ seq' \in Nat
      BY <1>1, PublishTypes, PublishedTypes DEF PublishFromOutside, PublishFromHandler
    <2> QED
      BY <1>1, <2>1 DEF PublishFromOutside, PublishFromHandler, TypeOK, Calling
  <1>2. CASE Panic
    <2>1. bus' \in BusValue(Event) /\ seq' \in Nat
      BY <1>2, PublishTypes, PublishedTypes DEF Panic
    <2>2. Tail(hand.todo) \in Seq(Subs) /\ Head(hand.todo) \in Subs
      BY <1>0, <1>2, TailFacts DEF Panic, Calling
    <2>3. hand' \in Hand /\ hand'.pc = "walk"
      BY <1>0, <1>2, <2>2 DEF Panic, Hand
    <2> QED
      BY <1>2, <2>1, <2>2, <2>3 DEF Panic, TypeOK, Calling
  <1>3. CASE Take
    <2>1. Head(bus.queue) \in Event /\ Tail(bus.queue) \in Seq(Event)
      BY <1>0, <1>3, TailFacts DEF Take
    <2>2. Head(bus.queue).type \in EventType
      BY <2>1 DEF Event
    <2>3. lists[Head(bus.queue).type] \o lists[All] \in Seq(Subs)
      BY <1>0, <2>2, ConcatFacts
    <2>4. hand' \in Hand /\ hand'.pc = "walk"
      BY <1>3, <2>1, <2>3 DEF Take, Hand
    <2>5. bus' \in BusValue(Event)
      BY <1>0, <1>3, <2>1 DEF Take, BusValue
    <2> QED
      BY <1>3, <2>4, <2>5 DEF Take, TypeOK, Calling
  <1>4. CASE Call
    <2>1. Tail(hand.todo) \in Seq(Subs) /\ Head(hand.todo) \in Subs
      BY <1>0, <1>4, TailFacts DEF Call
    <2>2. hand' \in Hand /\ (hand'.pc = "call" => hand'.todo # <<>>)
      BY <1>0, <1>4, <2>1 DEF Call, Hand
    <2>3. seen' \in [Subs -> Nat]
      BY <1>0, <1>4, <2>1 DEF Call
    <2> QED
      BY <1>4, <2>2, <2>3 DEF Call, TypeOK, Calling
  <1>5. CASE Return
    <2>1. Tail(hand.todo) \in Seq(Subs)
      BY <1>0, <1>5, TailFacts DEF Return, Calling
    <2>2. hand' \in Hand /\ hand'.pc = "walk"
      BY <1>0, <1>5, <2>1 DEF Return, Hand
    <2> QED
      BY <1>5, <2>2 DEF Return, TypeOK, Calling
  <1>6. CASE Finish \/ Exit
    <2>1. hand' \in Hand /\ hand'.pc # "call"
      BY <1>0, <1>6 DEF Finish, Exit, Hand
    <2> QED
      BY <1>6, <2>1 DEF Finish, Exit, TypeOK, Calling
  <1>7. ASSUME NEW s \in Subs, Subscribe(s)
        PROVE  TypeOK' /\ Calling'
    <2>1. Append(lists[Topic[s]], s) \in Seq(Subs)
      BY <1>0, <1>t, AppendFacts
    <2>2. lists' \in [EventType \cup {All} -> Seq(Subs)]
      BY <1>0, <1>7, <2>1 DEF Subscribe
    <2>3. since' \in [Subs -> Nat]
      BY <1>0, <1>7 DEF Subscribe
    <2> QED
      BY <1>7, <2>2, <2>3 DEF Subscribe, TypeOK, Calling
  <1>8. ASSUME NEW s \in Subs, Unsubscribe(s)
        PROVE  TypeOK' /\ Calling'
    BY <1>8 DEF Unsubscribe, TypeOK, Calling
  <1>9. ASSUME NEW s \in Subs, Remove(s)
        PROVE  TypeOK' /\ Calling'
    <2>1. PICK i \in 1..Len(lists[Topic[s]]) :
             lists' = [lists EXCEPT ![Topic[s]] = Without(@, i)]
      BY <1>9 DEF Remove, Shortened
    <2>2. Without(lists[Topic[s]], i) \in Seq(Subs)
      BY <1>0, <1>t, WithoutFacts
    <2>3. lists' \in [EventType \cup {All} -> Seq(Subs)]
      BY <1>0, <2>1, <2>2
    <2> QED
      BY <1>9, <2>3 DEF Remove, TypeOK, Calling
  <1>10. CASE Close
    <2>1. bus' \in BusValue(Event)
      BY <1>0, <1>10 DEF Close, BusValue
    <2> QED
      BY <1>10, <2>1 DEF Close, TypeOK, Calling
  <1>11. CASE UNCHANGED vars
    BY <1>11 DEF vars, TypeOK, Calling
  <1> QED
    BY <1>1, <1>2, <1>3, <1>4, <1>5, <1>6, <1>7, <1>8, <1>9, <1>10, <1>11 DEF Next, Dispatch

LEMMA TypeInvariance == Spec => [](TypeOK /\ Calling)
  BY TypeInit, TypeStep, PTL DEF Spec

(***************************************************************************)
(* Every variable of the bus keeps its type.                               *)
(***************************************************************************)
THEOREM TypeCorrect == Spec => []TypeOK
  BY TypeInvariance, PTL

-----------------------------------------------------------------------------
(* The queue. *)

(***************************************************************************)
(* What a step does to the queue: nothing, a publication, or the taking of *)
(* the event at its head.                                                  *)
(***************************************************************************)
Quiet == UNCHANGED <<seq, bus.queue, bus.overloaded, hand.ev>>

LEMMA QueueSteps ==
    ASSUME TypeOK, [Next]_vars
    PROVE  \/ Quiet
           \/ \E t \in EventType : (Overloads(t) \/ Appends(t)) /\ hand'.ev = hand.ev
           \/ Take
  <1>0. bus \in BusValue(Event) /\ hand \in Hand
    BY DEF TypeOK
  <1>1. CASE Publishing
    <2>1. hand'.ev = hand.ev
      BY <1>0, <1>1 DEF Publishing, PublishFromOutside, PublishFromHandler, Panic, Hand
    <2> QED
      BY <1>1, <2>1, PublishingPublishes, PublishSplit DEF Quiet
  <1>2. CASE Call \/ Return \/ Finish \/ Exit
    BY <1>0, <1>2 DEF Call, Return, Finish, Exit, Hand, Quiet
  <1>3. CASE \E s \in Subs : Subscribe(s) \/ Unsubscribe(s) \/ Remove(s)
    BY <1>3 DEF Subscribe, Unsubscribe, Remove, Quiet
  <1>4. CASE Close
    BY <1>0, <1>4 DEF Close, BusValue, Quiet
  <1>5. CASE UNCHANGED vars
    BY <1>5 DEF vars, Quiet
  <1> QED
    BY <1>1, <1>2, <1>3, <1>4, <1>5 DEF Next, Dispatch, Publishing

LEMMA LossStep == TypeOK /\ NoSilentLoss /\ [Next]_vars => NoSilentLoss'
  <1> SUFFICES ASSUME TypeOK, NoSilentLoss, [Next]_vars PROVE NoSilentLoss'
    OBVIOUS
  <1>0. /\ bus \in BusValue(Event) /\ bus.queue \in Seq(Event) /\ seq \in Nat
        /\ Len(bus.queue) \in Nat /\ hand.ev.id \in Nat
        /\ Capacity \in Nat \ {0}
    BY CapacityAssumption DEF TypeOK, BusValue, Hand, Event, NoEvent
  <1>1. CASE Quiet
    BY <1>1 DEF Quiet, NoSilentLoss
  <1>2. CASE \E t \in EventType : (Overloads(t) \/ Appends(t)) /\ hand'.ev = hand.ev
    <2>1. PICK t \in EventType : (Overloads(t) \/ Appends(t)) /\ hand'.ev = hand.ev
      BY <1>2
    <2>2. CASE Overloads(t)
      <3>1. bus'.overloaded /\ Len(bus'.queue) = 1
        BY <1>0, <2>2 DEF Overloads, BusValue
      <3> QED
        BY <1>0, <3>1 DEF NoSilentLoss
    <2>3. CASE Appends(t)
      <3> DEFINE ev == [id |-> seq + 1, type |-> t]
      <3>1. ev \in Event /\ ev.id = seq + 1
        BY <1>0 DEF Event
      <3>2. /\ bus'.queue = Append(bus.queue, ev)
            /\ bus'.overloaded = bus.overloaded
            /\ seq' = seq + 1
            /\ Len(bus.queue) < Capacity
        BY <1>0, <2>3 DEF Appends, BusValue
      <3> HIDE DEF ev
      <3>3. /\ Len(bus'.queue) = Len(bus.queue) + 1
            /\ \A i \in 1..Len(bus.queue) : bus'.queue[i] = bus.queue[i]
            /\ bus'.queue[Len(bus.queue) + 1].id = seq + 1
        BY <1>0, <3>1, <3>2, AppendFacts
      <3>4. Len(bus'.queue) <= Capacity
        BY <1>0, <3>2, <3>3
      <3>5. ASSUME ~bus.overloaded
            PROVE  /\ seq' = hand'.ev.id + Len(bus'.queue)
                   /\ \A i \in 1..Len(bus'.queue) : bus'.queue[i].id = hand'.ev.id + i
        <4>1. /\ seq = hand.ev.id + Len(bus.queue)
              /\ \A i \in 1..Len(bus.queue) : bus.queue[i].id = hand.ev.id + i
          BY <3>5 DEF NoSilentLoss
        <4>2. hand'.ev.id = hand.ev.id
          BY <2>1
        <4>3. seq' = hand'.ev.id + Len(bus'.queue)
          BY <1>0, <3>2, <3>3, <4>1, <4>2
        <4>4. ASSUME NEW i \in 1..Len(bus'.queue)
              PROVE  bus'.queue[i].id = hand'.ev.id + i
          <5>1. i \in 1..Len(bus.queue) \/ i = Len(bus.queue) + 1
            BY <1>0, <3>3
          <5>2. CASE i \in 1..Len(bus.queue)
            BY <3>3, <4>1, <4>2, <5>2
          <5>3. CASE i = Len(bus.queue) + 1
            BY <1>0, <3>3, <4>1, <4>2, <5>3
          <5> QED
            BY <5>1, <5>2, <5>3
        <4> QED
          BY <4>3, <4>4
      <3> QED
        BY <3>2, <3>4, <3>5 DEF NoSilentLoss
    <2> QED
      BY <2>1, <2>2, <2>3
  <1>3. CASE Take
    <2>1. /\ bus.queue # <<>>
          /\ bus'.queue = Tail(bus.queue)
          /\ bus'.overloaded = bus.overloaded
          /\ hand'.ev = Head(bus.queue)
          /\ seq' = seq
      BY <1>0, <1>3 DEF Take, BusValue
    <2>2. /\ Head(bus.queue) = bus.queue[1]
          /\ Len(bus.queue) \in Nat \ {0}
          /\ Len(bus'.queue) = Len(bus.queue) - 1
          /\ \A i \in 1..Len(bus.queue) - 1 : bus'.queue[i] = bus.queue[i + 1]
      BY <1>0, <2>1, TailFacts
    <2>3. Len(bus'.queue) <= Capacity
      BY <1>0, <2>2 DEF NoSilentLoss
    <2>4. ASSUME ~bus.overloaded
          PROVE  /\ seq' = hand'.ev.id + Len(bus'.queue)
                 /\ \A i \in 1..Len(bus'.queue) : bus'.queue[i].id = hand'.ev.id + i
      <3>1. /\ seq = hand.ev.id + Len(bus.queue)
            /\ \A i \in 1..Len(bus.queue) : bus.queue[i].id = hand.ev.id + i
        <4>1. ~bus.overloaded =>
                 /\ seq = hand.ev.id + Len(bus.queue)
                 /\ \A i \in 1..Len(bus.queue) : bus.queue[i].id = hand.ev.id + i
          BY DEF NoSilentLoss
        <4> QED
          BY <2>4, <4>1, Zenon
      <3>0. hand'.ev.id = hand.ev.id + 1
        <4>1. 1 \in 1..Len(bus.queue) /\ hand'.ev = bus.queue[1]
          BY <2>1, <2>2
        <4>2. bus.queue[1].id = hand.ev.id + 1
          BY <3>1, <4>1
        <4> QED
          BY <4>1, <4>2
      <3>2. seq' = hand'.ev.id + Len(bus'.queue)
        <4>1. \A n \in Nat, m \in Nat : n + m = (n + 1) + (m - 1)
          OBVIOUS
        <4>2. seq' = hand.ev.id + Len(bus.queue)
          BY <2>1, <3>1
        <4>3. hand.ev.id \in Nat /\ Len(bus.queue) \in Nat
          BY <1>0
        <4>4. seq' = (hand.ev.id + 1) + (Len(bus.queue) - 1)
          BY <4>1, <4>2, <4>3
        <4> QED
          BY <2>2, <3>0, <4>4
      <3>3. ASSUME NEW i \in 1..Len(bus'.queue)
            PROVE  bus'.queue[i].id = hand'.ev.id + i
        <4>1. i + 1 \in 1..Len(bus.queue) /\ bus'.queue[i] = bus.queue[i + 1]
          BY <2>2
        <4>2. bus.queue[i + 1].id = hand.ev.id + (i + 1)
          BY <3>1, <4>1
        <4>3. \A h \in Nat : h + (i + 1) = (h + 1) + i
          BY <2>2
        <4>4. bus'.queue[i].id = (hand.ev.id + 1) + i
          BY <1>0, <4>1, <4>2, <4>3
        <4> QED
          BY <3>0, <4>4
      <3> QED
        BY <3>2, <3>3
    <2> QED
      BY <2>1, <2>3, <2>4 DEF NoSilentLoss
  <1> QED
    BY <1>1, <1>2, <1>3, QueueSteps

(***************************************************************************)
(* Unless the bus has overloaded, the queue holds exactly the events after *)
(* the one taken last, in order, and never more than Capacity (Publish,    *)
(* dispatch).                                                              *)
(***************************************************************************)
THEOREM NothingLostSilently == Spec => []NoSilentLoss
  <1>1. Init => NoSilentLoss
    BY CapacityAssumption DEF Init, NoSilentLoss, EmptyBus, NoEvent
  <1> QED
    BY <1>1, TypeInvariance, LossStep, PTL DEF Spec

-----------------------------------------------------------------------------
(* Delivery. *)

(* The identities grow along the queue, behind the event at hand.           *)
Ordered ==
    /\ hand.ev.id <= seq
    /\ \A i \in 1..Len(bus.queue) : hand.ev.id < bus.queue[i].id /\ bus.queue[i].id <= seq
    /\ \A i \in 1..Len(bus.queue), j \in 1..Len(bus.queue) :
          i < j => bus.queue[i].id < bus.queue[j].id

(* A list holds the subscriptions of its topic, each once. *)
Listed ==
    \A t \in EventType \cup {All} :
        /\ Injective(lists[t])
        /\ \A i \in 1..Len(lists[t]) : Topic[lists[t][i]] = t

(* An active subscription is on its list and stays there. *)
ActiveListed == \A s \in active : Subscribed(s) /\ s \notin leaving /\ s \notin quarantined

(* The copy holds each subscriber once.  Those behind the one that is called *)
(* have not seen the event at hand yet, and nobody has seen a later one.     *)
Pending(i) == hand.pc = "walk" \/ i > 1
Copied ==
    /\ Injective(hand.todo)
    /\ hand.pc \in {"wait", "done"} => hand.todo = <<>>
    /\ hand.pc = "call" => seen[Head(hand.todo)] = hand.ev.id
    /\ \A s \in Subs : seen[s] <= hand.ev.id
    /\ \A i \in 1..Len(hand.todo) : Pending(i) => seen[hand.todo[i]] < hand.ev.id

(* Who is due has been called or is still on the copy. *)
Covered == \A s \in Subs : Due(s) => seen[s] = hand.ev.id \/ Within(s, hand.todo)

DeliveryInv == Ordered /\ Listed /\ ActiveListed /\ Copied /\ Covered

LEMMA OrderedStep ==
    ASSUME TypeOK, Ordered, [Next]_vars
    PROVE  Ordered'
  <1>0. /\ bus \in BusValue(Event) /\ bus.queue \in Seq(Event) /\ seq \in Nat
        /\ Len(bus.queue) \in Nat /\ hand.ev.id \in Nat
    BY DEF TypeOK, BusValue, Hand, Event, NoEvent
  <1>q. \A i \in 1..Len(bus.queue) : bus.queue[i].id \in Nat
    <2>1. \A i \in 1..Len(bus.queue) : bus.queue[i] \in Event
      BY <1>0
    <2> QED
      BY <2>1 DEF Event
  <1>1. CASE Quiet
    BY <1>1 DEF Quiet, Ordered
  <1>2. CASE \E t \in EventType : (Overloads(t) \/ Appends(t)) /\ hand'.ev = hand.ev
    <2>1. PICK t \in EventType : (Overloads(t) \/ Appends(t)) /\ hand'.ev = hand.ev
      BY <1>2
    <2>2. CASE Overloads(t)
      <3>1. /\ Len(bus'.queue) = 1
            /\ bus'.queue[1].id = seq + 1
            /\ seq' = seq + 1
        BY <1>0, <2>2 DEF Overloads, BusValue
      <3> QED
        BY <1>0, <2>1, <3>1 DEF Ordered
    <2>3. CASE Appends(t)
      <3> DEFINE ev == [id |-> seq + 1, type |-> t]
      <3>1. ev \in Event /\ ev.id = seq + 1
        BY <1>0 DEF Event
      <3>2. bus'.queue = Append(bus.queue, ev) /\ seq' = seq + 1
        BY <1>0, <2>3 DEF Appends, BusValue
      <3> HIDE DEF ev
      <3>3. /\ Len(bus'.queue) = Len(bus.queue) + 1
            /\ \A i \in 1..Len(bus.queue) : bus'.queue[i] = bus.queue[i]
            /\ bus'.queue[Len(bus.queue) + 1].id = seq + 1
        BY <1>0, <3>1, <3>2, AppendFacts
      <3>4. \A i \in 1..Len(bus'.queue) : i \in 1..Len(bus.queue) \/ i = Len(bus.queue) + 1
        BY <1>0, <3>3
      <3>5. ASSUME NEW i \in 1..Len(bus'.queue)
            PROVE  hand.ev.id < bus'.queue[i].id /\ bus'.queue[i].id <= seq + 1
        <4>1. CASE i \in 1..Len(bus.queue)
          <5>1. bus'.queue[i].id = bus.queue[i].id /\ bus.queue[i].id \in Nat
            BY <1>q, <3>3, <4>1
          <5>2. hand.ev.id < bus.queue[i].id /\ bus.queue[i].id <= seq
            BY <4>1 DEF Ordered
          <5> QED
            BY <1>0, <5>1, <5>2
        <4>2. CASE i = Len(bus.queue) + 1
          <5>1. bus'.queue[i].id = seq + 1
            BY <3>3, <4>2
          <5>2. hand.ev.id <= seq
            BY DEF Ordered
          <5> QED
            BY <1>0, <5>1, <5>2
        <4> QED
          BY <3>4, <4>1, <4>2
      <3>6. ASSUME NEW i \in 1..Len(bus'.queue), NEW j \in 1..Len(bus'.queue), i < j
            PROVE  bus'.queue[i].id < bus'.queue[j].id
        <4>1. CASE j = Len(bus.queue) + 1
          <5>1. i \in 1..Len(bus.queue)
            BY <1>0, <3>3, <3>6, <4>1
          <5>2. bus.queue[i].id \in Nat /\ bus.queue[i].id <= seq
            BY <1>q, <5>1 DEF Ordered
          <5>3. bus'.queue[i].id = bus.queue[i].id /\ bus'.queue[j].id = seq + 1
            BY <3>3, <4>1, <5>1
          <5> QED
            BY <1>0, <5>2, <5>3
        <4>2. CASE j # Len(bus.queue) + 1
          <5>1. i \in 1..Len(bus.queue) /\ j \in 1..Len(bus.queue)
            BY <1>0, <3>3, <3>6, <4>2
          <5> QED
            BY <3>3, <3>6, <5>1 DEF Ordered
        <4> QED
          BY <4>1, <4>2
      <3>7. hand'.ev.id = hand.ev.id /\ seq' = seq + 1 /\ hand'.ev.id <= seq'
        BY <1>0, <2>1, <3>2 DEF Ordered
      <3>8. \A i \in 1..Len(bus'.queue) :
               hand'.ev.id < bus'.queue[i].id /\ bus'.queue[i].id <= seq'
        BY <3>5, <3>7
      <3> QED
        BY <3>6, <3>7, <3>8 DEF Ordered
    <2> QED
      BY <2>1, <2>2, <2>3
  <1>3. CASE Take
    <2>1. /\ bus.queue # <<>>
          /\ bus'.queue = Tail(bus.queue)
          /\ hand'.ev = Head(bus.queue)
          /\ seq' = seq
      BY <1>0, <1>3 DEF Take, BusValue
    <2>2. /\ Head(bus.queue) = bus.queue[1]
          /\ Len(bus.queue) \in Nat \ {0}
          /\ Len(bus'.queue) = Len(bus.queue) - 1
          /\ \A i \in 1..Len(bus.queue) - 1 : bus'.queue[i] = bus.queue[i + 1]
      BY <1>0, <2>1, TailFacts
    <2>3. hand'.ev.id = bus.queue[1].id /\ 1 \in 1..Len(bus.queue)
      BY <2>1, <2>2
    <2>4. \A i \in 1..Len(bus'.queue) : i + 1 \in 1..Len(bus.queue) /\ bus'.queue[i] = bus.queue[i + 1]
      BY <2>2
    <2>5. hand'.ev.id <= seq'
      BY <2>1, <2>3 DEF Ordered
    <2>6. \A i \in 1..Len(bus'.queue) : hand'.ev.id < bus'.queue[i].id /\ bus'.queue[i].id <= seq'
      BY <2>1, <2>3, <2>4 DEF Ordered
    <2>7. ASSUME NEW i \in 1..Len(bus'.queue), NEW j \in 1..Len(bus'.queue), i < j
          PROVE  bus'.queue[i].id < bus'.queue[j].id
      <3>1. i + 1 < j + 1
        BY <2>7
      <3> QED
        BY <2>4, <3>1 DEF Ordered
    <2> QED
      BY <2>5, <2>6, <2>7 DEF Ordered
  <1> QED
    BY <1>1, <1>2, <1>3, QueueSteps

(***************************************************************************)
(* The lists and the flags.                                                *)
(***************************************************************************)
LEMMA ListedStep ==
    ASSUME TypeOK, Listed, ActiveListed, [Next]_vars
    PROVE  Listed' /\ ActiveListed'
  <1>0. /\ lists \in [EventType \cup {All} -> Seq(Subs)]
        /\ active \subseteq Subs
    BY DEF TypeOK
  <1>t. \A s \in Subs : Topic[s] \in EventType \cup {All}
    BY EventBusAssumption
  <1>1. ASSUME NEW s \in Subs, Subscribe(s)
        PROVE  Listed' /\ ActiveListed'
    <2> DEFINE q == lists[Topic[s]]
    <2>1. q \in Seq(Subs) /\ Len(q) \in Nat
      BY <1>0, <1>t
    <2>2. /\ lists'[Topic[s]] = Append(q, s)
          /\ \A t \in EventType \cup {All} : t # Topic[s] => lists'[t] = lists[t]
      BY <1>0, <1>1, <1>t DEF Subscribe
    <2>3. /\ Injective(q) /\ ~Within(s, q)
          /\ \A i \in 1..Len(q) : Topic[q[i]] = Topic[s]
      BY <1>1, <1>t DEF Subscribe, Subscribed, Listed
    <2> HIDE DEF q
    <2>4. /\ Len(Append(q, s)) = Len(q) + 1
          /\ \A i \in 1..Len(q) : Append(q, s)[i] = q[i]
          /\ Append(q, s)[Len(q) + 1] = s
      BY <2>1, AppendFacts
    <2>5. Injective(Append(q, s))
      BY <2>1, <2>3, <2>4 DEF Injective, Within
    <2>6. \A i \in 1..Len(Append(q, s)) : Topic[Append(q, s)[i]] = Topic[s]
      BY <2>1, <2>3, <2>4
    <2>7. \A x : Within(x, q) \/ x = s => Within(x, Append(q, s))
      <3>1. ASSUME NEW x, Within(x, q) PROVE Within(x, Append(q, s))
        <4>1. PICK i \in 1..Len(q) : q[i] = x
          BY <3>1 DEF Within
        <4>2. i \in 1..Len(Append(q, s)) /\ Append(q, s)[i] = x
          BY <2>1, <2>4, <4>1
        <4> QED
          BY <4>2 DEF Within
      <3>2. Within(s, Append(q, s))
        <4>1. Len(q) + 1 \in 1..Len(Append(q, s))
          BY <2>1, <2>4
        <4> QED
          BY <2>4, <4>1 DEF Within
      <3> QED
        BY <3>1, <3>2
    <2>8. Listed'
      BY <2>2, <2>5, <2>6 DEF Listed
    <2>9. ASSUME NEW x \in active'
          PROVE  Within(x, lists'[Topic[x]]) /\ x \notin leaving' /\ x \notin quarantined'
      <3>1. UNCHANGED <<leaving, quarantined>> /\ s \notin leaving /\ s \notin quarantined
            /\ x \in active \cup {s}
        BY <1>1, <2>9 DEF Subscribe
      <3>2. CASE x = s
        BY <2>2, <2>7, <3>1, <3>2
      <3>3. CASE x \in active
        <4>1. Within(x, lists[Topic[x]]) /\ x \notin leaving /\ x \notin quarantined
          BY <3>3 DEF ActiveListed, Subscribed
        <4>2. CASE Topic[x] = Topic[s]
          BY <2>2, <2>7, <3>1, <4>1, <4>2 DEF q
        <4>3. CASE Topic[x] # Topic[s]
          BY <1>0, <1>t, <2>2, <3>1, <3>3, <4>1, <4>3
        <4> QED
          BY <4>2, <4>3
      <3> QED
        BY <3>1, <3>2, <3>3
    <2> QED
      BY <2>8, <2>9 DEF ActiveListed, Subscribed
  <1>2. ASSUME NEW s \in Subs, Remove(s)
        PROVE  Listed' /\ ActiveListed'
    <2> DEFINE q == lists[Topic[s]]
    <2>1. PICK i \in 1..Len(q) : q[i] = s /\ lists' = [lists EXCEPT ![Topic[s]] = Without(@, i)]
      BY <1>2 DEF Remove, Shortened
    <2>2. /\ lists'[Topic[s]] = Without(q, i)
          /\ \A t \in EventType \cup {All} : t # Topic[s] => lists'[t] = lists[t]
      BY <1>0, <1>t, <2>1
    <2>3. /\ q \in Seq(Subs) /\ Len(q) \in Nat /\ Injective(q)
          /\ \A j \in 1..Len(q) : Topic[q[j]] = Topic[s]
      BY <1>0, <1>t DEF Listed
    <2> HIDE DEF q
    <2>4. /\ Len(Without(q, i)) = Len(q) - 1
          /\ \A j \in 1..Len(q) - 1 : Without(q, i)[j] = IF j < i THEN q[j] ELSE q[j + 1]
      BY <2>1, <2>3, WithoutFacts
    <2>5. /\ Injective(Without(q, i))
          /\ \A x : Within(x, Without(q, i)) <=> Within(x, q) /\ x # q[i]
      BY <2>1, <2>3, WithoutInjective
    <2>6. \A j \in 1..Len(Without(q, i)) : Topic[Without(q, i)[j]] = Topic[s]
      BY <2>3, <2>4
    <2>7. Listed'
      BY <2>2, <2>5, <2>6 DEF Listed
    <2>8. ASSUME NEW x \in active
          PROVE  Within(x, lists'[Topic[x]])
      <3>1. Within(x, lists[Topic[x]]) /\ x # s
        BY <1>2, <2>8 DEF ActiveListed, Subscribed, Remove
      <3>2. CASE Topic[x] = Topic[s]
        BY <2>1, <2>2, <2>5, <3>1, <3>2 DEF q
      <3>3. CASE Topic[x] # Topic[s]
        BY <1>0, <1>t, <2>2, <2>8, <3>1, <3>3
      <3> QED
        BY <3>2, <3>3
    <2>9. ActiveListed'
      BY <1>2, <2>8 DEF Remove, ActiveListed, Subscribed
    <2> QED
      BY <2>7, <2>9
  <1>3. ASSUME NEW s \in Subs, Unsubscribe(s)
        PROVE  Listed' /\ ActiveListed'
    BY <1>3 DEF Unsubscribe, Listed, ActiveListed, Subscribed
  <1>4. CASE Panic
    BY <1>4 DEF Panic, Listed, ActiveListed, Subscribed
  <1>5. CASE UNCHANGED <<lists, active, leaving, quarantined>>
    BY <1>5 DEF Listed, ActiveListed, Subscribed
  <1>6. CASE \/ \E t \in PublishedType : PublishFromOutside(t) \/ PublishFromHandler(t)
             \/ Take \/ Call \/ Return \/ Finish \/ Exit \/ Close \/ UNCHANGED vars
    BY <1>5, <1>6 DEF PublishFromOutside, PublishFromHandler, Take, Call, Return, Finish, Exit,
                      Close, vars
  <1> QED
    BY <1>1, <1>2, <1>3, <1>4, <1>6 DEF Next, Dispatch

(***************************************************************************)
(* The copy.  Its steps: an event is taken, the head is called, the head   *)
(* is passed, and the copy is used up.                                     *)
(***************************************************************************)
Calls(s) ==
    /\ hand.todo # <<>>
    /\ s = Head(hand.todo)
    /\ hand.pc = "walk"
    /\ hand'.pc = "call"
    /\ hand'.todo = hand.todo
    /\ seen' = [seen EXCEPT ![s] = hand.ev.id]
    /\ s \in active
    /\ UNCHANGED <<active, since>>

Passes ==
    /\ hand.todo # <<>>
    /\ hand'.pc = "walk"
    /\ hand'.todo = Tail(hand.todo)
    /\ hand.pc = "call" \/ (hand.pc = "walk" /\ Head(hand.todo) \notin active)
    /\ active' \subseteq active
    /\ UNCHANGED <<seen, since>>

Idles ==
    /\ hand.todo = <<>>
    /\ hand'.todo = hand.todo
    /\ hand'.pc \in {"wait", "done"}
    /\ UNCHANGED <<seen, active, since>>

Stays == UNCHANGED <<hand, seen>>

LEMMA HandSteps ==
    ASSUME TypeOK, Calling, Copied, [Next]_vars
    PROVE  \/ Take
           \/ /\ hand'.ev = hand.ev
              /\ Calls(Head(hand.todo)) \/ Passes \/ Idles \/ Stays
  <1>0. hand \in Hand
    BY DEF TypeOK
  <1>1. CASE Call
    <2>1. CASE Head(hand.todo) \in active
      BY <1>0, <1>1, <2>1 DEF Call, Calls, Hand
    <2>2. CASE Head(hand.todo) \notin active
      BY <1>0, <1>1, <2>2 DEF Call, Passes, Hand
    <2> QED
      BY <2>1, <2>2
  <1>2. CASE Return \/ Panic
    BY <1>0, <1>2 DEF Return, Panic, Passes, Calling, Hand
  <1>3. CASE Finish \/ Exit
    BY <1>0, <1>3 DEF Finish, Exit, Idles, Copied, Hand
  <1>4. CASE \/ \E t \in PublishedType : PublishFromOutside(t) \/ PublishFromHandler(t)
             \/ \E s \in Subs : Subscribe(s) \/ Unsubscribe(s) \/ Remove(s)
             \/ Close \/ UNCHANGED vars
    BY <1>4 DEF PublishFromOutside, PublishFromHandler, Subscribe, Unsubscribe, Remove, Close,
                Stays, vars
  <1> QED
    BY <1>1, <1>2, <1>3, <1>4 DEF Next, Dispatch

(***************************************************************************)
(* Taking an event: the copy holds the subscribers of its type and those   *)
(* of all events.                                                          *)
(***************************************************************************)
LEMMA TakeEffect ==
    ASSUME TypeOK, Ordered, Listed, Take
    PROVE  /\ Injective(hand'.todo)
           /\ \A i \in 1..Len(hand'.todo) : hand'.todo[i] \in Subs
           /\ hand'.pc = "walk"
           /\ hand.pc = "wait"
           /\ hand.ev.id < hand'.ev.id
           /\ hand'.ev.id \in Nat
           /\ \A s \in Subs : (Subscribed(s) /\ Topic[s] \in {hand'.ev.type, All}) =>
                  Within(s, hand'.todo)
           /\ UNCHANGED <<seen, since, active>>
  <1>0. /\ bus.queue \in Seq(Event)
        /\ lists \in [EventType \cup {All} -> Seq(Subs)]
        /\ All \notin EventType
    BY EventBusAssumption DEF TypeOK, BusValue
  <1> DEFINE ev == Head(bus.queue)
             p == lists[ev.type]
             q == lists[All]
  <1>1. /\ hand' = [pc |-> "walk", ev |-> ev, todo |-> p \o q]
        /\ bus.queue # <<>> /\ hand.pc = "wait"
        /\ UNCHANGED <<seen, since, active>>
    BY DEF Take
  <1>2. ev \in Event /\ ev = bus.queue[1] /\ Len(bus.queue) \in Nat \ {0}
    BY <1>0, <1>1, TailFacts
  <1>3. ev.type \in EventType /\ ev.id \in Nat
    BY <1>2 DEF Event
  <1>4. hand.ev.id < ev.id
    BY <1>2 DEF Ordered
  <1>5. /\ p \in Seq(Subs) /\ q \in Seq(Subs)
        /\ Injective(p) /\ Injective(q)
        /\ \A i \in 1..Len(p) : Topic[p[i]] = ev.type
        /\ \A i \in 1..Len(q) : Topic[q[i]] = All
    BY <1>0, <1>3 DEF Listed
  <1>6. ev.type # All
    BY <1>0, <1>3
  <1>w. \A s \in Subs : (Subscribed(s) /\ Topic[s] \in {ev.type, All}) =>
           Within(s, p) \/ Within(s, q)
    BY DEF Subscribed
  <1> HIDE DEF ev, p, q
  <1>7. /\ p \o q \in Seq(Subs)
        /\ Len(p \o q) = Len(p) + Len(q)
        /\ \A i \in 1..Len(p \o q) :
              (p \o q)[i] = IF i <= Len(p) THEN p[i] ELSE q[i - Len(p)]
    BY <1>5, ConcatFacts
  <1>8. Len(p) \in Nat /\ Len(q) \in Nat
    BY <1>5
  <1>9. Injective(p \o q)
    <2> SUFFICES ASSUME NEW i \in 1..Len(p \o q), NEW j \in 1..Len(p \o q),
                        (p \o q)[i] = (p \o q)[j]
                 PROVE  i = j
      BY DEF Injective
    <2>1. CASE i <= Len(p) /\ j <= Len(p)
      BY <1>5, <1>7, <1>8, <2>1 DEF Injective
    <2>2. CASE i > Len(p) /\ j > Len(p)
      <3>1. i - Len(p) \in 1..Len(q) /\ j - Len(p) \in 1..Len(q)
        BY <1>7, <1>8, <2>2
      <3>2. q[i - Len(p)] = q[j - Len(p)]
        BY <1>7, <1>8, <2>2
      <3>3. i - Len(p) = j - Len(p)
        BY <1>5, <3>1, <3>2 DEF Injective
      <3> QED
        BY <1>8, <3>3
    <2>3. CASE i <= Len(p) /\ j > Len(p)
      <3>1. i \in 1..Len(p) /\ j - Len(p) \in 1..Len(q)
        BY <1>7, <1>8, <2>3
      <3>2. p[i] = q[j - Len(p)]
        BY <1>7, <1>8, <2>3
      <3> QED
        BY <1>5, <1>6, <3>1, <3>2
    <2>4. CASE i > Len(p) /\ j <= Len(p)
      <3>1. j \in 1..Len(p) /\ i - Len(p) \in 1..Len(q)
        BY <1>7, <1>8, <2>4
      <3>2. p[j] = q[i - Len(p)]
        BY <1>7, <1>8, <2>4
      <3> QED
        BY <1>5, <1>6, <3>1, <3>2
    <2> QED
      BY <1>7, <1>8, <2>1, <2>2, <2>3, <2>4
  <1>10. ASSUME NEW s, Within(s, p) \/ Within(s, q)
         PROVE  Within(s, p \o q)
    <2>1. CASE Within(s, p)
      <3>1. PICK i \in 1..Len(p) : p[i] = s
        BY <2>1 DEF Within
      <3>2. i \in 1..Len(p \o q) /\ (p \o q)[i] = s
        BY <1>7, <1>8, <3>1
      <3> QED
        BY <3>2 DEF Within
    <2>2. CASE Within(s, q)
      <3>1. PICK i \in 1..Len(q) : q[i] = s
        BY <2>2 DEF Within
      <3>2. Len(p) + i \in 1..Len(p \o q)
        BY <1>7, <1>8
      <3>3. (p \o q)[Len(p) + i] = q[(Len(p) + i) - Len(p)]
        BY <1>7, <1>8, <3>2
      <3>4. (Len(p) + i) - Len(p) = i
        BY <1>8
      <3> QED
        BY <3>1, <3>2, <3>3, <3>4 DEF Within
    <2> QED
      BY <1>10, <2>1, <2>2
  <1>11. \A i \in 1..Len(p \o q) : (p \o q)[i] \in Subs
    BY <1>7
  <1>12. hand'.todo = p \o q /\ hand'.ev = ev /\ hand'.pc = "walk"
    BY <1>1
  <1> QED
    BY <1>1, <1>3, <1>4, <1>9, <1>10, <1>11, <1>12, <1>w

LEMMA CopiedStep ==
    ASSUME TypeOK, Calling, Ordered, Listed, Copied, [Next]_vars
    PROVE  Copied'
  <1>0. /\ hand \in Hand /\ hand.todo \in Seq(Subs) /\ hand.ev.id \in Nat
        /\ hand.pc \in {"wait", "walk", "call", "done"}
        /\ Len(hand.todo) \in Nat
        /\ seen \in [Subs -> Nat]
    BY DEF TypeOK, Hand, Event, NoEvent
  <1>1. CASE Take
    <2>1. /\ Injective(hand'.todo)
          /\ \A i \in 1..Len(hand'.todo) : hand'.todo[i] \in Subs
          /\ hand'.pc = "walk"
          /\ hand.ev.id < hand'.ev.id /\ hand'.ev.id \in Nat
          /\ seen' = seen
      BY <1>1, TakeEffect
    <2>2. \A s \in Subs : seen'[s] < hand'.ev.id /\ seen'[s] <= hand'.ev.id
      BY <1>0, <2>1 DEF Copied
    <2> QED
      BY <2>1, <2>2 DEF Copied
  <1>2. CASE hand'.ev = hand.ev /\ Calls(Head(hand.todo))
    <2> DEFINE s == Head(hand.todo)
    <2>1. /\ s \in Subs /\ s = hand.todo[1] /\ Len(hand.todo) \in Nat \ {0}
          /\ hand'.todo = hand.todo /\ hand'.pc = "call"
          /\ seen' = [seen EXCEPT ![s] = hand.ev.id]
      BY <1>0, <1>2, TailFacts DEF Calls
    <2> HIDE DEF s
    <2>2. /\ seen'[s] = hand.ev.id
          /\ \A x \in Subs : x # s => seen'[x] = seen[x]
      BY <1>0, <2>1
    <2>3. \A x \in Subs : seen'[x] <= hand'.ev.id
      BY <1>0, <1>2, <2>2 DEF Copied
    <2>4. ASSUME NEW i \in 1..Len(hand'.todo), i > 1
          PROVE  seen'[hand'.todo[i]] < hand'.ev.id
      <3>1. hand.todo[i] \in Subs
        BY <1>0, <2>1
      <3>2. hand.todo[i] # s
        BY <2>1, <2>4 DEF Copied, Injective
      <3>3. seen[hand.todo[i]] < hand.ev.id
        BY <2>1, <2>4 DEF Copied, Pending
      <3> QED
        BY <1>2, <2>1, <2>2, <3>1, <3>2, <3>3
    <2>5. Head(hand'.todo) = s
      BY <2>1 DEF s
    <2> QED
      BY <1>2, <2>1, <2>2, <2>3, <2>4, <2>5 DEF Copied, Pending
  <1>3. CASE hand'.ev = hand.ev /\ Passes
    <2>1. /\ Len(hand.todo) \in Nat \ {0}
          /\ Len(hand'.todo) = Len(hand.todo) - 1
          /\ \A i \in 1..Len(hand.todo) - 1 : hand'.todo[i] = hand.todo[i + 1]
          /\ hand'.pc = "walk"
          /\ seen' = seen
          /\ hand.pc \in {"call", "walk"}
      BY <1>0, <1>3, TailFacts DEF Passes
    <2>2. \A i \in 1..Len(hand'.todo) : i + 1 \in 1..Len(hand.todo) /\ i + 1 > 1
      BY <2>1
    <2>3. Injective(hand'.todo)
      <3> SUFFICES ASSUME NEW i \in 1..Len(hand'.todo), NEW j \in 1..Len(hand'.todo),
                          hand'.todo[i] = hand'.todo[j]
                   PROVE  i = j
        BY DEF Injective
      <3>1. hand.todo[i + 1] = hand.todo[j + 1]
        BY <2>1
      <3>2. i + 1 = j + 1
        BY <2>2, <3>1 DEF Copied, Injective
      <3> QED
        BY <3>2
    <2>4. \A i \in 1..Len(hand'.todo) : seen'[hand'.todo[i]] < hand'.ev.id
      BY <1>3, <2>1, <2>2 DEF Copied, Pending
    <2> QED
      BY <1>3, <2>1, <2>3, <2>4 DEF Copied
  <1>4. CASE hand'.ev = hand.ev /\ Idles
    <2>1. Injective(hand'.todo) /\ hand'.todo = <<>> /\ Len(hand'.todo) = 0
      BY <1>4 DEF Idles, Injective
    <2> QED
      BY <1>4, <2>1 DEF Idles, Copied
  <1>5. CASE Stays
    BY <1>5 DEF Stays, Copied, Pending
  <1> QED
    BY <1>1, <1>2, <1>3, <1>4, <1>5, HandSteps

(***************************************************************************)
(* Nobody who is due leaves the copy uncalled.                             *)
(***************************************************************************)
LEMMA CoveredStep ==
    ASSUME TypeOK, Calling, DeliveryInv, [Next]_vars
    PROVE  Covered'
  <1> USE DEF DeliveryInv
  <1>0. /\ hand \in Hand /\ hand.todo \in Seq(Subs) /\ hand.ev.id \in Nat
        /\ Len(hand.todo) \in Nat
        /\ seen \in [Subs -> Nat] /\ active \subseteq Subs
    BY DEF TypeOK, Hand, Event, NoEvent
  <1> SUFFICES ASSUME NEW s \in Subs,
                      s \in active', since'[s] < hand'.ev.id, Topic[s] \in {hand'.ev.type, All}
               PROVE  seen'[s] = hand'.ev.id \/ Within(s, hand'.todo)
    BY DEF Covered, Due
  <1>1. CASE Take
    <2>1. s \in active
      BY <1>1, TakeEffect
    <2>2. Subscribed(s)
      BY <2>1 DEF ActiveListed
    <2> QED
      BY <1>1, <2>2, TakeEffect
  <1>2. ASSUME hand'.ev = hand.ev, active' \subseteq active, since' = since
        PROVE  seen[s] = hand.ev.id \/ Within(s, hand.todo)
    BY <1>2 DEF Covered, Due
  <1>3. CASE hand'.ev = hand.ev /\ Calls(Head(hand.todo))
    BY <1>0, <1>2, <1>3 DEF Calls
  <1>4. CASE hand'.ev = hand.ev /\ Passes
    <2>1. seen[s] = hand.ev.id \/ Within(s, hand.todo)
      BY <1>2, <1>4 DEF Passes
    <2>2. /\ Head(hand.todo) = hand.todo[1]
          /\ Len(hand.todo) \in Nat \ {0}
          /\ Len(hand'.todo) = Len(hand.todo) - 1
          /\ \A i \in 1..Len(hand.todo) - 1 : hand'.todo[i] = hand.todo[i + 1]
          /\ seen' = seen
      BY <1>0, <1>4, TailFacts DEF Passes
    <2>3. CASE Within(s, hand.todo) /\ s # Head(hand.todo)
      <3>1. PICK i \in 1..Len(hand.todo) : hand.todo[i] = s
        BY <2>3 DEF Within
      <3>2. i # 1
        BY <2>2, <2>3, <3>1
      <3>3. i - 1 \in 1..Len(hand'.todo) /\ (i - 1) + 1 = i
        BY <2>2, <3>2
      <3>4. hand'.todo[i - 1] = s
        BY <2>2, <3>1, <3>3
      <3> QED
        BY <3>3, <3>4 DEF Within
    <2>4. CASE s = Head(hand.todo)
      <3>1. s \in active
        BY <1>4 DEF Passes
      <3>2. hand.pc = "call"
        BY <1>4, <2>4, <3>1 DEF Passes
      <3> QED
        BY <1>4, <2>2, <2>4, <3>2 DEF Copied
    <2> QED
      BY <1>4, <2>1, <2>2, <2>3, <2>4
  <1>5. CASE hand'.ev = hand.ev /\ Idles
    BY <1>2, <1>5 DEF Idles
  <1>6. CASE Stays
    <2>1. CASE \E x \in Subs : Subscribe(x)
      <3>1. PICK x \in Subs : Subscribe(x)
        BY <2>1
      <3>2. CASE s = x
        <4>1. since'[s] = hand'.ev.id
          BY <3>1, <3>2 DEF Subscribe, TypeOK
        <4> QED
          BY <1>0, <1>6, <4>1 DEF Stays
      <3>3. CASE s # x
        <4>1. s \in active /\ since'[s] = since[s]
          BY <3>1, <3>3 DEF Subscribe, TypeOK
        <4> QED
          BY <1>6, <4>1 DEF Stays, Covered, Due
      <3> QED
        BY <3>2, <3>3
    <2>2. CASE ~\E x \in Subs : Subscribe(x)
      <3>1. active' \subseteq active /\ since' = since
        BY <2>2 DEF Next, Dispatch, Take, Call, Return, Panic, Finish, Exit, PublishFromOutside,
              PublishFromHandler, Unsubscribe, Remove, Close, vars
      <3> QED
        BY <1>2, <1>6, <3>1 DEF Stays
    <2> QED
      BY <2>1, <2>2
  <1> QED
    BY <1>1, <1>3, <1>4, <1>5, <1>6, HandSteps

LEMMA DeliveryInvariance == Spec => [](TypeOK /\ Calling /\ DeliveryInv)
  <1>1. Init => DeliveryInv
    <2> SUFFICES ASSUME Init PROVE DeliveryInv
      OBVIOUS
    <2>1. /\ bus.queue = <<>> /\ seq = 0 /\ hand.ev.id = 0 /\ hand.todo = <<>>
          /\ hand.pc = "wait" /\ active = {}
          /\ \A s \in Subs : seen[s] = 0
          /\ \A t \in EventType \cup {All} : lists[t] = <<>>
      BY DEF Init, EmptyBus, NoEvent
    <2>2. Injective(<<>>)
      BY DEF Injective
    <2>3. Ordered
      BY <2>1 DEF Ordered
    <2>4. Listed /\ ActiveListed
      BY <2>1, <2>2 DEF Listed, ActiveListed
    <2>5. Copied /\ Covered
      BY <2>1, <2>2 DEF Copied, Covered, Due
    <2> QED
      BY <2>3, <2>4, <2>5 DEF DeliveryInv
  <1>2. TypeOK /\ Calling /\ DeliveryInv /\ [Next]_vars => DeliveryInv'
    BY OrderedStep, ListedStep, CopiedStep, CoveredStep DEF DeliveryInv
  <1> QED
    BY <1>1, <1>2, TypeInvariance, PTL DEF Spec

(***************************************************************************)
(* No subscriber that is due is passed over, none sees an event twice or   *)
(* out of order, and none that has panicked is called again (dispatch,     *)
(* invoke, add).                                                           *)
(***************************************************************************)
THEOREM DeliveredInOrder == Spec => EachIsCalledInOrder
  <1> DEFINE Later == \A s \in Subs : seen'[s] # seen[s] =>
                          seen'[s] > seen[s] /\ s \notin quarantined
  <1>1. TypeOK /\ DeliveryInv => EverySubscriberIsCalled
    <2> SUFFICES ASSUME TypeOK, DeliveryInv, hand.pc = "wait", NEW s \in Subs, Due(s)
                 PROVE  seen[s] = hand.ev.id
      BY DEF EverySubscriberIsCalled
    <2>1. hand.todo = <<>>
      BY DEF DeliveryInv, Copied
    <2>2. ~Within(s, hand.todo)
      BY <2>1 DEF Within
    <2> QED
      BY <2>2 DEF DeliveryInv, Covered
  <1>2. TypeOK /\ Calling /\ DeliveryInv /\ [Next]_vars => Later
    <2> SUFFICES ASSUME TypeOK, Calling, DeliveryInv, [Next]_vars,
                        NEW s \in Subs, seen'[s] # seen[s]
                 PROVE  seen'[s] > seen[s] /\ s \notin quarantined
      OBVIOUS
    <2>1. hand.todo # <<>> /\ Calls(Head(hand.todo))
      BY HandSteps, TakeEffect DEF DeliveryInv, Passes, Idles, Stays, Calls
    <2>2. /\ hand.todo \in Seq(Subs) /\ seen \in [Subs -> Nat] /\ hand.ev.id \in Nat
          /\ Len(hand.todo) \in Nat \ {0}
          /\ Head(hand.todo) = hand.todo[1]
      <3>1. hand.todo \in Seq(Subs) /\ seen \in [Subs -> Nat] /\ hand.ev.id \in Nat
        BY DEF TypeOK, Hand, Event, NoEvent
      <3> QED
        BY <2>1, <3>1, TailFacts
    <2>3. s = Head(hand.todo) /\ seen'[s] = hand.ev.id /\ s \in active /\ hand.pc = "walk"
      BY <2>1, <2>2 DEF Calls
    <2>4. seen[s] < hand.ev.id
      BY <2>2, <2>3 DEF DeliveryInv, Copied, Pending
    <2>5. s \notin quarantined
      BY <2>3 DEF DeliveryInv, ActiveListed
    <2> QED
      BY <2>2, <2>3, <2>4, <2>5
  <1>3. TypeOK /\ Calling /\ DeliveryInv /\ [Next]_vars => [Later]_vars
    BY <1>2
  <1> QED
    BY <1>1, <1>3, DeliveryInvariance, PTL DEF Spec, EachIsCalledInOrder, CalledInOrder
=============================================================================
