-------------------------- MODULE StudioStoreProofs --------------------------
(***************************************************************************)
(* Proofs about StudioStore, for every set of events, sessions and buffer  *)
(* sizes and every bound: batches give what single events give, a screen   *)
(* that listens is current, and no record of the selected run is missing.  *)
(***************************************************************************)
EXTENDS StudioStore, FiniteSetTheorems, FunctionTheorems, SequenceTheorems,
        WellFoundedInduction, TLAPS

-----------------------------------------------------------------------------
(* The fold.                                                                *)

(***************************************************************************)
(* A set of numbers that is not empty has a least element, the form of     *)
(* induction used below.                                                   *)
(***************************************************************************)
LEMMA LeastNumber ==
    ASSUME NEW T, T \subseteq Nat, T # {}
    PROVE  \E n \in T : \A m \in T : n <= m
<1>1. IsWellFoundedOn(OpToRel(<, Nat), Nat)
  BY NatLessThanWellFounded
<1>2. \E n \in T : \A m \in T : ~ (<<m, n>> \in OpToRel(<, Nat))
  BY <1>1, WFMin
<1>3. \E n \in T : \A m \in T : ~ (m < n)
  BY <1>2 DEF OpToRel
<1> QED
  BY <1>3

(***************************************************************************)
(* The fold of any number of events exists, event by event.                *)
(***************************************************************************)
FoldStep(p, events, g, n) == IF n = 0 THEN p ELSE ApplyOne(g[n - 1], events[n])
IsFold(p, events, g, m) ==
    /\ g = [n \in 0..m |-> g[n]]
    /\ \A n \in 0..m : g[n] = FoldStep(p, events, g, n)

LEMMA FoldExists ==
    ASSUME NEW p, NEW events, NEW m \in Nat
    PROVE  \E g : IsFold(p, events, g, m)
<1> DEFINE T == {n \in Nat : ~ \E g : IsFold(p, events, g, n)}
<1>1. SUFFICES ASSUME T # {} PROVE FALSE
  OBVIOUS
<1>2. PICK n \in T : \A k \in T : n <= k
  BY <1>1, LeastNumber
<1>3. CASE n = 0
  <2> DEFINE g == [k \in 0..0 |-> p]
  <2>1. IsFold(p, events, g, 0)
    BY DEF IsFold, FoldStep
  <2> QED
    BY <2>1, <1>2, <1>3
<1>4. CASE n # 0
  <2>1. n \in Nat /\ n - 1 \in Nat /\ n - 1 \notin T
    BY <1>2, <1>4
  <2>2. PICK g : IsFold(p, events, g, n - 1)
    BY <2>1
  <2> DEFINE h == [k \in 0..n |-> IF k = n THEN FoldStep(p, events, g, n) ELSE g[k]]
  <2>3. \A k \in 0..(n - 1) : g[k] = FoldStep(p, events, g, k)
    BY <2>2 DEF IsFold
  <2>4. h[n] = FoldStep(p, events, g, n) /\ \A k \in 0..(n - 1) : h[k] = g[k]
    BY <2>1
  <2>5. h = [k \in 0..n |-> h[k]]
    OBVIOUS
  <2> HIDE DEF h
  <2>6. ASSUME NEW k \in 0..n
        PROVE  h[k] = FoldStep(p, events, h, k)
    <3>1. CASE k = n
      <4>1. n - 1 \in 0..(n - 1) /\ k # 0
        BY <2>1, <3>1, <1>4
      <4> QED
        BY <4>1, <2>4, <3>1 DEF FoldStep
    <3>2. CASE k < n /\ k # 0
      <4>1. k - 1 \in 0..(n - 1) /\ k \in 0..(n - 1)
        BY <3>2, <2>1
      <4> QED
        BY <4>1, <2>3, <2>4, <3>2 DEF FoldStep
    <3>3. CASE k = 0
      <4>1. k \in 0..(n - 1)
        BY <2>1, <3>3
      <4> QED
        BY <4>1, <3>3, <2>3, <2>4 DEF FoldStep
    <3> QED
      BY <3>1, <3>2, <3>3, <2>1
  <2>7. IsFold(p, events, h, n)
    BY <2>5, <2>6 DEF IsFold
  <2> QED
    BY <2>7, <1>2
<1> QED
  BY <1>3, <1>4

LEMMA FoldDef ==
    ASSUME NEW p, NEW events, Len(events) \in Nat
    PROVE  \E g : IsFold(p, events, g, Len(events)) /\ Folded(p, events) = g[Len(events)]
<1> DEFINE Body(g) == [n \in 0..Len(events) |->
                          IF n = 0 THEN p ELSE ApplyOne(g[n - 1], events[n])]
<1> DEFINE after == CHOOSE g : g = Body(g)
<1>1. \E g : g = Body(g)
  <2>1. PICK g : IsFold(p, events, g, Len(events))
    BY FoldExists
  <2>2. \A n \in 0..Len(events) : g[n] = Body(g)[n]
    BY <2>1 DEF IsFold, FoldStep
  <2>3. [n \in 0..Len(events) |-> g[n]] = Body(g)
    BY <2>2
  <2>4. g = Body(g)
    BY <2>1, <2>3 DEF IsFold
  <2> QED
    BY <2>4
<1>2. after = Body(after)
  BY <1>1
<1>3. Folded(p, events) = after[Len(events)]
  BY DEF Folded
<1> HIDE DEF after
<1>4. IsFold(p, events, after, Len(events))
  BY <1>2 DEF IsFold, FoldStep
<1> QED
  BY <1>3, <1>4

(***************************************************************************)
(* The folds of two lists agree as long as the lists do.                   *)
(***************************************************************************)
LEMMA FoldsAgree ==
    ASSUME NEW p, NEW s, NEW t, NEW g, NEW h, NEW m \in Nat, NEW k \in Nat, m <= k,
           IsFold(p, s, g, m), IsFold(p, t, h, k), \A i \in 1..m : s[i] = t[i]
    PROVE  \A n \in 0..m : g[n] = h[n]
<1> DEFINE T == {n \in 0..m : g[n] # h[n]}
<1>1. SUFFICES ASSUME T # {} PROVE FALSE
  OBVIOUS
<1>2. PICK n \in T : \A j \in T : n <= j
  <2>1. T \subseteq Nat
    OBVIOUS
  <2> QED
    BY <1>1, <2>1, LeastNumber
<1>3. n \in 0..m /\ n \in 0..k /\ g[n] # h[n]
  BY <1>2
<1>4. g[n] = FoldStep(p, s, g, n) /\ h[n] = FoldStep(p, t, h, n)
  BY <1>3 DEF IsFold
<1>5. CASE n = 0
  BY <1>3, <1>4, <1>5 DEF FoldStep
<1>6. CASE n # 0
  <2>1. n \in 1..m /\ n - 1 \in 0..m /\ n - 1 \notin T
    BY <1>2, <1>3, <1>6
  <2>2. g[n - 1] = h[n - 1] /\ s[n] = t[n]
    BY <2>1
  <2> QED
    BY <2>2, <1>3, <1>4, <1>6 DEF FoldStep
<1> QED
  BY <1>5, <1>6

(***************************************************************************)
(* Nothing folds to nothing, and one event more is applied last.           *)
(***************************************************************************)
LEMMA FoldedFacts ==
    ASSUME NEW p
    PROVE  /\ Folded(p, <<>>) = p
           /\ \A S : \A s \in Seq(S), e \in S :
                 Folded(p, Append(s, e)) = ApplyOne(Folded(p, s), e)
<1>1. Folded(p, <<>>) = p
  <2>1. Len(<<>>) = 0
    OBVIOUS
  <2>3. PICK g : IsFold(p, <<>>, g, 0) /\ Folded(p, <<>>) = g[0]
    BY <2>1, FoldDef
  <2> QED
    BY <2>3 DEF IsFold, FoldStep
<1>2. ASSUME NEW S, NEW s \in Seq(S), NEW e \in S
      PROVE  Folded(p, Append(s, e)) = ApplyOne(Folded(p, s), e)
  <2> DEFINE t == Append(s, e)
  <2> DEFINE n == Len(s)
  <2>1. n \in Nat /\ Len(t) = n + 1 /\ t[n + 1] = e /\ \A i \in 1..n : s[i] = t[i]
    OBVIOUS
  <2>2. Len(s) = n
    OBVIOUS
  <2> HIDE DEF t, n
  <2>3. PICK g : IsFold(p, s, g, n) /\ Folded(p, s) = g[n]
    BY <2>1, <2>2, FoldDef
  <2>4. PICK h : IsFold(p, t, h, n + 1) /\ Folded(p, t) = h[n + 1]
    <3>1. Len(t) \in Nat
      BY <2>1
    <3>2. PICK h : IsFold(p, t, h, Len(t)) /\ Folded(p, t) = h[Len(t)]
      BY <3>1, FoldDef
    <3> QED
      BY <3>2, <2>1
  <2>5. g[n] = h[n]
    <3>1. \A i \in 0..n : g[i] = h[i]
      BY <2>1, <2>3, <2>4, FoldsAgree
    <3> QED
      BY <2>1, <3>1
  <2>6. h[n + 1] = ApplyOne(h[n], e)
    <3>1. n + 1 \in 0..(n + 1) /\ n + 1 # 0 /\ (n + 1) - 1 = n
      BY <2>1
    <3>2. h[n + 1] = FoldStep(p, t, h, n + 1)
      BY <2>4, <3>1 DEF IsFold
    <3> QED
      BY <3>1, <3>2, <2>1 DEF FoldStep
  <2>7. Folded(p, t) = ApplyOne(Folded(p, s), e)
    BY <2>3, <2>4, <2>5, <2>6
  <2> QED
    BY <2>7 DEF t
<1> QED
  BY <1>1, <1>2

(***************************************************************************)
(* What Forge may send, and how a batch of it is folded: the events from   *)
(* the last change of session on, over what came before if that was of the *)
(* same session.                                                           *)
(***************************************************************************)
Arriving == {[id |-> n, session |-> s, type |-> t.type, payload |-> t.payload, val |-> t.val] :
                n \in Nat, s \in Sessions, t \in Templates}
Elsewhere(s) == {i \in 1..Len(s) : s[i].session \notin {None, s[Len(s)].session}}
Renewed(p, s) == None \notin {s, p.session} /\ s # p.session

LEMMA SessionsAreNamed ==
    \A e \in Arriving : e.session \in Sessions /\ e.session # None
  BY StoreAssumption DEF Arriving, StoreAssumption

LEMMA BatchFacts ==
    ASSUME NEW p, NEW s \in Seq(Arriving), s # <<>>
    PROVE  LET l == s[Len(s)].session
               b == SessionStart(s)
           IN  /\ l # None
               /\ Elsewhere(s) = {} => b = 1
               /\ Elsewhere(s) # {} =>
                     b - 1 \in Elsewhere(s) /\ \A i \in Elsewhere(s) : i <= b - 1
               /\ b \in 1..Len(s)
               /\ ApplyEvents(p, s) =
                     Folded(IF b > 1 \/ Renewed(p, l) THEN EmptyProjection ELSE p,
                            SubSeq(s, b, Len(s)))
<1> DEFINE l == s[Len(s)].session
<1> DEFINE b == SessionStart(s)
<1>1. Len(s) \in Nat /\ Len(s) >= 1 /\ s[Len(s)] \in Arriving
  OBVIOUS
<1>2. l # None
  BY <1>1, SessionsAreNamed
<1>3. CASE Elsewhere(s) = {}
  <2>1. b = 1
    BY <1>3 DEF SessionStart, Elsewhere
  <2> QED
    BY <1>1, <1>2, <1>3, <2>1 DEF ApplyEvents, Renewed
<1>4. CASE Elsewhere(s) # {}
  <2>1. \E m \in Elsewhere(s) : \A i \in Elsewhere(s) : i <= m
    <3> DEFINE T == {k \in 0..Len(s) : \A i \in Elsewhere(s) : i <= k}
    <3>1. Len(s) \in T /\ T \subseteq Nat
      BY <1>1 DEF Elsewhere
    <3>2. PICK k \in T : \A j \in T : k <= j
      BY <3>1, LeastNumber
    <3>3. k \in Elsewhere(s)
      <4>1. SUFFICES ASSUME k \notin Elsewhere(s) PROVE FALSE
        OBVIOUS
      <4>2. k # 0
        BY <1>4, <3>2 DEF Elsewhere
      <4>3. k - 1 \in 0..Len(s) /\ \A i \in Elsewhere(s) : i <= k - 1
        BY <3>2, <4>1, <4>2 DEF Elsewhere
      <4> QED
        BY <3>2, <4>3
    <3> QED
      BY <3>2, <3>3
  <2> DEFINE m == CHOOSE i \in Elsewhere(s) : \A j \in Elsewhere(s) : j <= i
  <2>2. m \in Elsewhere(s) /\ \A j \in Elsewhere(s) : j <= m
    BY <2>1
  <2>3. b = 1 + m
    BY <1>2, <1>4 DEF SessionStart, Elsewhere
  <2> HIDE DEF m
  <2>4. m \in 1..Len(s) /\ m # Len(s)
    BY <2>2 DEF Elsewhere
  <2>5. b \in 1..Len(s) /\ b - 1 = m
    BY <1>1, <2>3, <2>4
  <2> QED
    BY <1>1, <1>2, <1>4, <2>2, <2>5 DEF ApplyEvents, Renewed
<1> QED
  BY <1>3, <1>4

(***************************************************************************)
(* A fold that applied an event is of that event's session.                *)
(***************************************************************************)
LEMMA FoldNamesSession ==
    ASSUME NEW p, NEW s \in Seq(Arriving), s # <<>>
    PROVE  Folded(p, s).session = s[Len(s)].session
<1>1. PICK t \in Seq(Arriving), e \in Arriving : s = Append(t, e)
  <2> DEFINE t == SubSeq(s, 1, Len(s) - 1)
  <2>1. t \in Seq(Arriving) /\ s[Len(s)] \in Arriving /\ s = Append(t, s[Len(s)])
    OBVIOUS
  <2> QED
    BY <2>1
<1>2. s[Len(s)] = e /\ e.session # None
  BY <1>1, SessionsAreNamed
<1>3. Folded(p, s) = ApplyOne(Folded(p, t), e)
  BY <1>1, FoldedFacts
<1> QED
  BY <1>2, <1>3 DEF ApplyOne, OrElse

LEMMA BatchNamesSession ==
    ASSUME NEW p, NEW s \in Seq(Arriving), s # <<>>
    PROVE  ApplyEvents(p, s).session = s[Len(s)].session
<1> DEFINE b == SessionStart(s)
<1> DEFINE rest == SubSeq(s, b, Len(s))
<1>1. b \in 1..Len(s) /\ \E base : ApplyEvents(p, s) = Folded(base, rest)
  BY BatchFacts
<1> HIDE DEF b
<1>2. rest \in Seq(Arriving) /\ rest # <<>> /\ rest[Len(rest)] = s[Len(s)]
  <2>1. Len(s) \in Nat /\ b \in Nat /\ 1 <= b /\ b <= Len(s)
    BY <1>1
  <2>2. /\ SubSeq(s, b, Len(s)) \in Seq(Arriving) /\ Len(SubSeq(s, b, Len(s))) = Len(s) - b + 1
        /\ SubSeq(s, b, Len(s))[Len(s) - b + 1] = s[b + (Len(s) - b + 1) - 1]
    BY <2>1
  <2>3. b + (Len(s) - b + 1) - 1 = Len(s) /\ Len(s) - b + 1 > 0
    BY <2>1
  <2> QED
    BY <2>2, <2>3
<1> HIDE DEF rest
<1> QED
  BY <1>1, <1>2, FoldNamesSession

LEMMA FoldedOne ==
    ASSUME NEW p, NEW s \in Seq(Arriving), NEW e \in Arriving
    PROVE  Folded(p, Append(s, e)) = ApplyOne(Folded(p, s), e)
  BY FoldedFacts

LEMMA FoldedSingle ==
    ASSUME NEW p, NEW e \in Arriving
    PROVE  Folded(p, Append(<<>>, e)) = ApplyOne(p, e)
<1>1. <<>> \in Seq(Arriving) /\ Folded(p, <<>>) = p
  BY FoldedFacts
<1>2. Folded(p, Append(<<>>, e)) = ApplyOne(Folded(p, <<>>), e)
  BY <1>1, FoldedOne
<1> QED
  BY <1>1, <1>2

(***************************************************************************)
(* One event more: where the timer cuts the stream does not matter.        *)
(***************************************************************************)
LEMMA OneEvent ==
    ASSUME NEW p, NEW e \in Arriving
    PROVE  ApplyEvents(p, <<e>>) =
              ApplyOne(IF Renewed(p, e.session) THEN EmptyProjection ELSE p, e)
<1>1. PICK s : s = Append(<<>>, e)
  OBVIOUS
<1>2. s = <<e>>
  BY <1>1
<1>3. s \in Seq(Arriving) /\ Len(s) = 1 /\ s[1] = e
  BY <1>1
<1>4. s # <<>>
  <2>1. SUFFICES ASSUME s = <<>> PROVE FALSE
    OBVIOUS
  <2>2. Len(s) = 0
    BY <2>1, EmptySeq
  <2> QED
    BY <1>3, <2>2
<1>5. SubSeq(s, 1, 1) = s
  <2> DEFINE u == SubSeq(s, 1, 1)
  <2>1. u \in Seq(Arriving) /\ Len(u) = 1 /\ u[1] = s[1]
    BY <1>3
  <2> HIDE DEF u
  <2>2. u = [i \in 1..Len(u) |-> u[i]] /\ s = [i \in 1..Len(s) |-> s[i]]
    BY <1>3, <2>1
  <2>3. \A i \in 1..1 : u[i] = s[i]
    BY <2>1
  <2>4. u = s
    BY <1>3, <2>1, <2>2, <2>3
  <2> QED
    BY <2>4 DEF u
<1>6. Elsewhere(s) = {}
  BY <1>3 DEF Elsewhere
<1>7. SessionStart(s) = 1
  BY <1>3, <1>4, <1>6, BatchFacts
<1>8. ApplyEvents(p, s) = Folded(IF Renewed(p, e.session) THEN EmptyProjection ELSE p, s)
  <2>1. ApplyEvents(p, s) =
          Folded(IF 1 > 1 \/ Renewed(p, e.session) THEN EmptyProjection ELSE p, s)
    BY <1>3, <1>4, <1>5, <1>7, BatchFacts
  <2> QED
    BY <2>1
<1>9. \A q : Folded(q, s) = ApplyOne(q, e)
  BY <1>1, FoldedSingle
<1> QED
  BY <1>2, <1>8, <1>9

LEMMA TailOfMore ==
    ASSUME NEW X, NEW s \in Seq(X), NEW e \in X, NEW b \in 1..(Len(s) + 1)
    PROVE  /\ SubSeq(Append(s, e), b, Len(s) + 1) = Append(SubSeq(s, b, Len(s)), e)
           /\ SubSeq(s, b, Len(s)) \in Seq(X)
<1> DEFINE n == Len(s)
<1> DEFINE u == SubSeq(Append(s, e), b, n + 1)
<1> DEFINE v == Append(SubSeq(s, b, n), e)
<1>1. n \in Nat /\ b \in Nat /\ 1 <= b /\ b <= n + 1 /\ Append(s, e) \in Seq(X)
  OBVIOUS
<1>2. SubSeq(s, b, n) \in Seq(X) /\ Len(SubSeq(s, b, n)) = n - b + 1
  BY <1>1
<1>3. u \in Seq(X) /\ v \in Seq(X) /\ Len(u) = n - b + 2 /\ Len(v) = n - b + 2
  BY <1>1, <1>2
<1>4. \A i \in 1..(n - b + 2) : u[i] = v[i]
  BY <1>1, <1>2
<1>5. u = v
  <2> HIDE DEF u, v
  <2>1. u = [i \in 1..Len(u) |-> u[i]] /\ v = [i \in 1..Len(v) |-> v[i]]
    BY <1>3
  <2> QED
    BY <1>3, <1>4, <2>1
<1> QED
  BY <1>2, <1>5

LEMMA BatchesJoin ==
    ASSUME NEW p, NEW s \in Seq(Arriving), NEW e \in Arriving
    PROVE  ApplyEvents(p, Append(s, e)) = ApplyEvents(ApplyEvents(p, s), <<e>>)
<1>1. CASE s = <<>>
  <2>1. ApplyEvents(p, s) = p /\ Append(s, e) = <<e>>
    BY <1>1 DEF ApplyEvents
  <2> QED
    BY <2>1
<1>2. CASE s # <<>>
  <2> DEFINE q == ApplyEvents(p, s)
  <2> DEFINE t == Append(s, e)
  <2> DEFINE n == Len(s)
  <2> DEFINE l == s[n].session
  <2> DEFINE b == SessionStart(s)
  <2> DEFINE c == SessionStart(t)
  <2>1. /\ n \in Nat /\ n >= 1 /\ t \in Seq(Arriving) /\ t # <<>> /\ Len(t) = n + 1
        /\ t[n + 1] = e /\ s[n] \in Arriving /\ \A i \in 1..n : t[i] = s[i]
    BY <1>2
  <2>2. l # None /\ e.session # None
    BY <2>1, SessionsAreNamed
  <2>3. q.session = l
    BY <1>2, BatchNamesSession
  <2>4. /\ b \in 1..n
        /\ Elsewhere(s) = {} => b = 1
        /\ Elsewhere(s) # {} => b - 1 \in Elsewhere(s) /\ \A i \in Elsewhere(s) : i <= b - 1
        /\ q = Folded(IF b > 1 \/ Renewed(p, l) THEN EmptyProjection ELSE p, SubSeq(s, b, n))
    BY <1>2, BatchFacts
  <2>5. /\ c \in 1..(n + 1)
        /\ Elsewhere(t) = {} => c = 1
        /\ Elsewhere(t) # {} => c - 1 \in Elsewhere(t) /\ \A i \in Elsewhere(t) : i <= c - 1
        /\ ApplyEvents(p, t) =
              Folded(IF c > 1 \/ Renewed(p, e.session) THEN EmptyProjection ELSE p,
                     SubSeq(t, c, n + 1))
    BY <2>1, BatchFacts
  <2>6. ApplyEvents(q, <<e>>) = ApplyOne(IF Renewed(q, e.session) THEN EmptyProjection ELSE q, e)
    BY OneEvent
  <2>7. /\ Elsewhere(s) = {i \in 1..n : s[i].session \notin {None, l}}
        /\ Elsewhere(t) = {i \in 1..(n + 1) : t[i].session \notin {None, e.session}}
    BY <2>1 DEF Elsewhere
  <2> HIDE DEF q, b, c, t, n
  <2>8. CASE e.session = l
    <3>1. Elsewhere(t) = Elsewhere(s)
      BY <2>1, <2>7, <2>8
    <3>2. c = b
      <4>1. CASE Elsewhere(s) = {}
        BY <2>4, <2>5, <3>1, <4>1
      <4>2. CASE Elsewhere(s) # {}
        <5>1. b - 1 <= c - 1 /\ c - 1 <= b - 1
          BY <2>4, <2>5, <3>1, <4>2
        <5> QED
          BY <2>1, <2>4, <2>5, <5>1
      <4> QED
        BY <4>1, <4>2
    <3>3. SubSeq(t, b, n + 1) = Append(SubSeq(s, b, n), e) /\ SubSeq(s, b, n) \in Seq(Arriving)
      BY <2>1, <2>4, TailOfMore DEF t, n
    <3>4. ApplyEvents(p, t) = ApplyOne(q, e)
      <4>1. PICK base : q = Folded(base, SubSeq(s, b, n))
                        /\ ApplyEvents(p, t) = Folded(base, Append(SubSeq(s, b, n), e))
        BY <2>4, <2>5, <2>8, <3>2, <3>3
      <4> QED
        BY <3>3, <4>1, FoldedOne
    <3>5. ~Renewed(q, e.session)
      BY <2>3, <2>8 DEF Renewed
    <3> QED
      BY <2>6, <3>4, <3>5 DEF q, t
  <2>9. CASE e.session # l
    <3>1. n \in Elsewhere(t)
      BY <2>1, <2>2, <2>7, <2>9
    <3>2. c = n + 1
      <4>1. c - 1 \in 1..(n + 1) /\ n <= c - 1
        BY <2>5, <2>7, <3>1
      <4> QED
        BY <2>1, <2>5, <4>1
    <3>3. SubSeq(t, n + 1, n + 1) = Append(<<>>, e) /\ <<>> \in Seq(Arriving) /\ n + 1 > 1
      <4>1. SubSeq(s, n + 1, n) = <<>>
        BY <2>1 DEF n
      <4>2. SubSeq(t, n + 1, n + 1) = Append(SubSeq(s, n + 1, n), e)
        BY <2>1, TailOfMore DEF t, n
      <4>3. SubSeq(t, n + 1, n + 1) = Append(<<>>, e)
        BY <4>1, <4>2
      <4>4. <<>> \in Seq(Arriving) /\ n + 1 > 1
        BY <2>1
      <4> QED
        BY <4>3, <4>4
    <3>4. ApplyEvents(p, t) = ApplyOne(EmptyProjection, e)
      <4>1. ApplyEvents(p, t) = Folded(EmptyProjection, Append(<<>>, e))
        BY <2>5, <3>2, <3>3
      <4> QED
        BY <4>1, FoldedSingle
    <3>5. Renewed(q, e.session)
      BY <2>2, <2>3, <2>9 DEF Renewed
    <3> QED
      BY <2>6, <3>4, <3>5 DEF q, t
  <2> QED
    BY <2>8, <2>9
<1> QED
  BY <1>1, <1>2

-----------------------------------------------------------------------------
(* Records.                                                                 *)

(***************************************************************************)
(* What is kept of a sequence exists, element by element.                  *)
(***************************************************************************)
KeepStep(s, those, g, n) ==
    IF n = 0 THEN <<>>
    ELSE IF s[n] \in those THEN Append(g[n - 1], s[n])
    ELSE g[n - 1]
IsKept(s, those, g, m) ==
    /\ g = [n \in 0..m |-> g[n]]
    /\ \A n \in 0..m : g[n] = KeepStep(s, those, g, n)

LEMMA KeptExists ==
    ASSUME NEW s, NEW those, NEW m \in Nat
    PROVE  \E g : IsKept(s, those, g, m)
<1> DEFINE T == {n \in Nat : ~ \E g : IsKept(s, those, g, n)}
<1>1. SUFFICES ASSUME T # {} PROVE FALSE
  OBVIOUS
<1>2. PICK n \in T : \A k \in T : n <= k
  BY <1>1, LeastNumber
<1>3. CASE n = 0
  <2> DEFINE g == [k \in 0..0 |-> <<>>]
  <2>1. IsKept(s, those, g, 0)
    BY DEF IsKept, KeepStep
  <2> QED
    BY <2>1, <1>2, <1>3
<1>4. CASE n # 0
  <2>1. n \in Nat /\ n - 1 \in Nat /\ n - 1 \notin T
    BY <1>2, <1>4
  <2>2. PICK g : IsKept(s, those, g, n - 1)
    BY <2>1
  <2> DEFINE h == [k \in 0..n |-> IF k = n THEN KeepStep(s, those, g, n) ELSE g[k]]
  <2>3. \A k \in 0..(n - 1) : g[k] = KeepStep(s, those, g, k)
    BY <2>2 DEF IsKept
  <2>4. h[n] = KeepStep(s, those, g, n) /\ \A k \in 0..(n - 1) : h[k] = g[k]
    BY <2>1
  <2>5. h = [k \in 0..n |-> h[k]]
    OBVIOUS
  <2> HIDE DEF h
  <2>6. ASSUME NEW k \in 0..n
        PROVE  h[k] = KeepStep(s, those, h, k)
    <3>1. CASE k = n
      <4>1. n - 1 \in 0..(n - 1) /\ k # 0
        BY <2>1, <3>1, <1>4
      <4> QED
        BY <4>1, <2>4, <3>1 DEF KeepStep
    <3>2. CASE k < n /\ k # 0
      <4>1. k - 1 \in 0..(n - 1) /\ k \in 0..(n - 1)
        BY <3>2, <2>1
      <4> QED
        BY <4>1, <2>3, <2>4, <3>2 DEF KeepStep
    <3>3. CASE k = 0
      <4>1. k \in 0..(n - 1)
        BY <2>1, <3>3
      <4> QED
        BY <4>1, <3>3, <2>3, <2>4 DEF KeepStep
    <3> QED
      BY <3>1, <3>2, <3>3, <2>1
  <2>7. IsKept(s, those, h, n)
    BY <2>5, <2>6 DEF IsKept
  <2> QED
    BY <2>7, <1>2
<1> QED
  BY <1>3, <1>4

LEMMA KeptDef ==
    ASSUME NEW s, NEW those, Len(s) \in Nat
    PROVE  \E g : IsKept(s, those, g, Len(s)) /\ Kept(s, those) = g[Len(s)]
<1> DEFINE Body(g) == [n \in 0..Len(s) |->
                          IF n = 0 THEN <<>>
                          ELSE IF s[n] \in those THEN Append(g[n - 1], s[n])
                          ELSE g[n - 1]]
<1> DEFINE kept == CHOOSE g : g = Body(g)
<1>1. \E g : g = Body(g)
  <2>1. PICK g : IsKept(s, those, g, Len(s))
    BY KeptExists
  <2>2. \A n \in 0..Len(s) : g[n] = Body(g)[n]
    BY <2>1 DEF IsKept, KeepStep
  <2>3. [n \in 0..Len(s) |-> g[n]] = Body(g)
    BY <2>2
  <2>4. g = Body(g)
    BY <2>1, <2>3 DEF IsKept
  <2> QED
    BY <2>4
<1>2. kept = Body(kept)
  BY <1>1
<1>3. Kept(s, those) = kept[Len(s)]
  BY DEF Kept
<1> HIDE DEF kept
<1>4. IsKept(s, those, kept, Len(s))
  BY <1>2 DEF IsKept, KeepStep
<1> QED
  BY <1>3, <1>4

(***************************************************************************)
(* What is kept is what is wanted, all of it and nothing else, and what    *)
(* was numbered in order still is.                                         *)
(***************************************************************************)
Numbered(s) == \A i, j \in 1..Len(s) : i < j => s[i].seq < s[j].seq
IsIn(x, s) == \E i \in 1..Len(s) : s[i] = x

LEMMA KeptFacts ==
    ASSUME NEW X, NEW s \in Seq(X), NEW those
    PROVE  /\ Kept(s, those) \in Seq(X)
           /\ Len(Kept(s, those)) <= Len(s)
           /\ \A x : IsIn(x, Kept(s, those)) <=> IsIn(x, s) /\ x \in those
           /\ Numbered(s) => Numbered(Kept(s, those))
<1>1. PICK g : IsKept(s, those, g, Len(s)) /\ Kept(s, those) = g[Len(s)]
  <2>1. Len(s) \in Nat
    OBVIOUS
  <2> QED
    BY <2>1, KeptDef
<1>2. \A n \in 0..Len(s) : g[n] = KeepStep(s, those, g, n)
  BY <1>1 DEF IsKept
<1> DEFINE P(n) == /\ g[n] \in Seq(X)
                   /\ Len(g[n]) <= n
                   /\ \A j \in 1..Len(g[n]) : \E i \in 1..n : s[i] = g[n][j] /\ s[i] \in those
                   /\ \A i \in 1..n : s[i] \in those => \E j \in 1..Len(g[n]) : g[n][j] = s[i]
                   /\ Numbered(s) => Numbered(g[n])
<1> DEFINE T == {n \in Nat : n <= Len(s) /\ ~P(n)}
<1>3. SUFFICES ASSUME T # {} PROVE FALSE
  <2>1. Len(s) \in Nat
    OBVIOUS
  <2> HIDE DEF P
  <2>2. Len(s) \notin T => P(Len(s))
    BY <2>1
  <2>3. CASE T = {}
    <3>1. P(Len(s))
      BY <2>2, <2>3
    <3> DEFINE t == Kept(s, those)
    <3>2. P(Len(s)) <=> /\ t \in Seq(X)
                        /\ Len(t) <= Len(s)
                        /\ \A j \in 1..Len(t) : \E i \in 1..Len(s) : s[i] = t[j] /\ s[i] \in those
                        /\ \A i \in 1..Len(s) : s[i] \in those => \E j \in 1..Len(t) : t[j] = s[i]
                        /\ Numbered(s) => Numbered(t)
      BY <1>1 DEF P
    <3> HIDE DEF t
    <3>3. ASSUME NEW x
          PROVE  IsIn(x, t) <=> IsIn(x, s) /\ x \in those
      BY <3>1, <3>2 DEF IsIn
    <3> QED
      BY <3>1, <3>2, <3>3 DEF t
  <2> QED
    BY <2>3
<1>4. PICK n \in T : \A k \in T : n <= k
  BY <1>3, LeastNumber
<1>5. n \in 0..Len(s) /\ n \in Nat /\ Len(s) \in Nat /\ ~P(n)
  BY <1>4
<1> HIDE DEF T
<1>6. CASE n = 0
  <2>1. g[n] = <<>>
    BY <1>2, <1>5, <1>6 DEF KeepStep
  <2>2. g[n] \in Seq(X) /\ Len(g[n]) = 0
    BY <2>1, EmptySeq
  <2>3. 1..n = {} /\ 1..Len(g[n]) = {} /\ Len(g[n]) <= n
    BY <1>6, <2>2
  <2>4. Numbered(g[n])
    BY <2>3 DEF Numbered
  <2>5. Len(g[n]) <= n
    BY <2>3
  <2>6. \A i \in 1..n : s[i] \in those => \E j \in 1..Len(g[n]) : g[n][j] = s[i]
    BY <2>3
  <2>7. \A j \in 1..Len(g[n]) : \E i \in 1..n : s[i] = g[n][j] /\ s[i] \in those
    BY <2>3
  <2> QED
    BY <2>2, <2>4, <2>5, <2>6, <2>7, <1>5
<1>7. CASE n # 0
  <2>1. n - 1 \in 0..Len(s) /\ P(n - 1) /\ n - 1 \in Nat
    <3> HIDE DEF P
    <3>1. n - 1 \in Nat /\ n - 1 <= Len(s) /\ ~(n <= n - 1)
      BY <1>5, <1>7
    <3>2. n - 1 \notin T
      BY <1>4, <3>1
    <3> QED
      BY <3>1, <3>2 DEF T
  <2>2. s[n] \in X
    BY <1>5, <1>7
  <2>3. CASE s[n] \in those
    <3>1. g[n] = Append(g[n - 1], s[n])
      BY <1>2, <1>5, <1>7, <2>3 DEF KeepStep
    <3>2. /\ g[n] \in Seq(X) /\ Len(g[n]) = Len(g[n - 1]) + 1 /\ g[n][Len(g[n])] = s[n]
          /\ Len(g[n - 1]) \in Nat /\ \A j \in 1..Len(g[n - 1]) : g[n][j] = g[n - 1][j]
      BY <3>1, <2>1, <2>2
    <3>3. Len(g[n]) <= n
      BY <2>1, <3>2, <1>5
    <3>4. ASSUME NEW j \in 1..Len(g[n])
          PROVE  \E i \in 1..n : s[i] = g[n][j] /\ s[i] \in those
      <4>1. CASE j = Len(g[n])
        BY <4>1, <3>2, <2>3, <1>5, <1>7
      <4>2. CASE j # Len(g[n])
        <5>1. j \in 1..Len(g[n - 1])
          BY <3>2, <4>2
        <5>2. PICK i \in 1..(n - 1) : s[i] = g[n - 1][j] /\ s[i] \in those
          BY <2>1, <5>1
        <5> QED
          BY <1>5, <3>2, <5>1, <5>2
      <4> QED
        BY <4>1, <4>2
    <3>5. ASSUME NEW i \in 1..n, s[i] \in those
          PROVE  \E j \in 1..Len(g[n]) : g[n][j] = s[i]
      <4>1. CASE i = n
        BY <4>1, <3>2
      <4>2. CASE i # n
        <5>1. i \in 1..(n - 1)
          BY <4>2, <1>5
        <5>2. PICK j \in 1..Len(g[n - 1]) : g[n - 1][j] = s[i]
          BY <5>1, <3>5, <2>1
        <5> QED
          BY <5>2, <3>2
      <4> QED
        BY <4>1, <4>2
    <3>6. ASSUME Numbered(s)
          PROVE  Numbered(g[n])
      <4>1. ASSUME NEW i \in 1..Len(g[n]), NEW j \in 1..Len(g[n]), i < j
            PROVE  g[n][i].seq < g[n][j].seq
        <5>1. CASE j # Len(g[n])
          <6>1. i \in 1..Len(g[n - 1]) /\ j \in 1..Len(g[n - 1])
            BY <3>2, <4>1, <5>1
          <6> QED
            BY <6>1, <2>1, <3>2, <3>6, <4>1 DEF Numbered
        <5>2. CASE j = Len(g[n])
          <6>1. i \in 1..Len(g[n - 1]) /\ g[n][j] = s[n] /\ g[n][i] = g[n - 1][i]
            BY <3>2, <4>1, <5>2
          <6>2. PICK k \in 1..(n - 1) : s[k] = g[n - 1][i]
            BY <6>1, <2>1
          <6>3. k \in 1..Len(s) /\ n \in 1..Len(s) /\ k < n
            BY <1>5, <1>7
          <6> QED
            BY <6>1, <6>2, <6>3, <3>6 DEF Numbered
        <5> QED
          BY <5>1, <5>2
      <4> QED
        BY <4>1 DEF Numbered
    <3> QED
      BY <3>2, <3>3, <3>4, <3>5, <3>6, <1>5
  <2>4. CASE s[n] \notin those
    <3>1. g[n] = g[n - 1]
      BY <1>2, <1>5, <1>7, <2>4 DEF KeepStep
    <3>2. \A i \in 1..n : s[i] \in those => i \in 1..(n - 1)
      BY <2>4, <1>5
    <3>3. 1..(n - 1) \subseteq 1..n /\ n - 1 <= n
      BY <1>5, <2>1
    <3>4. Len(g[n]) <= n
      BY <2>1, <3>1, <1>5
    <3> QED
      BY <3>1, <3>2, <3>3, <3>4, <2>1, <1>5
  <2> QED
    BY <2>3, <2>4
<1> QED
  BY <1>6, <1>7

LEMMA KeptAll ==
    ASSUME NEW X, NEW s \in Seq(X), NEW those, \A i \in 1..Len(s) : s[i] \in those
    PROVE  Kept(s, those) = s
<1>1. PICK g : IsKept(s, those, g, Len(s)) /\ Kept(s, those) = g[Len(s)]
  <2>1. Len(s) \in Nat
    OBVIOUS
  <2> QED
    BY <2>1, KeptDef
<1>2. \A n \in 0..Len(s) : g[n] = KeepStep(s, those, g, n)
  BY <1>1 DEF IsKept
<1> DEFINE P(n) == g[n] \in Seq(X) /\ Len(g[n]) = n /\ \A j \in 1..n : g[n][j] = s[j]
<1> DEFINE T == {n \in Nat : n <= Len(s) /\ ~P(n)}
<1>3. SUFFICES ASSUME T # {} PROVE FALSE
  <2>1. Len(s) \in Nat
    OBVIOUS
  <2> HIDE DEF P
  <2>2. CASE T = {}
    <3>1. P(Len(s))
      BY <2>1, <2>2
    <3>2. /\ Kept(s, those) \in Seq(X) /\ Len(Kept(s, those)) = Len(s)
          /\ \A j \in 1..Len(s) : Kept(s, those)[j] = s[j]
      BY <3>1, <1>1 DEF P
    <3> QED
      BY <3>2, SeqEqual
  <2> QED
    BY <2>2
<1>4. PICK n \in T : \A k \in T : n <= k
  BY <1>3, LeastNumber
<1>5. n \in 0..Len(s) /\ n \in Nat /\ Len(s) \in Nat /\ ~P(n)
  BY <1>4
<1> HIDE DEF T
<1>6. CASE n = 0
  <2>1. g[n] = <<>>
    BY <1>2, <1>5, <1>6 DEF KeepStep
  <2>2. g[n] \in Seq(X) /\ Len(g[n]) = n
    BY <2>1, <1>6, EmptySeq
  <2>3. \A j \in 1..n : g[n][j] = s[j]
    BY <1>6
  <2> QED
    BY <2>2, <2>3, <1>5
<1>7. CASE n # 0
  <2>1. n - 1 \in Nat /\ P(n - 1)
    <3> HIDE DEF P
    <3>1. n - 1 \in Nat /\ n - 1 <= Len(s) /\ ~(n <= n - 1)
      BY <1>5, <1>7
    <3>2. n - 1 \notin T
      BY <1>4, <3>1
    <3> QED
      BY <3>1, <3>2 DEF T
  <2>2. s[n] \in X /\ n \in 1..Len(s)
    BY <1>5, <1>7
  <2>3. g[n] = Append(g[n - 1], s[n])
    BY <1>2, <1>5, <1>7, <2>2 DEF KeepStep
  <2>4. /\ g[n] \in Seq(X) /\ Len(g[n]) = Len(g[n - 1]) + 1 /\ g[n][Len(g[n])] = s[n]
        /\ \A j \in 1..Len(g[n - 1]) : g[n][j] = g[n - 1][j]
    BY <2>1, <2>2, <2>3
  <2>5. Len(g[n]) = n /\ Len(g[n - 1]) = n - 1
    BY <1>5, <2>1, <2>4
  <2>6. ASSUME NEW j \in 1..n PROVE g[n][j] = s[j]
    <3>1. CASE j = n
      BY <3>1, <2>4, <2>5
    <3>2. CASE j # n
      <4>1. j \in 1..(n - 1)
        BY <3>2, <1>5
      <4> QED
        BY <4>1, <2>1, <2>4, <2>5
    <3> QED
      BY <3>1, <3>2
  <2> QED
    BY <2>4, <2>5, <2>6, <1>5
<1> QED
  BY <1>6, <1>7

(***************************************************************************)
(* The newest of a sequence.                                               *)
(***************************************************************************)
LEMMA NewestFacts ==
    ASSUME NEW X, NEW s \in Seq(X), NEW n \in Nat
    PROVE  /\ Newest(s, n) \in Seq(X)
           /\ Len(Newest(s, n)) = IF Len(s) <= n THEN Len(s) ELSE n
           /\ Len(s) <= n => Newest(s, n) = s
           /\ \A x : IsIn(x, Newest(s, n)) => IsIn(x, s)
           /\ Numbered(s) => Numbered(Newest(s, n))
<1>1. CASE Len(s) <= n
  <2>1. Newest(s, n) = s
    BY <1>1 DEF Newest
  <2> QED
    BY <1>1, <2>1
<1>2. CASE ~(Len(s) <= n)
  <2> DEFINE m == Len(s) - n
  <2> DEFINE t == Newest(s, n)
  <2>1. t = SubSeq(s, m + 1, Len(s)) /\ Len(s) \in Nat /\ m \in Nat /\ m >= 1 /\ m <= Len(s)
    BY <1>2 DEF Newest
  <2>2. t \in Seq(X) /\ Len(t) = n /\ \A i \in 1..n : t[i] = s[m + i]
    <3>1. Len(s) - (m + 1) + 1 = n
      BY <2>1
    <3>2. /\ SubSeq(s, m + 1, Len(s)) \in Seq(X)
          /\ Len(SubSeq(s, m + 1, Len(s))) = n
          /\ \A i \in 1..n : SubSeq(s, m + 1, Len(s))[i] = s[(m + 1) + i - 1]
      <4>1. m + 1 \in Int /\ Len(s) \in Int /\ \A i \in (m + 1)..Len(s) : s[i] \in X
        BY <2>1
      <4> HIDE DEF m
      <4>2. /\ SubSeq(s, m + 1, Len(s)) \in Seq(X)
            /\ Len(SubSeq(s, m + 1, Len(s))) =
                  IF m + 1 <= Len(s) THEN Len(s) - (m + 1) + 1 ELSE 0
            /\ \A i \in 1..(Len(s) - (m + 1) + 1) :
                  SubSeq(s, m + 1, Len(s))[i] = s[(m + 1) + i - 1]
        BY <4>1, SubSeqProperties
      <4> QED
        BY <3>1, <4>2 DEF m
    <3> QED
      BY <2>1, <3>2
  <2> HIDE DEF t
  <2>3. \A i \in 1..n : m + i \in 1..Len(s)
    BY <2>1
  <2>4. \A x : IsIn(x, t) => IsIn(x, s)
    BY <2>2, <2>3 DEF IsIn
  <2>5. Numbered(s) => Numbered(t)
    BY <2>1, <2>2, <2>3 DEF Numbered
  <2> QED
    BY <1>2, <2>2, <2>4, <2>5 DEF t
<1> QED
  BY <1>1, <1>2

LEMMA NewestKeeps ==
    ASSUME NEW X, NEW s \in Seq(X), NEW n \in Nat, NEW x, IsIn(x, s)
    PROVE  IsIn(x, Newest(s, n)) \/ Len(Newest(s, n)) >= n
<1>1. CASE Len(s) <= n
  BY <1>1, NewestFacts
<1>2. CASE ~(Len(s) <= n)
  <2>1. Len(Newest(s, n)) = n
    BY <1>2, NewestFacts
  <2> QED
    BY <2>1
<1> QED
  BY <1>1, <1>2

LEMMA IsInConcat ==
    ASSUME NEW X, NEW s \in Seq(X), NEW t \in Seq(X), NEW x
    PROVE  IsIn(x, s \o t) <=> IsIn(x, s) \/ IsIn(x, t)
<1> DEFINE u == s \o t
<1>1. /\ u \in Seq(X) /\ Len(u) = Len(s) + Len(t) /\ Len(s) \in Nat /\ Len(t) \in Nat
      /\ \A i \in 1..(Len(s) + Len(t)) : u[i] = IF i <= Len(s) THEN s[i] ELSE t[i - Len(s)]
  BY ConcatProperties
<1> HIDE DEF u
<1>2. ASSUME NEW i \in 1..Len(u), u[i] = x
      PROVE  IsIn(x, s) \/ IsIn(x, t)
  <2>1. CASE i <= Len(s)
    BY <2>1, <1>1, <1>2 DEF IsIn
  <2>2. CASE ~(i <= Len(s))
    <3>1. i - Len(s) \in 1..Len(t) /\ t[i - Len(s)] = x
      BY <2>2, <1>1, <1>2
    <3> QED
      BY <3>1 DEF IsIn
  <2> QED
    BY <2>1, <2>2
<1>3. ASSUME NEW i \in 1..Len(s), s[i] = x
      PROVE  IsIn(x, u)
  <2>1. i \in 1..Len(u) /\ u[i] = x
    BY <1>1, <1>3
  <2> QED
    BY <2>1 DEF IsIn
<1>4. ASSUME NEW i \in 1..Len(t), t[i] = x
      PROVE  IsIn(x, u)
  <2>1. Len(s) + i \in 1..Len(u) /\ ~(Len(s) + i <= Len(s)) /\ (Len(s) + i) - Len(s) = i
    BY <1>1
  <2>2. u[Len(s) + i] = x
    BY <2>1, <1>1, <1>4
  <2> QED
    BY <2>1, <2>2 DEF IsIn
<1> QED
  BY <1>2, <1>3, <1>4 DEF IsIn, u

LEMMA AppendFacts ==
    ASSUME NEW X, NEW s \in Seq(X), NEW e \in X
    PROVE  /\ Append(s, e) \in Seq(X) /\ Len(s) \in Nat /\ Len(Append(s, e)) = Len(s) + 1
           /\ Append(s, e)[Len(s) + 1] = e
           /\ \A i \in 1..Len(s) : Append(s, e)[i] = s[i]
           /\ \A x : IsIn(x, Append(s, e)) <=> IsIn(x, s) \/ x = e
<1> DEFINE u == Append(s, e)
<1>1. /\ u \in Seq(X) /\ Len(s) \in Nat /\ Len(u) = Len(s) + 1 /\ u[Len(s) + 1] = e
      /\ \A i \in 1..Len(s) : u[i] = s[i]
  OBVIOUS
<1> HIDE DEF u
<1>2. \A i \in 1..(Len(s) + 1) : i \in 1..Len(s) \/ i = Len(s) + 1
  BY <1>1
<1>3. Len(s) + 1 \in 1..(Len(s) + 1) /\ \A i \in 1..Len(s) : i \in 1..(Len(s) + 1)
  BY <1>1
<1>4. ASSUME NEW x
      PROVE  IsIn(x, u) <=> IsIn(x, s) \/ x = e
  BY <1>1, <1>2, <1>3 DEF IsIn
<1> QED
  BY <1>1, <1>4 DEF u

LEMMA AppendNumbered ==
    ASSUME NEW X, NEW s \in Seq(X), NEW e \in X, Numbered(s),
           \A i \in 1..Len(s) : s[i].seq < e.seq
    PROVE  Numbered(Append(s, e))
<1> DEFINE u == Append(s, e)
<1>1. /\ Len(s) \in Nat /\ Len(u) = Len(s) + 1 /\ u[Len(s) + 1] = e
      /\ \A i \in 1..Len(s) : u[i] = s[i]
  BY AppendFacts
<1> HIDE DEF u
<1>2. ASSUME NEW i \in 1..Len(u), NEW j \in 1..Len(u), i < j
      PROVE  u[i].seq < u[j].seq
  <2>1. i \in 1..Len(s)
    BY <1>1, <1>2
  <2>2. CASE j = Len(s) + 1
    BY <2>1, <2>2, <1>1
  <2>3. CASE j # Len(s) + 1
    <3>1. j \in 1..Len(s)
      BY <1>1, <2>3
    <3> QED
      BY <3>1, <2>1, <1>1, <1>2 DEF Numbered
  <2> QED
    BY <2>2, <2>3
<1> QED
  BY <1>2 DEF Numbered, u

(***************************************************************************)
(* Merging sorts: with one record to a number, each record is in its place *)
(* exactly once.                                                           *)
(***************************************************************************)
LEMMA InOrderFacts ==
    ASSUME NEW S, IsFiniteSet(S), \A x \in S : x.seq \in Nat,
           \A x, y \in S : x.seq = y.seq => x = y
    PROVE  /\ InOrder(S) \in Seq(S)
           /\ Len(InOrder(S)) = Cardinality(S)
           /\ \A x \in S : IsIn(x, InOrder(S))
<1> DEFINE Below(x) == {b \in S : b.seq < x.seq}
<1> DEFINE n == Cardinality(S)
<1>1. n \in Nat
  BY FS_CardinalityType
<1>2. ASSUME NEW x \in S
      PROVE  /\ IsFiniteSet(Below(x)) /\ Cardinality(Below(x)) \in Nat
             /\ Cardinality(Below(x)) + 1 \in 1..n
  <2>1. Below(x) \in SUBSET (S \ {x})
    <3>1. ~(x.seq < x.seq)
      OBVIOUS
    <3> QED
      BY <3>1
  <2>2. IsFiniteSet(S \ {x}) /\ Cardinality(S \ {x}) = n - 1
    BY FS_RemoveElement
  <2>3. IsFiniteSet(Below(x)) /\ Cardinality(Below(x)) <= n - 1
    BY <2>1, <2>2, FS_Subset
  <2>4. Cardinality(Below(x)) \in Nat
    BY <2>3, FS_CardinalityType
  <2> QED
    BY <1>1, <2>3, <2>4
<1>3. ASSUME NEW x \in S, NEW y \in S, x.seq < y.seq
      PROVE  Cardinality(Below(x)) < Cardinality(Below(y))
  <2>1. x \in Below(y) /\ Below(x) \subseteq Below(y) /\ x \notin Below(x)
    <3>1. \A b \in S : b.seq < x.seq => b.seq < y.seq
      BY <1>3
    <3>2. ~(x.seq < x.seq)
      OBVIOUS
    <3> QED
      BY <1>3, <3>1, <3>2
  <2>2. IsFiniteSet(Below(y)) /\ Cardinality(Below(y)) \in Nat /\ Cardinality(Below(x)) \in Nat
    BY <1>2
  <2> HIDE DEF Below
  <2>3. IsFiniteSet(Below(y) \ {x}) /\ Cardinality(Below(y) \ {x}) = Cardinality(Below(y)) - 1
    BY <2>1, <2>2, FS_RemoveElement
  <2>4. Below(x) \in SUBSET (Below(y) \ {x})
    BY <2>1
  <2>5. Cardinality(Below(x)) <= Cardinality(Below(y)) - 1
    BY <2>3, <2>4, FS_Subset
  <2> QED
    BY <2>2, <2>5
<1> HIDE DEF Below, n
<1>4. ASSUME NEW x \in S, NEW y \in S, Cardinality(Below(x)) = Cardinality(Below(y))
      PROVE  x = y
  <2>1. ~(x.seq < y.seq) /\ ~(y.seq < x.seq)
    <3>1. Cardinality(Below(x)) \in Nat /\ Cardinality(Below(y)) \in Nat
      BY <1>2
    <3>2. CASE x.seq < y.seq
      BY <3>1, <3>2, <1>3, <1>4
    <3>3. CASE y.seq < x.seq
      BY <3>1, <3>3, <1>3, <1>4
    <3> QED
      BY <3>2, <3>3
  <2>2. x.seq = y.seq
    BY <2>1
  <2> QED
    BY <2>2
<1> DEFINE f == [x \in S |-> Cardinality(Below(x)) + 1]
<1>5. f \in [S -> 1..n] /\ \A x, y \in S : f[x] = f[y] => x = y
  <2>1. \A x \in S : f[x] \in 1..n
    BY <1>2
  <2>2. ASSUME NEW x \in S, NEW y \in S, f[x] = f[y]
        PROVE  x = y
    <3>1. Cardinality(Below(x)) \in Nat /\ Cardinality(Below(y)) \in Nat
      BY <1>2
    <3>2. Cardinality(Below(x)) = Cardinality(Below(y))
      BY <2>2, <3>1
    <3> QED
      BY <3>2, <1>4
  <2> QED
    BY <2>1, <2>2
<1>6. f \in Injection(S, 1..n)
  <2> HIDE DEF f
  <2> QED
    BY <1>5, Fun_IsInj
<1>7. f \in Surjection(S, 1..n)
  <2> HIDE DEF f
  <2>1. IsFiniteSet(1..n) /\ Cardinality(1..n) = n
    BY <1>1, FS_Interval
  <2> QED
    BY <1>6, <2>1, FS_Injection DEF n
<1>8. \A i \in 1..n : \E x \in S : Cardinality(Below(x)) = i - 1
  <2>1. \A i \in 1..n : \E x \in S : f[x] = i
    <3> HIDE DEF f
    <3> QED
      BY <1>7, Fun_SurjectionProperties
  <2>2. ASSUME NEW i \in 1..n
        PROVE  \E x \in S : Cardinality(Below(x)) = i - 1
    <3>1. PICK x \in S : f[x] = i
      BY <2>1
    <3>2. Cardinality(Below(x)) \in Nat /\ Cardinality(Below(x)) + 1 = i
      BY <1>2, <3>1
    <3> QED
      BY <3>2, <1>1
  <2> QED
    BY <2>2
<1> DEFINE t == InOrder(S)
<1>9. t = [i \in 1..n |-> CHOOSE a \in S : Cardinality(Below(a)) = i - 1]
  BY DEF InOrder, Below, n
<1>10. \A i \in 1..n : t[i] \in S /\ Cardinality(Below(t[i])) = i - 1
  <2>1. ASSUME NEW i \in 1..n
        PROVE  t[i] \in S /\ Cardinality(Below(t[i])) = i - 1
    <3>1. t[i] = CHOOSE a \in S : Cardinality(Below(a)) = i - 1
      BY <1>9
    <3> QED
      BY <3>1, <1>8
  <2> QED
    BY <2>1
<1> HIDE DEF t
<1>11. t \in Seq(S) /\ Len(t) = n
  <2>1. t \in [1..n -> S]
    BY <1>9, <1>10
  <2> QED
    BY <1>1, <2>1
<1>12. ASSUME NEW x \in S
       PROVE  IsIn(x, t)
  <2>1. Cardinality(Below(x)) + 1 \in 1..n /\ Cardinality(Below(x)) \in Nat
    BY <1>2
  <2>2. PICK i \in 1..n : i = Cardinality(Below(x)) + 1
    BY <2>1
  <2>3. t[i] \in S /\ Cardinality(Below(t[i])) = Cardinality(Below(x))
    BY <1>10, <2>1, <2>2
  <2>4. t[i] = x
    BY <2>3, <1>4
  <2> QED
    BY <2>4, <1>11 DEF IsIn
<1> QED
  BY <1>11, <1>12 DEF t, n

(***************************************************************************)
(* What merging two lists of records keeps.                                *)
(***************************************************************************)
Unique(R) == \A x, y \in R : x.seq = y.seq => x = y
RangeIs(s) == {s[i] : i \in 1..Len(s)}

LEMMA RangeFacts ==
    ASSUME NEW X, NEW s \in Seq(X)
    PROVE  /\ Range(s) = RangeIs(s) /\ IsFiniteSet(Range(s)) /\ Range(s) \subseteq X
           /\ \A x : x \in Range(s) <=> IsIn(x, s)
<1>1. DOMAIN s = 1..Len(s) /\ Len(s) \in Nat /\ \A i \in 1..Len(s) : s[i] \in X
  OBVIOUS
<1>2. Range(s) = RangeIs(s)
  BY <1>1 DEF Range, RangeIs
<1>3. IsFiniteSet(1..Len(s))
  BY <1>1, FS_Interval
<1>4. s \in Surjection(1..Len(s), RangeIs(s))
  <2>1. s \in [1..Len(s) -> RangeIs(s)]
    BY <1>1 DEF RangeIs
  <2>2. \A y \in RangeIs(s) : \E i \in 1..Len(s) : s[i] = y
    BY DEF RangeIs
  <2> QED
    BY <2>1, <2>2, Fun_IsSurj
<1>5. IsFiniteSet(RangeIs(s))
  BY <1>3, <1>4, FS_Surjection
<1> QED
  BY <1>1, <1>2, <1>5 DEF RangeIs, IsIn

LEMMA NumberedSize ==
    ASSUME NEW X, NEW s \in Seq(X), Numbered(s), \A x \in X : x.seq \in Nat
    PROVE  Cardinality(Range(s)) = Len(s)
<1>1. Len(s) \in Nat /\ \A i \in 1..Len(s) : s[i].seq \in Nat
  OBVIOUS
<1>2. IsFiniteSet(1..Len(s)) /\ Cardinality(1..Len(s)) = Len(s)
  BY <1>1, FS_Interval
<1>3. Range(s) = RangeIs(s) /\ IsFiniteSet(Range(s))
  BY RangeFacts
<1>4. s \in [1..Len(s) -> RangeIs(s)]
  BY DEF RangeIs
<1>5. \A i, j \in 1..Len(s) : s[i] = s[j] => i = j
  <2>1. ASSUME NEW i \in 1..Len(s), NEW j \in 1..Len(s), s[i] = s[j], i # j
        PROVE  FALSE
    <3>1. i < j \/ j < i
      BY <2>1
    <3>2. s[i].seq < s[j].seq \/ s[j].seq < s[i].seq
      BY <3>1 DEF Numbered
    <3> QED
      BY <1>1, <2>1, <3>2
  <2> QED
    BY <2>1
<1>6. s \in Injection(1..Len(s), RangeIs(s))
  BY <1>4, <1>5, Fun_IsInj
<1>7. \A y \in RangeIs(s) : \E i \in 1..Len(s) : s[i] = y
  BY DEF RangeIs
<1>8. s \in Surjection(1..Len(s), RangeIs(s))
  BY <1>4, <1>7, Fun_IsSurj
<1> QED
  BY <1>2, <1>3, <1>6, <1>8, FS_Surjection

LEMMA MergeFacts ==
    ASSUME NEW R, \A x \in R : x.seq \in Nat, Unique(R),
           NEW s \in Seq(R), NEW t \in Seq(R), NEW n \in Nat, Len(s) <= n
    PROVE  LET m == MergeLogRecords(s, t, n)
           IN  /\ m \in Seq(R) /\ Len(m) <= n
               /\ \A x : IsIn(x, t) => IsIn(x, m) \/ Len(m) >= n
               /\ Numbered(t) /\ Len(t) >= n => Len(m) >= n
<1> DEFINE S == Range(s) \cup Range(t)
<1> DEFINE u == InOrder(S)
<1>1. /\ IsFiniteSet(Range(s)) /\ IsFiniteSet(Range(t)) /\ Range(s) \subseteq R
      /\ Range(t) \subseteq R /\ \A x : IsIn(x, t) => x \in Range(t)
  BY RangeFacts
<1>2. IsFiniteSet(S) /\ S \subseteq R
  BY <1>1, FS_Union
<1>3. (\A x \in S : x.seq \in Nat) /\ (\A x, y \in S : x.seq = y.seq => x = y)
  BY <1>2 DEF Unique
<1>4. Cardinality(Range(t)) <= Cardinality(S) /\ Cardinality(S) \in Nat
      /\ Cardinality(Range(t)) \in Nat
  BY <1>1, <1>2, FS_Subset, FS_CardinalityType
<1> HIDE DEF S
<1>5. u \in Seq(S) /\ Len(u) = Cardinality(S) /\ \A x \in S : IsIn(x, u)
  BY <1>2, <1>3, InOrderFacts
<1>6. u \in Seq(R)
  BY <1>2, <1>5, SeqMonotonic
<1> HIDE DEF u
<1>7. Newest(u, n) \in Seq(R) /\ Len(Newest(u, n)) = IF Len(u) <= n THEN Len(u) ELSE n
  BY <1>6, NewestFacts
<1>8. Len(Newest(u, n)) <= n
  BY <1>7, <1>5, <1>4
<1>9. ASSUME NEW x, IsIn(x, t)
      PROVE  IsIn(x, Newest(u, n)) \/ Len(Newest(u, n)) >= n
  <2>1. x \in Range(t)
    BY <1>1, <1>9
  <2>2. IsIn(x, u)
    BY <2>1, <1>5 DEF S
  <2> QED
    BY <2>2, <1>6, NewestKeeps
<1>10. ASSUME Numbered(t), Len(t) >= n
       PROVE  Len(Newest(u, n)) >= n
  <2>1. Cardinality(Range(t)) = Len(t)
    BY <1>10, NumberedSize
  <2>2. Len(u) >= n
    BY <2>1, <1>4, <1>5, <1>10
  <2> QED
    BY <2>2, <1>7, <1>4, <1>5
<1>11. CASE t = <<>>
  <2>1. MergeLogRecords(s, t, n) = s
    BY <1>11 DEF MergeLogRecords
  <2>2. Len(s) \in Nat /\ Len(t) = 0 /\ 1..0 = {}
    BY <1>11, EmptySeq
  <2>3. \A x : ~IsIn(x, t)
    BY <2>2 DEF IsIn
  <2>4. Len(t) >= n => Len(s) >= n
    BY <2>2
  <2> QED
    BY <2>1, <2>3, <2>4
<1>12. CASE t # <<>>
  <2>1. MergeLogRecords(s, t, n) = Newest(u, n)
    BY <1>12 DEF MergeLogRecords, S, u
  <2> QED
    BY <1>7, <1>8, <1>9, <1>10, <2>1
<1> QED
  BY <1>11, <1>12

-----------------------------------------------------------------------------
(* The channel.                                                             *)

(***************************************************************************)
(* The last projection of the main process to be pushed, or handed out     *)
(* with a snapshot, is the one it holds.                                   *)
(***************************************************************************)
IsKind(s, i, kinds) == s[i].kind \in kinds
NoneOf(s, kinds) == \A i \in 1..Len(s) : ~IsKind(s, i, kinds)
IsLatest(s, i) == \A j \in 1..Len(s) : i < j => ~IsKind(s, j, {"projection"})
Latest(s, p) ==
    \A i \in 1..Len(s) :
        IsLatest(s, i) => /\ IsKind(s, i, {"projection"}) => s[i].state = p
                          /\ IsKind(s, i, {"snapshot"}) => s[i].value = p

(***************************************************************************)
(* What initialize() asks for is on its way one call at a time, and the    *)
(* calls a user makes come after.                                          *)
(***************************************************************************)
Ordered(s, at) ==
    /\ \A i \in 1..Len(s) : IsKind(s, i, {"snapshot"}) =>
          \/ at = "snapshot"
          \/ at = "events" /\ \E j \in 1..Len(s) : i < j /\ IsKind(s, j, {"events"})
    /\ \A i \in 1..Len(s) : IsKind(s, i, {"events"}) =>
          at = "events" /\ \A j \in 1..Len(s) : IsKind(s, j, {"events"}) => i = j
    /\ \A i \in 1..Len(s) : IsKind(s, i, {"backfill"}) =>
          at = "backfill" /\ \A j \in 1..Len(s) : IsKind(s, j, {"backfill"}) => i = j
    /\ \A i \in 1..Len(s) : IsKind(s, i, {"scope", "history"}) => at \in {"backfill", "live"}

ListenerInv ==
    /\ Latest(pushes, projection)
    /\ Ordered(pushes, phase)
    /\ (phase # "start" /\ NoneOf(pushes, {"projection", "snapshot"}))
          => missed \/ view = projection

(***************************************************************************)
(* A record on its way: a message brings it, or sends for it.  A message   *)
(* that replaces what is shown must not come last.                         *)
(***************************************************************************)
Brings(m, x) ==
    \/ m.kind \in {"logs", "backfill"} /\ IsIn(x, m.records)
    \/ m.kind = "scope" /\ m.run = x.run /\ m.run # None
    \/ m.kind = "history" /\ m.run = x.run
       /\ (IsIn(x, m.records) \/ Len(m.records) >= LogLimit)
Brought(s, x, i) == \E j \in 1..Len(s) : i <= j /\ Brings(s[j], x)
Marks(m, x) == m.kind = "backfill" \/ (m.kind = "history" /\ m.run = x.run)
Covered(s, pending, x) ==
    \A i \in 1..Len(s) : Marks(s[i], x) => IsIn(x, pending) \/ Brought(s, x, i)

Wanted(x) ==
    /\ IsIn(x, logs)
    /\ whole /\ phase \in {"backfill", "live"}
    /\ IF selected = None THEN phase = "backfill" ELSE x.run = selected
Promised(x) ==
    /\ Covered(pushes, pendingLogs, x)
    /\ phase = "live" => \/ IsIn(x, shown) \/ Len(shown) >= LogLimit
                         \/ IsIn(x, pendingLogs) \/ Brought(pushes, x, 1)
CompleteInv ==
    /\ whole => scope \in {None, selected}
    /\ whole /\ selected = None => NoneOf(pushes, {"scope", "history"})
    /\ \A x : Wanted(x) => Promised(x)

LEMMA TailFacts ==
    ASSUME NEW X, NEW s \in Seq(X), s # <<>>
    PROVE  /\ Tail(s) \in Seq(X) /\ Head(s) = s[1] /\ Len(s) \in Nat /\ Len(s) >= 1
           /\ Len(Tail(s)) = Len(s) - 1
           /\ \A i \in 1..(Len(s) - 1) : Tail(s)[i] = s[i + 1] /\ i + 1 \in 1..Len(s)
<1>1. Len(s) \in Nat /\ Len(s) >= 1
  OBVIOUS
<1>2. /\ Tail(s) \in Seq(X) /\ Len(Tail(s)) = Len(s) - 1
      /\ \A i \in 1..Len(Tail(s)) : Tail(s)[i] = s[i + 1]
  BY HeadTailProperties
<1>3. Head(s) = s[1]
  OBVIOUS
<1> QED
  BY <1>1, <1>2, <1>3

(***************************************************************************)
(* What taking a message, or adding one, does to the last projection.      *)
(***************************************************************************)
LEMMA LatestTail ==
    ASSUME NEW X, NEW s \in Seq(X), s # <<>>, NEW p, Latest(s, p)
    PROVE  Latest(Tail(s), p)
<1> DEFINE t == Tail(s)
<1>1. /\ Len(s) \in Nat /\ Len(t) = Len(s) - 1
      /\ \A i \in 1..(Len(s) - 1) : t[i] = s[i + 1] /\ i + 1 \in 1..Len(s)
  BY TailFacts
<1> HIDE DEF t
<1>2. ASSUME NEW i \in 1..Len(t), IsLatest(t, i)
      PROVE  IsLatest(s, i + 1)
  <2>1. ASSUME NEW j \in 1..Len(s), i + 1 < j
        PROVE  ~IsKind(s, j, {"projection"})
    <3>1. j - 1 \in 1..Len(t) /\ i < j - 1 /\ (j - 1) + 1 = j
      BY <1>1, <2>1
    <3>2. t[j - 1] = s[j]
      BY <1>1, <3>1
    <3> QED
      BY <1>2, <3>1, <3>2 DEF IsLatest, IsKind
  <2> QED
    BY <2>1 DEF IsLatest
<1>3. ASSUME NEW i \in 1..Len(t), IsLatest(t, i)
      PROVE  /\ IsKind(t, i, {"projection"}) => t[i].state = p
             /\ IsKind(t, i, {"snapshot"}) => t[i].value = p
  <2>1. i + 1 \in 1..Len(s) /\ t[i] = s[i + 1] /\ IsLatest(s, i + 1)
    BY <1>1, <1>2, <1>3
  <2> QED
    BY <2>1 DEF Latest, IsKind
<1> QED
  BY <1>3 DEF Latest, t

LEMMA LatestAppend ==
    ASSUME NEW X, NEW s \in Seq(X), NEW m \in X, NEW p, Latest(s, p),
           m.kind # "projection", m.kind = "snapshot" => m.value = p
    PROVE  Latest(Append(s, m), p)
<1> DEFINE t == Append(s, m)
<1>1. /\ Len(s) \in Nat /\ Len(t) = Len(s) + 1 /\ t[Len(s) + 1] = m
      /\ \A i \in 1..Len(s) : t[i] = s[i]
  BY AppendFacts
<1> HIDE DEF t
<1>2. ASSUME NEW i \in 1..Len(t), IsLatest(t, i)
      PROVE  /\ IsKind(t, i, {"projection"}) => t[i].state = p
             /\ IsKind(t, i, {"snapshot"}) => t[i].value = p
  <2>1. CASE i = Len(s) + 1
    BY <2>1, <1>1 DEF IsKind
  <2>2. CASE i # Len(s) + 1
    <3>1. i \in 1..Len(s) /\ t[i] = s[i]
      BY <2>2, <1>1
    <3>2. \A j \in 1..Len(s) : j \in 1..Len(t) /\ t[j] = s[j]
      BY <1>1
    <3>3. IsLatest(s, i)
      BY <1>2, <3>2 DEF IsLatest, IsKind
    <3> QED
      BY <3>1, <3>3 DEF Latest, IsKind
  <2> QED
    BY <2>1, <2>2
<1> QED
  BY <1>2 DEF Latest, t

LEMMA LatestPush ==
    ASSUME NEW X, NEW s \in Seq(X), NEW m \in X, NEW p, m.kind = "projection", m.state = p
    PROVE  Latest(Append(s, m), p)
<1> DEFINE t == Append(s, m)
<1>1. /\ Len(s) \in Nat /\ Len(t) = Len(s) + 1 /\ t[Len(s) + 1] = m
  BY AppendFacts
<1> HIDE DEF t
<1>2. ASSUME NEW i \in 1..Len(t), IsLatest(t, i)
      PROVE  i = Len(t)
  <2>1. Len(t) \in 1..Len(t) /\ IsKind(t, Len(t), {"projection"})
    BY <1>1 DEF IsKind
  <2>2. ~(i < Len(t))
    BY <1>2, <2>1 DEF IsLatest
  <2> QED
    BY <2>2, <1>1
<1>3. t[Len(t)] = m
  BY <1>1
<1>4. ~IsKind(t, Len(t), {"snapshot"})
  BY <1>3 DEF IsKind
<1> QED
  BY <1>2, <1>3, <1>4 DEF Latest, t

LEMMA NoneOfTail ==
    ASSUME NEW X, NEW s \in Seq(X), s # <<>>, NEW kinds
    PROVE  /\ NoneOf(s, kinds) => NoneOf(Tail(s), kinds)
           /\ NoneOf(Tail(s), kinds) /\ ~IsKind(s, 1, kinds) => NoneOf(s, kinds)
<1> DEFINE t == Tail(s)
<1>1. /\ Len(s) \in Nat /\ Len(s) >= 1 /\ Len(t) = Len(s) - 1
      /\ \A i \in 1..(Len(s) - 1) : t[i] = s[i + 1] /\ i + 1 \in 1..Len(s)
  BY TailFacts
<1> HIDE DEF t
<1>2. ASSUME NoneOf(s, kinds) PROVE NoneOf(t, kinds)
  BY <1>1, <1>2 DEF NoneOf, IsKind
<1>3. ASSUME NoneOf(t, kinds), ~IsKind(s, 1, kinds) PROVE NoneOf(s, kinds)
  <2>1. ASSUME NEW i \in 1..Len(s) PROVE ~IsKind(s, i, kinds)
    <3>1. CASE i = 1
      BY <3>1, <1>3
    <3>2. CASE i # 1
      <4>1. i - 1 \in 1..Len(t) /\ (i - 1) + 1 = i
        BY <3>2, <1>1
      <4>2. t[i - 1] = s[i]
        BY <4>1, <1>1
      <4> QED
        BY <4>1, <4>2, <1>3 DEF NoneOf, IsKind
    <3> QED
      BY <3>1, <3>2
  <2> QED
    BY <2>1 DEF NoneOf
<1> QED
  BY <1>2, <1>3 DEF t

LEMMA NoneOfAppend ==
    ASSUME NEW X, NEW s \in Seq(X), NEW m \in X, NEW kinds
    PROVE  NoneOf(Append(s, m), kinds) <=> NoneOf(s, kinds) /\ m.kind \notin kinds
<1> DEFINE t == Append(s, m)
<1>1. /\ Len(s) \in Nat /\ Len(t) = Len(s) + 1 /\ t[Len(s) + 1] = m
      /\ \A i \in 1..Len(s) : t[i] = s[i]
  BY AppendFacts
<1> HIDE DEF t
<1>2. ASSUME NoneOf(t, kinds) PROVE NoneOf(s, kinds) /\ m.kind \notin kinds
  <2>1. Len(s) + 1 \in 1..Len(t) /\ \A i \in 1..Len(s) : i \in 1..Len(t)
    BY <1>1
  <2> QED
    BY <1>1, <1>2, <2>1 DEF NoneOf, IsKind
<1>3. ASSUME NoneOf(s, kinds), m.kind \notin kinds PROVE NoneOf(t, kinds)
  <2>1. \A i \in 1..Len(t) : i = Len(s) + 1 \/ i \in 1..Len(s)
    BY <1>1
  <2> QED
    BY <1>1, <1>3, <2>1 DEF NoneOf, IsKind
<1> QED
  BY <1>2, <1>3 DEF t

(***************************************************************************)
(* How far initialize() is moves on with its calls and their answers.      *)
(***************************************************************************)
LEMMA OrderedTail ==
    ASSUME NEW X, NEW s \in Seq(X), s # <<>>, NEW at, Ordered(s, at)
    PROVE  Ordered(Tail(s), at)
<1> DEFINE t == Tail(s)
<1>1. /\ Len(s) \in Nat /\ Len(t) = Len(s) - 1
      /\ \A i \in 1..(Len(s) - 1) : t[i] = s[i + 1] /\ i + 1 \in 1..Len(s)
  BY TailFacts
<1> HIDE DEF t
<1>2. \A i \in 1..Len(t) : \A kinds : IsKind(t, i, kinds) <=> IsKind(s, i + 1, kinds)
  BY <1>1 DEF IsKind
<1>3. \A i \in 1..Len(t) : i + 1 \in 1..Len(s)
  BY <1>1
<1>4. ASSUME NEW i \in 1..Len(t), IsKind(t, i, {"snapshot"})
      PROVE  \/ at = "snapshot"
             \/ at = "events" /\ \E j \in 1..Len(t) : i < j /\ IsKind(t, j, {"events"})
  <2>1. CASE at # "snapshot"
    <3>1. IsKind(s, i + 1, {"snapshot"}) /\ i + 1 \in 1..Len(s)
      BY <1>2, <1>3, <1>4
    <3>2. at = "events" /\ \E j \in 1..Len(s) : i + 1 < j /\ IsKind(s, j, {"events"})
      BY <3>1, <2>1 DEF Ordered
    <3>3. PICK j \in 1..Len(s) : i + 1 < j /\ IsKind(s, j, {"events"})
      BY <3>2
    <3>4. j - 1 \in 1..Len(t) /\ i < j - 1 /\ (j - 1) + 1 = j
      BY <3>3, <1>1
    <3>5. IsKind(t, j - 1, {"events"})
      BY <3>3, <3>4, <1>2
    <3> QED
      BY <3>2, <3>4, <3>5
  <2> QED
    BY <2>1
<1>5. ASSUME NEW i \in 1..Len(t), IsKind(t, i, {"events"})
      PROVE  at = "events" /\ \A j \in 1..Len(t) : IsKind(t, j, {"events"}) => i = j
  <2>1. IsKind(s, i + 1, {"events"}) /\ i + 1 \in 1..Len(s)
    BY <1>2, <1>3, <1>5
  <2>2. at = "events" /\ \A j \in 1..Len(s) : IsKind(s, j, {"events"}) => i + 1 = j
    BY <2>1 DEF Ordered
  <2>3. ASSUME NEW j \in 1..Len(t), IsKind(t, j, {"events"})
        PROVE  i = j
    <3>1. i + 1 = j + 1
      BY <1>2, <1>3, <2>2, <2>3
    <3> QED
      BY <3>1
  <2> QED
    BY <2>2, <2>3
<1>6. ASSUME NEW i \in 1..Len(t), IsKind(t, i, {"backfill"})
      PROVE  at = "backfill" /\ \A j \in 1..Len(t) : IsKind(t, j, {"backfill"}) => i = j
  <2>1. IsKind(s, i + 1, {"backfill"}) /\ i + 1 \in 1..Len(s)
    BY <1>2, <1>3, <1>6
  <2>2. at = "backfill" /\ \A j \in 1..Len(s) : IsKind(s, j, {"backfill"}) => i + 1 = j
    BY <2>1 DEF Ordered
  <2>3. ASSUME NEW j \in 1..Len(t), IsKind(t, j, {"backfill"})
        PROVE  i = j
    <3>1. i + 1 = j + 1
      BY <1>2, <1>3, <2>2, <2>3
    <3> QED
      BY <3>1
  <2> QED
    BY <2>2, <2>3
<1>7. ASSUME NEW i \in 1..Len(t), IsKind(t, i, {"scope", "history"})
      PROVE  at \in {"backfill", "live"}
  <2>1. IsKind(s, i + 1, {"scope", "history"}) /\ i + 1 \in 1..Len(s)
    BY <1>2, <1>3, <1>7
  <2> QED
    BY <2>1 DEF Ordered
<1> QED
  BY <1>4, <1>5, <1>6, <1>7 DEF Ordered, t

LEMMA OrderedAppend ==
    ASSUME NEW X, NEW s \in Seq(X), NEW m \in X, NEW at, Ordered(s, at),
           m.kind \notin {"snapshot", "events", "backfill"},
           m.kind \in {"scope", "history"} => at \in {"backfill", "live"}
    PROVE  Ordered(Append(s, m), at)
<1> DEFINE t == Append(s, m)
<1>1. /\ Len(s) \in Nat /\ Len(t) = Len(s) + 1 /\ t[Len(s) + 1] = m
      /\ \A i \in 1..Len(s) : t[i] = s[i]
  BY AppendFacts
<1> HIDE DEF t
<1>2. \A i \in 1..Len(s) : i \in 1..Len(t) /\ \A kinds : IsKind(t, i, kinds) <=> IsKind(s, i, kinds)
  BY <1>1 DEF IsKind
<1>3. \A i \in 1..Len(t) : i \in 1..Len(s) \/ (i = Len(s) + 1 /\ t[i] = m)
  BY <1>1
<1>4. ASSUME NEW i \in 1..Len(t), \/ IsKind(t, i, {"snapshot"}) \/ IsKind(t, i, {"events"})
                                  \/ IsKind(t, i, {"backfill"})
      PROVE  i \in 1..Len(s)
  BY <1>3, <1>4 DEF IsKind
<1>5. ASSUME NEW i \in 1..Len(t), IsKind(t, i, {"snapshot"})
      PROVE  \/ at = "snapshot"
             \/ at = "events" /\ \E j \in 1..Len(t) : i < j /\ IsKind(t, j, {"events"})
  <2>1. i \in 1..Len(s) /\ IsKind(s, i, {"snapshot"})
    BY <1>2, <1>4, <1>5
  <2> QED
    BY <2>1, <1>2 DEF Ordered
<1>6. ASSUME NEW i \in 1..Len(t), IsKind(t, i, {"events"})
      PROVE  at = "events" /\ \A j \in 1..Len(t) : IsKind(t, j, {"events"}) => i = j
  <2>1. i \in 1..Len(s) /\ IsKind(s, i, {"events"})
    BY <1>2, <1>4, <1>6
  <2> QED
    BY <2>1, <1>2, <1>4 DEF Ordered
<1>7. ASSUME NEW i \in 1..Len(t), IsKind(t, i, {"backfill"})
      PROVE  at = "backfill" /\ \A j \in 1..Len(t) : IsKind(t, j, {"backfill"}) => i = j
  <2>1. i \in 1..Len(s) /\ IsKind(s, i, {"backfill"})
    BY <1>2, <1>4, <1>7
  <2> QED
    BY <2>1, <1>2, <1>4 DEF Ordered
<1>8. ASSUME NEW i \in 1..Len(t), IsKind(t, i, {"scope", "history"})
      PROVE  at \in {"backfill", "live"}
  <2>1. CASE i \in 1..Len(s)
    <3>1. IsKind(s, i, {"scope", "history"})
      BY <1>2, <1>8, <2>1
    <3> QED
      BY <2>1, <3>1 DEF Ordered
  <2>2. CASE i = Len(s) + 1 /\ t[i] = m
    BY <2>2, <1>8 DEF IsKind
  <2> QED
    BY <2>1, <2>2, <1>3
<1> QED
  BY <1>5, <1>6, <1>7, <1>8 DEF Ordered, t

(***************************************************************************)
(* The first call is made when nothing is asked for, the second behind the *)
(* first, and the third when the answer to the second is taken.            *)
(***************************************************************************)
LEMMA OrderedSnapshot ==
    ASSUME NEW X, NEW s \in Seq(X), NEW m \in X, Ordered(s, "start"), m.kind = "snapshot"
    PROVE  Ordered(Append(s, m), "snapshot")
<1> DEFINE t == Append(s, m)
<1>1. /\ Len(s) \in Nat /\ Len(t) = Len(s) + 1 /\ t[Len(s) + 1] = m
      /\ \A i \in 1..Len(s) : t[i] = s[i]
  BY AppendFacts
<1> HIDE DEF t
<1>2. \A i \in 1..Len(s) : /\ ~IsKind(s, i, {"events"}) /\ ~IsKind(s, i, {"backfill"})
                           /\ ~IsKind(s, i, {"scope", "history"})
  BY DEF Ordered
<1>3. \A i \in 1..Len(t) : (i \in 1..Len(s) /\ t[i] = s[i]) \/ t[i] = m
  BY <1>1
<1>4. \A i \in 1..Len(t) : /\ ~IsKind(t, i, {"events"}) /\ ~IsKind(t, i, {"backfill"})
                           /\ ~IsKind(t, i, {"scope", "history"})
  BY <1>2, <1>3 DEF IsKind
<1> QED
  BY <1>4 DEF Ordered, t

LEMMA OrderedEvents ==
    ASSUME NEW X, NEW s \in Seq(X), NEW m \in X, Ordered(s, "snapshot"), m.kind = "events"
    PROVE  Ordered(Append(s, m), "events")
<1> DEFINE t == Append(s, m)
<1> DEFINE n == Len(s) + 1
<1>1. /\ Len(s) \in Nat /\ Len(t) = n /\ t[n] = m /\ \A i \in 1..Len(s) : t[i] = s[i]
  BY AppendFacts
<1>2. n \in 1..n /\ \A i \in 1..n : i = n \/ (i < n /\ i \in 1..Len(s))
  BY <1>1
<1> HIDE DEF t, n
<1>3. \A i \in 1..Len(s) : /\ ~IsKind(s, i, {"events"}) /\ ~IsKind(s, i, {"backfill"})
                           /\ ~IsKind(s, i, {"scope", "history"})
  BY DEF Ordered
<1>4. IsKind(t, n, {"events"})
  BY <1>1 DEF IsKind
<1>5. \A i \in 1..n : i # n => /\ ~IsKind(t, i, {"events"}) /\ ~IsKind(t, i, {"backfill"})
                               /\ ~IsKind(t, i, {"scope", "history"})
  BY <1>1, <1>2, <1>3 DEF IsKind
<1>6. ~IsKind(t, n, {"snapshot"}) /\ ~IsKind(t, n, {"backfill"})
      /\ ~IsKind(t, n, {"scope", "history"})
  BY <1>1 DEF IsKind
<1>7. \A i \in 1..n : IsKind(t, i, {"snapshot"}) => i < n
  BY <1>2, <1>6
<1> QED
  BY <1>1, <1>2, <1>4, <1>5, <1>6, <1>7 DEF Ordered, t

LEMMA OrderedBackfill ==
    ASSUME NEW X, NEW s \in Seq(X), s # <<>>, NEW m \in X, NEW at, Ordered(s, at),
           IsKind(s, 1, {"events"}), m.kind = "backfill"
    PROVE  Ordered(Append(Tail(s), m), "backfill") /\ NoneOf(Append(Tail(s), m), {"scope", "history"})
<1> DEFINE u == Tail(s)
<1> DEFINE t == Append(u, m)
<1> DEFINE n == Len(s)
<1>1. /\ n \in Nat /\ n >= 1 /\ u \in Seq(X) /\ Len(u) = n - 1
      /\ \A i \in 1..(n - 1) : u[i] = s[i + 1] /\ i + 1 \in 1..n
  BY TailFacts
<1> HIDE DEF u
<1>2. /\ Len(t) = Len(u) + 1 /\ t[Len(u) + 1] = m /\ \A i \in 1..Len(u) : t[i] = u[i]
  BY <1>1, AppendFacts
<1>3. Len(t) = n /\ t[n] = m /\ \A i \in 1..(n - 1) : t[i] = s[i + 1] /\ i + 1 \in 1..n /\ i + 1 # 1
  BY <1>1, <1>2
<1> HIDE DEF t
<1>4. /\ at = "events" /\ 1 \in 1..n
      /\ \A j \in 1..n : IsKind(s, j, {"events"}) => 1 = j
  BY <1>1 DEF Ordered
<1>5. \A j \in 1..n : /\ ~IsKind(s, j, {"snapshot"}) /\ ~IsKind(s, j, {"backfill"})
                      /\ ~IsKind(s, j, {"scope", "history"})
  <2>1. ASSUME NEW j \in 1..n, IsKind(s, j, {"snapshot"})
        PROVE  FALSE
    <3>1. \E k \in 1..n : j < k /\ IsKind(s, k, {"events"})
      BY <2>1, <1>4 DEF Ordered
    <3> QED
      BY <3>1, <1>4
  <2> QED
    BY <2>1, <1>4 DEF Ordered
<1>6. \A i \in 1..n : i \in 1..(n - 1) \/ i = n
  BY <1>1
<1>7. \A i \in 1..(n - 1) : /\ ~IsKind(t, i, {"snapshot"}) /\ ~IsKind(t, i, {"events"})
                            /\ ~IsKind(t, i, {"backfill"}) /\ ~IsKind(t, i, {"scope", "history"})
  <2>1. ASSUME NEW i \in 1..(n - 1)
        PROVE  \A kinds : IsKind(t, i, kinds) => IsKind(s, i + 1, kinds)
    BY <1>3 DEF IsKind
  <2> QED
    BY <2>1, <1>3, <1>4, <1>5
<1>8. ~IsKind(t, n, {"snapshot"}) /\ ~IsKind(t, n, {"events"}) /\ ~IsKind(t, n, {"scope", "history"})
  BY <1>3 DEF IsKind
<1>9. NoneOf(t, {"scope", "history"})
  BY <1>3, <1>6, <1>7, <1>8 DEF NoneOf
<1>10. Ordered(t, "backfill")
  <2>1. \A i \in 1..Len(t) : /\ ~IsKind(t, i, {"snapshot"}) /\ ~IsKind(t, i, {"events"})
                             /\ ~IsKind(t, i, {"scope", "history"})
                             /\ IsKind(t, i, {"backfill"}) => i = n
    BY <1>3, <1>6, <1>7, <1>8
  <2> QED
    BY <2>1 DEF Ordered
<1> QED
  BY <1>9, <1>10 DEF t, u

LEMMA OrderedLive ==
    ASSUME NEW X, NEW s \in Seq(X), s # <<>>, NEW at, Ordered(s, at), IsKind(s, 1, {"backfill"})
    PROVE  at = "backfill" /\ Ordered(Tail(s), "live")
<1> DEFINE t == Tail(s)
<1> DEFINE n == Len(s)
<1>1. /\ n \in Nat /\ n >= 1 /\ Len(t) = n - 1
      /\ \A i \in 1..(n - 1) : t[i] = s[i + 1] /\ i + 1 \in 1..n /\ i + 1 # 1
  <2>1. /\ Len(s) \in Nat /\ Len(s) >= 1 /\ Len(t) = Len(s) - 1
        /\ \A i \in 1..(Len(s) - 1) : t[i] = s[i + 1] /\ i + 1 \in 1..Len(s)
    BY TailFacts
  <2> QED
    BY <2>1
<1> HIDE DEF t
<1>2. /\ at = "backfill" /\ 1 \in 1..n
      /\ \A j \in 1..n : IsKind(s, j, {"backfill"}) => 1 = j
  BY <1>1 DEF Ordered
<1>3. \A j \in 1..n : ~IsKind(s, j, {"snapshot"}) /\ ~IsKind(s, j, {"events"})
  BY <1>2 DEF Ordered
<1>4. ASSUME NEW i \in 1..Len(t)
      PROVE  ~IsKind(t, i, {"snapshot"}) /\ ~IsKind(t, i, {"events"}) /\ ~IsKind(t, i, {"backfill"})
  <2>1. \A kinds : IsKind(t, i, kinds) => IsKind(s, i + 1, kinds)
    BY <1>1 DEF IsKind
  <2> QED
    BY <2>1, <1>1, <1>2, <1>3
<1> QED
  BY <1>2, <1>4 DEF Ordered, t

(***************************************************************************)
(* What is on its way stays on its way.                                    *)
(***************************************************************************)
LEMMA BroughtAppend ==
    ASSUME NEW X, NEW s \in Seq(X), NEW m \in X, NEW x, NEW i \in 1..(Len(s) + 1),
           Brought(s, x, i) \/ Brings(m, x)
    PROVE  Brought(Append(s, m), x, i)
<1> DEFINE t == Append(s, m)
<1>1. /\ Len(s) \in Nat /\ Len(t) = Len(s) + 1 /\ t[Len(s) + 1] = m
      /\ \A j \in 1..Len(s) : t[j] = s[j]
  BY AppendFacts
<1> HIDE DEF t
<1>2. CASE Brought(s, x, i)
  <2>1. PICK j \in 1..Len(s) : i <= j /\ Brings(s[j], x)
    BY <1>2 DEF Brought
  <2>2. j \in 1..Len(t) /\ t[j] = s[j]
    BY <1>1
  <2> QED
    BY <2>1, <2>2 DEF Brought, t
<1>3. CASE Brings(m, x)
  <2>1. Len(s) + 1 \in 1..Len(t) /\ i <= Len(s) + 1
    BY <1>1
  <2> QED
    BY <2>1, <1>1, <1>3 DEF Brought, t
<1> QED
  BY <1>2, <1>3

LEMMA BroughtTail ==
    ASSUME NEW X, NEW s \in Seq(X), s # <<>>, NEW x, NEW i \in Nat, i >= 1,
           Brought(s, x, i + 1) \/ (i = 1 /\ Brought(s, x, 1) /\ ~Brings(s[1], x))
    PROVE  Brought(Tail(s), x, i)
<1> DEFINE t == Tail(s)
<1>1. /\ Len(s) \in Nat /\ Len(t) = Len(s) - 1 /\ \A j \in 1..(Len(s) - 1) : t[j] = s[j + 1]
  BY TailFacts
<1> HIDE DEF t
<1>2. PICK j \in 1..Len(s) : i + 1 <= j /\ Brings(s[j], x)
  <2>1. CASE Brought(s, x, i + 1)
    BY <2>1 DEF Brought
  <2>2. CASE i = 1 /\ Brought(s, x, 1) /\ ~Brings(s[1], x)
    <3>1. PICK j \in 1..Len(s) : Brings(s[j], x)
      BY <2>2 DEF Brought
    <3>2. j # 1
      BY <2>2, <3>1
    <3>3. i + 1 <= j
      BY <2>2, <3>2
    <3> QED
      BY <3>1, <3>3
  <2> QED
    BY <2>1, <2>2
<1>3. j - 1 \in 1..Len(t) /\ i <= j - 1 /\ (j - 1) + 1 = j
  BY <1>1, <1>2
<1>4. t[j - 1] = s[j]
  BY <1>1, <1>3
<1> QED
  BY <1>2, <1>3, <1>4 DEF Brought, t

LEMMA CoveredTail ==
    ASSUME NEW X, NEW s \in Seq(X), s # <<>>, NEW pending, NEW x, Covered(s, pending, x)
    PROVE  Covered(Tail(s), pending, x)
<1> DEFINE t == Tail(s)
<1>1. /\ Len(s) \in Nat /\ Len(t) = Len(s) - 1
      /\ \A i \in 1..(Len(s) - 1) : t[i] = s[i + 1] /\ i + 1 \in 1..Len(s)
  BY TailFacts
<1> HIDE DEF t
<1>2. ASSUME NEW i \in 1..Len(t), Marks(t[i], x), ~IsIn(x, pending)
      PROVE  Brought(t, x, i)
  <2>1. i + 1 \in 1..Len(s) /\ Marks(s[i + 1], x) /\ i \in Nat /\ i >= 1
    BY <1>1, <1>2
  <2>2. Brought(s, x, i + 1)
    BY <1>2, <2>1 DEF Covered
  <2> QED
    BY <2>1, <2>2, BroughtTail DEF t
<1> QED
  BY <1>2 DEF Covered, t

(***************************************************************************)
(* A message more, and perhaps pending records sent.                       *)
(***************************************************************************)
LEMMA CoveredAppend ==
    ASSUME NEW X, NEW s \in Seq(X), NEW m \in X, NEW pending, NEW left, NEW x,
           Covered(s, pending, x), IsIn(x, pending) => IsIn(x, left) \/ Brings(m, x),
           Marks(m, x) => IsIn(x, left) \/ Brings(m, x)
    PROVE  Covered(Append(s, m), left, x)
<1> DEFINE t == Append(s, m)
<1>1. /\ Len(s) \in Nat /\ Len(t) = Len(s) + 1 /\ t[Len(s) + 1] = m
      /\ \A i \in 1..Len(s) : t[i] = s[i]
  BY AppendFacts
<1> HIDE DEF t
<1>2. ASSUME NEW i \in 1..Len(t), Marks(t[i], x), ~IsIn(x, left)
      PROVE  Brought(t, x, i)
  <2>1. i \in 1..(Len(s) + 1)
    BY <1>1
  <2>2. Brought(s, x, i) \/ Brings(m, x)
    <3>1. CASE i = Len(s) + 1
      BY <3>1, <1>1, <1>2
    <3>2. CASE i # Len(s) + 1
      <4>1. i \in 1..Len(s) /\ Marks(s[i], x)
        BY <3>2, <1>1, <1>2
      <4>2. IsIn(x, pending) \/ Brought(s, x, i)
        BY <4>1 DEF Covered
      <4> QED
        BY <4>2, <1>2
    <3> QED
      BY <3>1, <3>2
  <2> QED
    BY <2>1, <2>2, BroughtAppend DEF t
<1> QED
  BY <1>2 DEF Covered, t

-----------------------------------------------------------------------------
(* What the main process answers.                                           *)

LEMMA InScopeFacts ==
    ASSUME NEW X, NEW s \in Seq(X), NEW r
    PROVE  /\ InScope(s, r) \in Seq(X)
           /\ \A x : IsIn(x, InScope(s, r)) <=> IsIn(x, s) /\ r \in {None, x.run}
           /\ Numbered(s) => Numbered(InScope(s, r))
           /\ r = None => InScope(s, r) = s
<1> DEFINE those == {x \in Range(s) : r \in {None, x.run}}
<1>1. InScope(s, r) = Kept(s, those)
  BY DEF InScope
<1>2. \A x : x \in Range(s) <=> IsIn(x, s)
  BY RangeFacts
<1>3. \A x : x \in those <=> IsIn(x, s) /\ r \in {None, x.run}
  BY <1>2
<1>4. \A i \in 1..Len(s) : IsIn(s[i], s)
  BY DEF IsIn
<1>5. r = None => \A i \in 1..Len(s) : s[i] \in those
  BY <1>3, <1>4
<1> HIDE DEF those
<1>6. /\ Kept(s, those) \in Seq(X)
      /\ \A x : IsIn(x, Kept(s, those)) <=> IsIn(x, s) /\ x \in those
      /\ Numbered(s) => Numbered(Kept(s, those))
  BY KeptFacts
<1>7. r = None => Kept(s, those) = s
  BY <1>5, KeptAll
<1> QED
  BY <1>1, <1>3, <1>6, <1>7

LEMMA QueryFacts ==
    ASSUME NEW X, logs \in Seq(X), Numbered(logs), NEW r, NEW n \in Nat
    PROVE  /\ QueryLogs(r, n) \in Seq(X) /\ Len(QueryLogs(r, n)) <= n
           /\ Numbered(QueryLogs(r, n))
           /\ \A x : IsIn(x, logs) /\ r \in {None, x.run} =>
                 IsIn(x, QueryLogs(r, n)) \/ Len(QueryLogs(r, n)) >= n
           /\ r = None /\ Len(logs) <= n => QueryLogs(r, n) = logs
<1> DEFINE t == InScope(logs, r)
<1>1. /\ t \in Seq(X) /\ Numbered(t) /\ (r = None => t = logs)
      /\ \A x : IsIn(x, t) <=> IsIn(x, logs) /\ r \in {None, x.run}
  BY InScopeFacts
<1>2. QueryLogs(r, n) = Newest(t, n)
  BY DEF QueryLogs
<1> HIDE DEF t
<1>3. /\ Newest(t, n) \in Seq(X) /\ Len(Newest(t, n)) = (IF Len(t) <= n THEN Len(t) ELSE n)
      /\ (Len(t) <= n => Newest(t, n) = t) /\ Numbered(Newest(t, n))
  BY <1>1, NewestFacts
<1>4. Len(Newest(t, n)) <= n
  <2>1. Len(t) \in Nat
    BY <1>1
  <2> QED
    BY <1>3, <2>1
<1>5. \A x : IsIn(x, t) => IsIn(x, Newest(t, n)) \/ Len(Newest(t, n)) >= n
  BY <1>1, NewestKeeps
<1> QED
  BY <1>1, <1>2, <1>3, <1>4, <1>5

LEMMA AnswerFacts ==
    /\ Answer([kind |-> "snapshot"]) = [kind |-> "snapshot", value |-> projection]
    /\ Answer([kind |-> "events"]) = [kind |-> "events", value |-> ring]
    /\ \A n : Answer([kind |-> "replay", tag |-> n]) = [kind |-> "replay", tag |-> n, events |-> ring]
    /\ \A n : Answer([kind |-> "backfill", limit |-> n]) =
                 [kind |-> "backfill", records |-> QueryLogs(None, n)]
    /\ \A r : Answer([kind |-> "scope", run |-> r]) = [kind |-> "scope", run |-> r]
    /\ \A r, n : Answer([kind |-> "history", run |-> r, limit |-> n]) =
                    [kind |-> "history", run |-> r, records |-> QueryLogs(r, n)]
<1>1. Answer([kind |-> "snapshot"]) = [kind |-> "snapshot", value |-> projection]
  BY DEF Answer
<1>2. Answer([kind |-> "events"]) = [kind |-> "events", value |-> ring]
  BY DEF Answer
<1>3. \A n : Answer([kind |-> "replay", tag |-> n]) = [kind |-> "replay", tag |-> n, events |-> ring]
  BY DEF Answer
<1>4. \A n : Answer([kind |-> "backfill", limit |-> n]) =
                [kind |-> "backfill", records |-> QueryLogs(None, n)]
  BY DEF Answer
<1>5. \A r : Answer([kind |-> "scope", run |-> r]) = [kind |-> "scope", run |-> r]
  BY DEF Answer
<1>6. \A r, n : Answer([kind |-> "history", run |-> r, limit |-> n]) =
                   [kind |-> "history", run |-> r, records |-> QueryLogs(r, n)]
  BY DEF Answer
<1> QED
  BY <1>1, <1>2, <1>3, <1>4, <1>5, <1>6

LEMMA TakeNone ==
    ASSUME NEW X, pushes \in Seq(X), pushes # <<>>, Take(<<>>)
    PROVE  pushes' = Tail(pushes)
<1> DEFINE none == [i \in DOMAIN <<>> |-> Answer(<<>>[i])]
<1>1. Tail(pushes) \in Seq(X)
  BY TailFacts
<1>2. none = <<>>
  OBVIOUS
<1>3. pushes' = Tail(pushes) \o none
  BY DEF Take
<1> HIDE DEF none
<1> QED
  BY <1>1, <1>2, <1>3, ConcatEmptySeq

LEMMA TakeOne ==
    ASSUME NEW X, pushes \in Seq(X), pushes # <<>>, NEW c, Take(<<c>>)
    PROVE  pushes' = Append(Tail(pushes), Answer(c))
<1> DEFINE one == [i \in DOMAIN <<c>> |-> Answer(<<c>>[i])]
<1> DEFINE Y == X \cup {Answer(c)}
<1>1. Tail(pushes) \in Seq(X)
  BY TailFacts
<1>2. Tail(pushes) \in Seq(Y) /\ Answer(c) \in Y
  BY <1>1, SeqMonotonic
<1>3. one = <<Answer(c)>>
  <2>1. DOMAIN <<c>> = 1..1 /\ <<c>>[1] = c
    OBVIOUS
  <2>2. one = [i \in 1..1 |-> Answer(c)]
    BY <2>1
  <2> QED
    BY <2>2
<1>4. pushes' = Tail(pushes) \o one
  BY DEF Take
<1> HIDE DEF one, Y
<1>5. PICK t, a : t = Tail(pushes) /\ a = Answer(c)
  OBVIOUS
<1>6. t \o <<a>> = Append(t, a)
  BY <1>2, <1>5
<1> QED
  BY <1>3, <1>4, <1>5, <1>6

-----------------------------------------------------------------------------
(* The stores are well formed, and the fold keeps up.                       *)

(***************************************************************************)
(* R holds one record to a number and none numbered ahead; the lists of    *)
(* records are of it, those on the channel too.                            *)
(***************************************************************************)
Sound(m, R) ==
    /\ m.kind \in {"logs", "backfill", "history"} => m.records \in Seq(R)
    /\ m.kind = "backfill" => Len(m.records) <= BackfillLimit
    /\ m.kind = "history" => Numbered(m.records)
Channel(M, R) == {m \in M : Sound(m, R)}
Held(M, R) ==
    /\ Unique(R) /\ \A x \in R : x.seq \in Nat /\ x.seq <= logSeq
    /\ logs \in Seq(R) /\ pendingLogs \in Seq(R) /\ shown \in Seq(R)
    /\ pushes \in Seq(Channel(M, R))

NumbersInv ==
    /\ session \in Nat /\ nextId \in Nat \ {0} /\ logSeq \in Nat
    /\ capacity \in BufferSizes
    /\ phase \in {"start", "snapshot", "events", "backfill", "live"}
BuffersInv ==
    /\ ring \in Seq(Arriving) /\ Len(ring) <= capacity
    /\ Len(logs) <= capacity /\ Numbered(logs) /\ Len(shown) <= LogLimit
    /\ (pendingEvents # <<>> => stateTimer) /\ (pendingLogs # <<>> => logTimer)
FoldInv ==
    /\ pendingEvents \in Seq(Arriving)
    /\ ideal = ApplyEvents(projection, pendingEvents)
RecordsInv == \E M, R : Held(M, R)
StoreInv == NumbersInv /\ BuffersInv /\ FoldInv /\ RecordsInv

LEMMA LimitsAreNumbers ==
    /\ LogLimit \in Nat /\ BackfillLimit \in Nat /\ BackfillLimit <= LogLimit
    /\ Sessions \subseteq Nat /\ BufferSizes \subseteq Nat /\ \A n \in BufferSizes : n >= 1
  BY StoreAssumption, BufferSizesAssumption DEF StoreAssumption, BufferSizesAssumption

LEMMA ChannelGrows ==
    ASSUME NEW M, NEW R, NEW s \in Seq(Channel(M, R)), NEW m, NEW Q, R \subseteq Q, Sound(m, Q)
    PROVE  /\ s \in Seq(Channel(M \cup {m}, Q)) /\ m \in Channel(M \cup {m}, Q)
           /\ Append(s, m) \in Seq(Channel(M \cup {m}, Q))
<1>1. ASSUME NEW c \in Channel(M, R)
      PROVE  c \in Channel(M \cup {m}, Q)
  <2>1. \A t : t \in Seq(R) => t \in Seq(Q)
    BY SeqMonotonic
  <2> QED
    BY <2>1 DEF Channel, Sound
<1>2. m \in Channel(M \cup {m}, Q)
  BY DEF Channel
<1> DEFINE C == Channel(M \cup {m}, Q)
<1>3. s \in Seq(C)
  BY <1>1, SeqMonotonic
<1>4. m \in C
  BY <1>2
<1> HIDE DEF C
<1>5. Append(s, m) \in Seq(C)
  BY <1>3, <1>4
<1> QED
  BY <1>3, <1>4, <1>5 DEF C

(***************************************************************************)
(* An action that adds a sound message, takes one or answers one, and      *)
(* keeps the records it holds, keeps them held.                            *)
(***************************************************************************)
LEMMA HeldWhenSent ==
    ASSUME NEW M, NEW R, Held(M, R), NEW m, Sound(m, R), pushes' = Append(pushes, m),
           logSeq' = logSeq, logs' \in Seq(R), pendingLogs' \in Seq(R), shown' \in Seq(R)
    PROVE  RecordsInv'
<1>1. pushes' \in Seq(Channel(M \cup {m}, R))
  BY ChannelGrows DEF Held
<1>2. Held(M \cup {m}, R)'
  BY <1>1 DEF Held
<1> QED
  BY <1>2 DEF RecordsInv

LEMMA HeldWhenTaken ==
    ASSUME NEW M, NEW R, Held(M, R), pushes # <<>>, pushes' = Tail(pushes),
           logSeq' = logSeq, logs' \in Seq(R), pendingLogs' \in Seq(R), shown' \in Seq(R)
    PROVE  RecordsInv'
<1>1. pushes' \in Seq(Channel(M, R))
  BY TailFacts DEF Held
<1>2. Held(M, R)'
  BY <1>1 DEF Held
<1> QED
  BY <1>2 DEF RecordsInv

LEMMA HeldWhenAnswered ==
    ASSUME NEW M, NEW R, Held(M, R), NEW m, Sound(m, R), pushes # <<>>,
           pushes' = Append(Tail(pushes), m),
           logSeq' = logSeq, logs' \in Seq(R), pendingLogs' \in Seq(R), shown' \in Seq(R)
    PROVE  RecordsInv'
<1>1. Tail(pushes) \in Seq(Channel(M, R))
  BY TailFacts DEF Held
<1>2. pushes' \in Seq(Channel(M \cup {m}, R))
  BY <1>1, ChannelGrows
<1>3. Held(M \cup {m}, R)'
  BY <1>2 DEF Held
<1> QED
  BY <1>3 DEF RecordsInv

LEMMA HeldWhenQuiet ==
    ASSUME NEW M, NEW R, Held(M, R), pushes' \in {pushes, <<>>},
           logSeq' = logSeq, logs' \in Seq(R), pendingLogs' \in Seq(R), shown' \in Seq(R)
    PROVE  RecordsInv'
<1>1. pushes' \in Seq(Channel(M, R))
  BY EmptySeq DEF Held
<1>2. Held(M, R)'
  BY <1>1 DEF Held
<1> QED
  BY <1>2 DEF RecordsInv

LEMMA StoreInit == Init => StoreInv
<1> SUFFICES ASSUME Init PROVE StoreInv
  OBVIOUS
<1> USE DEF Init, EventStoreInit
<1>1. NumbersInv
  BY DEF NumbersInv
<1>2. \A X : <<>> \in Seq(X) /\ Len(<<>>) = 0
  BY EmptySeq
<1>3. Numbered(<<>>)
  BY <1>2 DEF Numbered
<1>4. capacity \in Nat
  BY LimitsAreNumbers
<1>5. BuffersInv
  BY <1>2, <1>3, <1>4, LimitsAreNumbers DEF BuffersInv
<1>6. FoldInv
  BY <1>2 DEF FoldInv, ApplyEvents
<1>7. Held({}, {})
  BY <1>2 DEF Held, Unique
<1> QED
  BY <1>1, <1>5, <1>6, <1>7 DEF StoreInv, RecordsInv

LEMMA ChannelWidens ==
    ASSUME NEW M, NEW R, NEW Q, R \subseteq Q, NEW s \in Seq(Channel(M, R))
    PROVE  s \in Seq(Channel(M, Q))
<1>1. \A t : t \in Seq(R) => t \in Seq(Q)
  BY SeqMonotonic
<1>2. Channel(M, R) \subseteq Channel(M, Q)
  BY <1>1 DEF Channel, Sound
<1> QED
  BY <1>2, SeqMonotonic

(***************************************************************************)
(* One step per action: an event arrives.                                  *)
(***************************************************************************)
LEMMA AnEvent ==
    ASSUME StoreInv, Arrive
    PROVE  \E e \in Arriving :
              /\ Ingest(e) /\ e.session = session' /\ e.id = nextId' - 1 /\ e.session >= session
              /\ e.id = (IF e.session = session THEN nextId ELSE 1)
              /\ ideal' = ApplyEvents(ideal, <<e>>) /\ NumbersInv'
<1>1. PICK t \in Templates, s \in Sessions :
          LET n == IF s = session THEN nextId ELSE 1
              e == [id |-> n, session |-> s, type |-> t.type, payload |-> t.payload,
                    val |-> t.val]
          IN  /\ s >= session
              /\ Ingest(e)
              /\ session' = s /\ nextId' = n + 1
              /\ ideal' = ApplyEvents(ideal, <<e>>)
  BY DEF Arrive
<1> DEFINE n == IF s = session THEN nextId ELSE 1
<1> DEFINE e == [id |-> n, session |-> s, type |-> t.type, payload |-> t.payload, val |-> t.val]
<1>2. /\ s >= session /\ Ingest(e) /\ session' = s /\ nextId' = n + 1
      /\ ideal' = ApplyEvents(ideal, <<e>>)
  BY <1>1
<1>3. s \in Nat /\ n \in Nat /\ n >= 1
  BY LimitsAreNumbers DEF StoreInv, NumbersInv
<1>4. e \in Arriving
  BY <1>3 DEF Arriving
<1>5. e.session = s /\ e.id = n
  OBVIOUS
<1>6. UNCHANGED phase
  BY DEF Arrive, rendererVars
<1> HIDE DEF e, n
<1>7. logSeq' = logSeq + 1 /\ capacity' = capacity
  BY <1>2 DEF Ingest
<1>8. session' \in Nat /\ nextId' \in Nat \ {0} /\ logSeq' \in Nat
  BY <1>2, <1>3, <1>7 DEF StoreInv, NumbersInv
<1>9. NumbersInv'
  BY <1>6, <1>7, <1>8 DEF StoreInv, NumbersInv
<1>10. e.id = nextId' - 1
  BY <1>2, <1>3, <1>5
<1> QED
  BY <1>2, <1>4, <1>5, <1>9, <1>10 DEF n

LEMMA StoreArrive ==
    ASSUME StoreInv, Arrive
    PROVE  StoreInv'
<1>1. PICK e \in Arriving :
          Ingest(e) /\ ideal' = ApplyEvents(ideal, <<e>>) /\ NumbersInv'
  BY AnEvent
<1>2. PICK M, R : Held(M, R)
  BY DEF StoreInv, RecordsInv
<1>0. PICK record, Q : record = ToLogRecord(e, logSeq + 1) /\ Q = R \cup {record}
  OBVIOUS
<1>3. logSeq \in Nat /\ capacity \in Nat /\ logSeq' = logSeq + 1
  BY <1>1, LimitsAreNumbers DEF StoreInv, NumbersInv, Ingest
<1>4. record.seq = logSeq + 1
  BY <1>0 DEF ToLogRecord
<1>5. \A x \in R : x.seq \in Nat /\ x.seq <= logSeq
  BY <1>2 DEF Held
<1>6. Unique(Q) /\ \A x \in Q : x.seq \in Nat /\ x.seq <= logSeq'
  <2>1. \A x \in R : x.seq # record.seq
    BY <1>3, <1>4, <1>5
  <2>2. Unique(R)
    BY <1>2 DEF Held
  <2>3. Unique(Q)
    BY <2>1, <2>2, <1>0 DEF Unique
  <2>4. \A x \in Q : x.seq \in Nat /\ x.seq <= logSeq'
    BY <1>0, <1>3, <1>4, <1>5
  <2> QED
    BY <2>3, <2>4
<1>7. logs \in Seq(Q) /\ pendingLogs \in Seq(Q) /\ shown \in Seq(Q) /\ record \in Q
  BY <1>0, <1>2, SeqMonotonic DEF Held
<1>8. pushes \in Seq(Channel(M, Q))
  BY <1>0, <1>2, ChannelWidens DEF Held
<1>9. Numbered(logs) /\ Len(logs) \in Nat /\ \A i \in 1..Len(logs) : logs[i].seq < record.seq
  <2>1. \A i \in 1..Len(logs) : logs[i] \in R
    BY <1>2 DEF Held
  <2> QED
    BY <2>1, <1>3, <1>4, <1>5, <1>7 DEF StoreInv, BuffersInv
<1>10. /\ logs' \in Seq(Q) /\ Len(logs') <= capacity /\ Numbered(logs') /\ pendingLogs' \in Seq(Q)
  <2>1. CASE IsLogged(e)
    <3>1. logs' = Newest(Append(logs, record), capacity) /\ pendingLogs' = Append(pendingLogs, record)
      BY <1>0, <1>1, <2>1 DEF Ingest
    <3>2. Append(logs, record) \in Seq(Q) /\ Append(pendingLogs, record) \in Seq(Q)
      BY <1>7
    <3>3. Numbered(Append(logs, record))
      BY <1>7, <1>9, AppendNumbered
    <3>4. Len(Append(logs, record)) \in Nat
      BY <3>2
    <3>5. /\ logs' \in Seq(Q) /\ Numbered(logs')
          /\ Len(logs') = IF Len(Append(logs, record)) <= capacity
                          THEN Len(Append(logs, record)) ELSE capacity
      BY <3>1, <3>2, <3>3, <1>3, NewestFacts
    <3>6. Len(logs') <= capacity
      BY <3>4, <3>5, <1>3
    <3> QED
      BY <3>1, <3>2, <3>5, <3>6
  <2>2. CASE ~IsLogged(e)
    <3>1. logs' = logs /\ pendingLogs' = pendingLogs
      BY <1>1, <2>2 DEF Ingest
    <3> QED
      BY <3>1, <1>7 DEF StoreInv, BuffersInv
  <2> QED
    BY <2>1, <2>2
<1>11. UNCHANGED <<pushes, shown, projection, capacity>>
  BY <1>1 DEF Ingest, Arrive, rendererVars
<1>12. Held(M, Q)'
  BY <1>6, <1>7, <1>8, <1>10, <1>11 DEF Held
<1>13. ring' \in Seq(Arriving) /\ Len(ring') <= capacity
  <2>1. Append(ring, e) \in Seq(Arriving) /\ ring' = Newest(Append(ring, e), capacity)
    BY <1>1 DEF Ingest, StoreInv, BuffersInv
  <2>2. /\ ring' \in Seq(Arriving)
        /\ Len(ring') = IF Len(Append(ring, e)) <= capacity THEN Len(Append(ring, e)) ELSE capacity
    BY <2>1, <1>3, NewestFacts
  <2>3. Len(Append(ring, e)) \in Nat
    BY <2>1
  <2> QED
    BY <2>2, <2>3, <1>3
<1>14. FoldInv'
  <2>1. /\ pendingEvents \in Seq(Arriving) /\ pendingEvents' = Append(pendingEvents, e)
        /\ ideal = ApplyEvents(projection, pendingEvents)
    BY <1>1 DEF Ingest, StoreInv, FoldInv
  <2>2. pendingEvents' \in Seq(Arriving)
    BY <2>1, AppendFacts
  <2>3. ideal' = ApplyEvents(projection, pendingEvents')
    BY <2>1, <1>1, BatchesJoin
  <2> QED
    BY <2>2, <2>3, <1>11 DEF FoldInv
<1>15. BuffersInv'
  <2>1. stateTimer' /\ logTimer'
    BY <1>1 DEF Ingest
  <2>2. Len(shown') <= LogLimit
    BY <1>11 DEF StoreInv, BuffersInv
  <2>3. ring' \in Seq(Arriving) /\ Len(ring') <= capacity' /\ Len(logs') <= capacity'
    BY <1>10, <1>11, <1>13
  <2>4. (pendingEvents' # <<>> => stateTimer') /\ (pendingLogs' # <<>> => logTimer')
    BY <2>1
  <2>5. Numbered(logs')
    BY <1>10
  <2> QED
    BY <2>2, <2>3, <2>4, <2>5 DEF BuffersInv
<1> QED
  BY <1>1, <1>12, <1>14, <1>15 DEF StoreInv, RecordsInv

LEMMA StoreFlush ==
    ASSUME StoreInv, Flush
    PROVE  StoreInv'
<1>1. PICK M, R : Held(M, R)
  BY DEF StoreInv, RecordsInv
<1>2. UNCHANGED <<rendererVars, forgeVars>>
  BY DEF Flush
<1>3. CASE FlushState
  <2>1. UNCHANGED <<capacity, ring, logs, evicted, pendingLogs, logSeq, logTimer, scope>>
    BY <1>3 DEF FlushState
  <2>2. CASE pendingEvents = <<>>
    <3>1. UNCHANGED <<pendingEvents, projection, pushes>>
      BY <1>3, <2>2 DEF FlushState
    <3>2. RecordsInv'
      BY <1>1, <1>2, <2>1, <3>1, HeldWhenQuiet DEF Held, rendererVars
    <3>3. NumbersInv' /\ FoldInv'
      BY <1>2, <2>1, <3>1 DEF StoreInv, NumbersInv, FoldInv, rendererVars, forgeVars
    <3>4. BuffersInv'
      BY <1>2, <2>1, <2>2, <3>1 DEF StoreInv, BuffersInv, rendererVars
    <3> QED
      BY <3>2, <3>3, <3>4 DEF StoreInv
  <2>3. CASE pendingEvents # <<>>
    <3> DEFINE m == [kind |-> "projection", state |-> projection', events |-> pendingEvents]
    <3>1. /\ projection' = ApplyEvents(projection, pendingEvents) /\ pendingEvents' = <<>>
          /\ pushes' = Append(pushes, m)
      BY <1>3, <2>3 DEF FlushState, Push, Send
    <3>2. Sound(m, R)
      BY DEF Sound
    <3> HIDE DEF m
    <3>3. RecordsInv'
      BY <1>1, <1>2, <2>1, <3>1, <3>2, HeldWhenSent DEF Held, rendererVars
    <3>4. NumbersInv'
      BY <1>2, <2>1 DEF StoreInv, NumbersInv, rendererVars, forgeVars
    <3>5. FoldInv'
      <4>1. pendingEvents' \in Seq(Arriving)
        BY <3>1, EmptySeq
      <4>2. ApplyEvents(projection', pendingEvents') = projection'
        BY <3>1 DEF ApplyEvents
      <4> QED
        BY <4>1, <4>2, <3>1, <1>2 DEF StoreInv, FoldInv, forgeVars
    <3>6. BuffersInv'
      BY <1>2, <2>1, <3>1 DEF StoreInv, BuffersInv, rendererVars
    <3> QED
      BY <3>3, <3>4, <3>5, <3>6 DEF StoreInv
  <2> QED
    BY <2>2, <2>3
<1>4. CASE FlushLogs
  <2>1. /\ UNCHANGED <<capacity, ring, logs, evicted, pendingEvents, projection, logSeq,
                       stateTimer, scope>>
        /\ pendingLogs' = <<>>
    BY <1>4 DEF FlushLogs
  <2>2. NumbersInv' /\ FoldInv'
    BY <1>2, <2>1 DEF StoreInv, NumbersInv, FoldInv, rendererVars, forgeVars
  <2>3. BuffersInv'
    BY <1>2, <2>1 DEF StoreInv, BuffersInv, rendererVars
  <2>4. logs' \in Seq(R) /\ pendingLogs' \in Seq(R) /\ shown' \in Seq(R)
    BY <1>1, <1>2, <2>1, EmptySeq DEF Held, rendererVars
  <2>5. RecordsInv'
    <3>1. CASE pushes' = pushes
      BY <1>1, <2>1, <2>4, <3>1, HeldWhenQuiet
    <3>2. CASE pushes' = Append(pushes, [kind |-> "logs", records |-> InScope(pendingLogs, scope)])
      <4> DEFINE m == [kind |-> "logs", records |-> InScope(pendingLogs, scope)]
      <4>1. InScope(pendingLogs, scope) \in Seq(R)
        BY <1>1, InScopeFacts DEF Held
      <4>2. Sound(m, R)
        BY <4>1 DEF Sound
      <4> HIDE DEF m
      <4>3. pushes' = Append(pushes, m)
        BY <3>2 DEF m
      <4> QED
        BY <1>1, <2>1, <2>4, <4>2, <4>3, HeldWhenSent
    <3> QED
      BY <3>1, <3>2, <1>4 DEF FlushLogs, Send
  <2> QED
    BY <2>2, <2>3, <2>5 DEF StoreInv
<1> QED
  BY <1>3, <1>4 DEF Flush

(***************************************************************************)
(* What the renderer and its user do leaves the store of main alone.       *)
(***************************************************************************)
LEMMA StoreKept ==
    ASSUME StoreInv, unchangedStore, UNCHANGED forgeVars, RecordsInv',
           phase' \in {"start", "snapshot", "events", "backfill", "live"},
           Len(shown') <= LogLimit
    PROVE  StoreInv'
<1>1. NumbersInv'
  BY DEF StoreInv, NumbersInv, unchangedStore, forgeVars
<1>2. BuffersInv'
  BY DEF StoreInv, BuffersInv, unchangedStore
<1>3. FoldInv'
  BY DEF StoreInv, FoldInv, unchangedStore, forgeVars
<1> QED
  BY <1>1, <1>2, <1>3 DEF StoreInv

LEMMA StoreInitialize ==
    ASSUME StoreInv, Initialize
    PROVE  StoreInv'
<1>1. PICK M, R : Held(M, R)
  BY DEF StoreInv, RecordsInv
<1>2. /\ unchangedStore /\ UNCHANGED forgeVars /\ UNCHANGED shown
      /\ phase' \in {"start", "snapshot", "events", "backfill", "live"}
  BY DEF Initialize
<1>3. PICK m : m.kind \in {"snapshot", "events"} /\ pushes' = Append(pushes, m)
  <2>1. CASE Ask([kind |-> "snapshot"])
    <3>1. pushes' = Append(pushes, [kind |-> "snapshot", value |-> projection])
      BY <2>1, AnswerFacts DEF Ask
    <3> QED
      BY <3>1
  <2>2. CASE Ask([kind |-> "events"])
    <3>1. pushes' = Append(pushes, [kind |-> "events", value |-> ring])
      BY <2>2, AnswerFacts DEF Ask
    <3> QED
      BY <3>1
  <2> QED
    BY <2>1, <2>2 DEF Initialize
<1>4. Sound(m, R)
  BY <1>3 DEF Sound
<1>5. logSeq' = logSeq /\ logs' \in Seq(R) /\ pendingLogs' \in Seq(R) /\ shown' \in Seq(R)
  BY <1>1, <1>2 DEF Held, unchangedStore
<1>6. RecordsInv'
  BY <1>1, <1>3, <1>4, <1>5, HeldWhenSent
<1> QED
  BY <1>2, <1>6, StoreKept DEF StoreInv, BuffersInv

LEMMA StoreUser ==
    ASSUME StoreInv, SelectRun \/ MovePlayhead \/ Reload
    PROVE  StoreInv'
<1>1. PICK M, R : Held(M, R)
  BY DEF StoreInv, RecordsInv
<1>2. unchangedStore /\ UNCHANGED forgeVars
  BY DEF SelectRun, MovePlayhead, Reload
<1>3. logSeq' = logSeq /\ logs' \in Seq(R) /\ pendingLogs' \in Seq(R)
  BY <1>1, <1>2 DEF Held, unchangedStore
<1>4. CASE SelectRun
  <2>1. UNCHANGED <<phase, shown>>
    BY <1>4 DEF SelectRun
  <2>2. PICK r : Ask([kind |-> "scope", run |-> r])
    BY <1>4 DEF SelectRun
  <2>3. PICK m : m = [kind |-> "scope", run |-> r]
    OBVIOUS
  <2>4. pushes' = Append(pushes, m) /\ Sound(m, R)
    BY <2>2, <2>3, AnswerFacts DEF Ask, Sound
  <2>5. RecordsInv'
    BY <1>1, <1>3, <2>1, <2>4, HeldWhenSent DEF Held
  <2> QED
    BY <1>2, <2>1, <2>5, StoreKept DEF StoreInv, BuffersInv, NumbersInv
<1>5. CASE MovePlayhead
  <2>1. UNCHANGED <<phase, shown>>
    BY <1>5 DEF MovePlayhead
  <2>2. RecordsInv'
    <3>1. CASE pushes' = pushes
      BY <1>1, <1>3, <2>1, <3>1, HeldWhenQuiet DEF Held
    <3>2. CASE Ask(Fetch)
      <4>1. PICK m : m = [kind |-> "replay", tag |-> fetches + 1, events |-> ring]
        OBVIOUS
      <4>2. pushes' = Append(pushes, m) /\ Sound(m, R)
        BY <3>2, <4>1, AnswerFacts DEF Ask, Fetch, Sound
      <4> QED
        BY <1>1, <1>3, <2>1, <4>2, HeldWhenSent DEF Held
    <3> QED
      BY <3>1, <3>2, <1>5 DEF MovePlayhead
  <2> QED
    BY <1>2, <2>1, <2>2, StoreKept DEF StoreInv, BuffersInv, NumbersInv
<1>6. CASE Reload
  <2>1. phase' = "start" /\ shown' = <<>> /\ pushes' = <<>>
    BY <1>6 DEF Reload, RendererStart
  <2>2. shown' \in Seq(R) /\ Len(shown') <= LogLimit
    BY <2>1, EmptySeq, LimitsAreNumbers
  <2>3. RecordsInv'
    BY <1>1, <1>3, <2>1, <2>2, HeldWhenQuiet
  <2> QED
    BY <1>2, <2>1, <2>2, <2>3, StoreKept
<1> QED
  BY <1>4, <1>5, <1>6

LEMMA StoreSettings ==
    ASSUME StoreInv, ClearProjection \/ ChangeBufferSize
    PROVE  StoreInv'
<1>1. PICK M, R : Held(M, R)
  BY DEF StoreInv, RecordsInv
<1>2. UNCHANGED rendererVars
  BY DEF ClearProjection, ChangeBufferSize
<1>3. CASE ClearProjection
  <2>1. /\ ring' = <<>> /\ logs' = <<>> /\ pendingEvents' = <<>> /\ pendingLogs' = <<>>
        /\ projection' = EmptyProjection /\ ideal' = EmptyProjection
        /\ UNCHANGED <<capacity, logSeq, session, nextId>>
    BY <1>3 DEF ClearProjection, Clear
  <2>2. PICK m : m = [kind |-> "projection", state |-> EmptyProjection, events |-> <<>>]
    OBVIOUS
  <2>3. pushes' = Append(pushes, m) /\ Sound(m, R)
    BY <1>3, <2>2 DEF ClearProjection, Clear, Push, Send, Sound
  <2>4. \A X : <<>> \in Seq(X) /\ Len(<<>>) = 0
    BY EmptySeq
  <2>5. logs' \in Seq(R) /\ pendingLogs' \in Seq(R) /\ shown' \in Seq(R)
    BY <1>1, <1>2, <2>1, <2>4 DEF Held, rendererVars
  <2>6. RecordsInv'
    BY <1>1, <2>1, <2>3, <2>5, HeldWhenSent
  <2>7. NumbersInv'
    BY <1>2, <2>1 DEF StoreInv, NumbersInv, rendererVars
  <2>8. FoldInv'
    BY <2>1, <2>4 DEF FoldInv, ApplyEvents
  <2>9. BuffersInv'
    <3>1. Numbered(<<>>)
      BY <2>4 DEF Numbered
    <3>2. capacity \in Nat /\ Len(shown') <= LogLimit
      BY <1>2, LimitsAreNumbers DEF StoreInv, NumbersInv, BuffersInv, rendererVars
    <3> QED
      BY <3>1, <3>2, <2>1, <2>4 DEF BuffersInv
  <2> QED
    BY <2>6, <2>7, <2>8, <2>9 DEF StoreInv
<1>4. CASE ChangeBufferSize
  <2>1. PICK size \in BufferSizes : SetBufferSize(size)
    BY <1>4 DEF ChangeBufferSize
  <2>2. size \in Nat
    BY LimitsAreNumbers
  <2>3. /\ capacity' = size /\ ring' = Newest(ring, size) /\ logs' = Newest(logs, size)
        /\ UNCHANGED <<pendingEvents, pendingLogs, projection, logSeq, stateTimer, logTimer,
                       scope, pushes>>
    BY <2>1 DEF SetBufferSize
  <2>4. UNCHANGED forgeVars
    BY <1>4 DEF ChangeBufferSize
  <2>5. ring \in Seq(Arriving) /\ logs \in Seq(R) /\ Numbered(logs)
    BY <1>1 DEF StoreInv, BuffersInv, Held
  <2>6. ring' \in Seq(Arriving) /\ Len(ring') <= size
    <3>1. /\ Newest(ring, size) \in Seq(Arriving)
          /\ Len(Newest(ring, size)) = IF Len(ring) <= size THEN Len(ring) ELSE size
      BY <2>2, <2>5, NewestFacts
    <3> QED
      BY <3>1, <2>2, <2>3
  <2>7. logs' \in Seq(R) /\ Len(logs') <= size /\ Numbered(logs')
    <3>1. /\ Newest(logs, size) \in Seq(R) /\ Numbered(Newest(logs, size))
          /\ Len(Newest(logs, size)) = IF Len(logs) <= size THEN Len(logs) ELSE size
      BY <2>2, <2>5, NewestFacts
    <3> QED
      BY <3>1, <2>2, <2>3
  <2>8. RecordsInv'
    BY <1>1, <1>2, <2>3, <2>7, HeldWhenQuiet DEF Held, rendererVars
  <2>9. NumbersInv' /\ FoldInv'
    BY <1>2, <2>3, <2>4 DEF StoreInv, NumbersInv, FoldInv, rendererVars, forgeVars
  <2>10. BuffersInv'
    BY <1>2, <2>3, <2>6, <2>7 DEF StoreInv, BuffersInv, rendererVars
  <2> QED
    BY <2>8, <2>9, <2>10 DEF StoreInv
<1> QED
  BY <1>3, <1>4

(***************************************************************************)
(* The renderer takes a message: what becomes of the channel.              *)
(***************************************************************************)
LEMMA WhatIsTaken ==
    ASSUME NEW X, pushes \in Seq(X), RendererTakes
    PROVE  /\ pushes # <<>> /\ Len(pushes) >= 1 /\ Len(pushes) \in Nat
           /\ unchangedStore /\ UNCHANGED <<scope, forgeVars>>
           /\ LET m == pushes[1]
              IN  \/ /\ OnProjection(m)
                     /\ \/ pushes' = Tail(pushes)
                        \/ pushes' = Append(Tail(pushes),
                              [kind |-> "replay", tag |-> fetches + 1, events |-> ring])
                  \/ /\ OnLogs(m) \/ OnSnapshot(m) \/ OnBackfill(m) \/ OnHistory(m)
                        \/ OnReplayEvents(m)
                     /\ pushes' = Tail(pushes)
                  \/ /\ OnEvents(m)
                     /\ pushes' = Append(Tail(pushes),
                           [kind |-> "backfill", records |-> QueryLogs(None, BackfillLimit)])
                  \/ /\ OnScope(m)
                     /\ m.run = None => pushes' = Tail(pushes)
                     /\ m.run # None =>
                           pushes' = Append(Tail(pushes),
                              [kind |-> "history", run |-> m.run,
                               records |-> QueryLogs(m.run, LogLimit)])
<1>1. pushes # <<>> /\ unchangedStore /\ UNCHANGED <<scope, forgeVars>>
  BY DEF RendererTakes
<1>2. PICK m : m = pushes[1]
  OBVIOUS
<1>3. Head(pushes) = m /\ Len(pushes) \in Nat /\ Len(pushes) >= 1
  BY <1>1, <1>2, TailFacts
<1>4. CASE OnProjection(m)
  <2>1. Take(<<>>) \/ Take(<<Fetch>>)
    BY <1>4 DEF OnProjection
  <2>2. CASE Take(<<>>)
    BY <1>1, <1>2, <1>3, <1>4, <2>2, TakeNone
  <2>3. CASE Take(<<Fetch>>)
    <3>1. pushes' = Append(Tail(pushes), Answer(Fetch))
      BY <1>1, <2>3, TakeOne
    <3>2. Answer(Fetch) = [kind |-> "replay", tag |-> fetches + 1, events |-> ring]
      BY AnswerFacts DEF Fetch
    <3> QED
      BY <1>1, <1>2, <1>3, <1>4, <3>1, <3>2
  <2> QED
    BY <2>1, <2>2, <2>3
<1>5. CASE OnLogs(m) \/ OnSnapshot(m) \/ OnBackfill(m) \/ OnHistory(m) \/ OnReplayEvents(m)
  <2>1. Take(<<>>)
    BY <1>5 DEF OnLogs, OnSnapshot, OnBackfill, OnHistory, OnReplayEvents
  <2>2. pushes' = Tail(pushes)
    BY <1>1, <2>1, TakeNone
  <2> QED
    BY <1>1, <1>2, <1>3, <1>5, <2>2
<1>6. CASE OnEvents(m)
  <2>1. Take(<<[kind |-> "backfill", limit |-> BackfillLimit]>>)
    BY <1>6 DEF OnEvents
  <2>2. pushes' = Append(Tail(pushes), Answer([kind |-> "backfill", limit |-> BackfillLimit]))
    BY <1>1, <2>1, TakeOne
  <2>3. Answer([kind |-> "backfill", limit |-> BackfillLimit]) =
           [kind |-> "backfill", records |-> QueryLogs(None, BackfillLimit)]
    BY AnswerFacts
  <2> QED
    BY <1>1, <1>2, <1>3, <1>6, <2>2, <2>3
<1>7. CASE OnScope(m)
  <2>1. CASE m.run = None
    <3>1. Take(<<>>)
      BY <1>7, <2>1 DEF OnScope
    <3>2. pushes' = Tail(pushes)
      BY <1>1, <3>1, TakeNone
    <3> QED
      BY <1>1, <1>2, <1>3, <1>7, <2>1, <3>2
  <2>2. CASE m.run # None
    <3>1. Take(<<[kind |-> "history", run |-> m.run, limit |-> LogLimit]>>)
      BY <1>7, <2>2 DEF OnScope
    <3>2. pushes' = Append(Tail(pushes),
                           Answer([kind |-> "history", run |-> m.run, limit |-> LogLimit]))
      BY <1>1, <3>1, TakeOne
    <3>3. Answer([kind |-> "history", run |-> m.run, limit |-> LogLimit]) =
             [kind |-> "history", run |-> m.run, records |-> QueryLogs(m.run, LogLimit)]
      BY AnswerFacts
    <3> QED
      BY <1>1, <1>2, <1>3, <1>7, <2>2, <3>2, <3>3
  <2> QED
    BY <2>1, <2>2
<1> QED
  BY <1>3, <1>4, <1>5, <1>6, <1>7 DEF RendererTakes

LEMMA StoreTakes ==
    ASSUME StoreInv, RendererTakes
    PROVE  StoreInv'
<1>1. PICK M, R : Held(M, R)
  BY DEF StoreInv, RecordsInv
<1>2. PICK m : m = pushes[1]
  OBVIOUS
<1>3. /\ pushes # <<>> /\ Len(pushes) >= 1 /\ Len(pushes) \in Nat
      /\ unchangedStore /\ UNCHANGED <<scope, forgeVars>>
      /\ \/ /\ OnProjection(m)
            /\ \/ pushes' = Tail(pushes)
               \/ pushes' = Append(Tail(pushes),
                     [kind |-> "replay", tag |-> fetches + 1, events |-> ring])
         \/ /\ OnLogs(m) \/ OnSnapshot(m) \/ OnBackfill(m) \/ OnHistory(m)
               \/ OnReplayEvents(m)
            /\ pushes' = Tail(pushes)
         \/ /\ OnEvents(m)
            /\ pushes' = Append(Tail(pushes),
                  [kind |-> "backfill", records |-> QueryLogs(None, BackfillLimit)])
         \/ /\ OnScope(m)
            /\ m.run = None => pushes' = Tail(pushes)
            /\ m.run # None =>
                  pushes' = Append(Tail(pushes),
                     [kind |-> "history", run |-> m.run,
                      records |-> QueryLogs(m.run, LogLimit)])
  BY <1>1, <1>2, WhatIsTaken DEF Held
<1>4. /\ Sound(m, R) /\ logs \in Seq(R) /\ Numbered(logs) /\ shown \in Seq(R)
      /\ Len(shown) <= LogLimit /\ (\A x \in R : x.seq \in Nat) /\ Unique(R)
  <2>1. m \in Channel(M, R)
    BY <1>1, <1>2, <1>3 DEF Held
  <2> QED
    BY <2>1, <1>1 DEF Channel, Held, StoreInv, BuffersInv
<1>5. /\ shown' \in Seq(R) /\ Len(shown') <= LogLimit
      /\ phase' \in {"start", "snapshot", "events", "backfill", "live"}
  <2>1. CASE OnProjection(m) \/ OnSnapshot(m) \/ OnReplayEvents(m) \/ OnEvents(m) \/ OnScope(m)
    <3>1. shown' = shown /\ phase' \in {phase, "backfill"}
      BY <2>1 DEF OnProjection, OnSnapshot, OnReplayEvents, OnEvents, OnScope
    <3> QED
      BY <3>1, <1>4 DEF StoreInv, NumbersInv
  <2>2. CASE OnLogs(m)
    <3>1. /\ phase' = phase /\ m.records \in Seq(R)
          /\ shown' \in {shown, AppendCapped(shown, m.records, LogLimit)}
      BY <2>2, <1>4 DEF OnLogs, Sound
    <3>2. shown \o m.records \in Seq(R) /\ Len(shown \o m.records) \in Nat
      BY <3>1, <1>4
    <3>3. /\ Newest(shown \o m.records, LogLimit) \in Seq(R)
          /\ Len(Newest(shown \o m.records, LogLimit)) =
                IF Len(shown \o m.records) <= LogLimit THEN Len(shown \o m.records) ELSE LogLimit
      BY <3>2, LimitsAreNumbers, NewestFacts
    <3>4. Len(Newest(shown \o m.records, LogLimit)) <= LogLimit
      BY <3>2, <3>3, LimitsAreNumbers
    <3> QED
      BY <3>1, <3>3, <3>4, <1>4 DEF AppendCapped, StoreInv, NumbersInv
  <2>3. CASE OnBackfill(m)
    <3>1. m.kind = "backfill" /\ shown' = m.records /\ phase' = "live"
      BY <2>3 DEF OnBackfill
    <3>2. m.records \in Seq(R) /\ Len(m.records) <= BackfillLimit
      BY <3>1, <1>4 DEF Sound
    <3>3. Len(m.records) \in Nat
      BY <3>2
    <3> QED
      BY <3>1, <3>2, <3>3, LimitsAreNumbers
  <2>4. CASE OnHistory(m)
    <3>1. /\ phase' = phase /\ m.records \in Seq(R)
          /\ shown' \in {shown, MergeLogRecords(shown, m.records, LogLimit)}
      BY <2>4, <1>4 DEF OnHistory, Sound
    <3>2. /\ MergeLogRecords(shown, m.records, LogLimit) \in Seq(R)
          /\ Len(MergeLogRecords(shown, m.records, LogLimit)) <= LogLimit
      BY <3>1, <1>4, LimitsAreNumbers, MergeFacts
    <3> QED
      BY <3>1, <3>2, <1>4 DEF StoreInv, NumbersInv
  <2> QED
    BY <2>1, <2>2, <2>3, <2>4, <1>3
<1>6. logSeq' = logSeq /\ logs' \in Seq(R) /\ pendingLogs' \in Seq(R)
  BY <1>1, <1>3 DEF Held, unchangedStore
<1>7. RecordsInv'
  <2>1. CASE pushes' = Tail(pushes)
    BY <1>1, <1>3, <1>5, <1>6, <2>1, HeldWhenTaken
  <2>2. ASSUME NEW r, NEW n \in Nat
        PROVE  QueryLogs(r, n) \in Seq(R) /\ Len(QueryLogs(r, n)) <= n /\ Numbered(QueryLogs(r, n))
    BY <1>4, QueryFacts
  <2>3. ASSUME NEW c, Sound(c, R), pushes' = Append(Tail(pushes), c)
        PROVE  RecordsInv'
    BY <1>1, <1>3, <1>5, <1>6, <2>3, HeldWhenAnswered
  <2>4. CASE \E n : pushes' = Append(Tail(pushes), [kind |-> "replay", tag |-> n, events |-> ring])
    <3>1. PICK n : pushes' = Append(Tail(pushes), [kind |-> "replay", tag |-> n, events |-> ring])
      BY <2>4
    <3>2. PICK c : c = [kind |-> "replay", tag |-> n, events |-> ring]
      OBVIOUS
    <3>3. Sound(c, R)
      BY <3>2 DEF Sound
    <3> QED
      BY <2>3, <3>1, <3>2, <3>3
  <2>5. CASE pushes' = Append(Tail(pushes),
                         [kind |-> "backfill", records |-> QueryLogs(None, BackfillLimit)])
    <3>1. PICK c : c = [kind |-> "backfill", records |-> QueryLogs(None, BackfillLimit)]
      OBVIOUS
    <3>2. Sound(c, R)
      BY <3>1, <2>2, LimitsAreNumbers DEF Sound
    <3> QED
      BY <2>3, <2>5, <3>1, <3>2
  <2>6. CASE pushes' = Append(Tail(pushes), [kind |-> "history", run |-> m.run,
                                             records |-> QueryLogs(m.run, LogLimit)])
    <3>1. PICK c : c = [kind |-> "history", run |-> m.run,
                        records |-> QueryLogs(m.run, LogLimit)]
      OBVIOUS
    <3>2. Sound(c, R)
      BY <3>1, <2>2, LimitsAreNumbers DEF Sound
    <3> QED
      BY <2>3, <2>6, <3>1, <3>2
  <2> QED
    BY <2>1, <2>4, <2>5, <2>6, <1>3
<1> QED
  BY <1>3, <1>5, <1>7, StoreKept

LEMMA StoreStep == StoreInv /\ [Next]_vars => StoreInv'
<1> SUFFICES ASSUME StoreInv, [Next]_vars PROVE StoreInv'
  OBVIOUS
<1>1. CASE UNCHANGED vars
  <2>1. UNCHANGED <<storeVars, rendererVars, forgeVars>>
    BY <1>1 DEF vars
  <2>2. NumbersInv' /\ BuffersInv' /\ FoldInv'
    BY <2>1 DEF StoreInv, NumbersInv, BuffersInv, FoldInv, storeVars, rendererVars, forgeVars
  <2>3. PICK M, R : Held(M, R)
    BY DEF StoreInv, RecordsInv
  <2>4. RecordsInv'
    BY <2>1, <2>3, HeldWhenQuiet DEF Held, storeVars, rendererVars
  <2> QED
    BY <2>2, <2>4 DEF StoreInv
<1> QED
  BY <1>1, StoreArrive, StoreFlush, StoreInitialize, StoreTakes, StoreUser, StoreSettings
     DEF Next

(***************************************************************************)
(* Where the timer of the main process cuts the stream of events into      *)
(* batches makes no difference, across restarts of Forge and clears.       *)
(***************************************************************************)
THEOREM BatchingIsInvisible == Spec => []FoldIgnoresBatches
<1>1. StoreInv => FoldIgnoresBatches
  BY DEF StoreInv, FoldInv, FoldIgnoresBatches, ApplyEvents
<1> QED
  BY <1>1, StoreInit, StoreStep, PTL DEF Spec

-----------------------------------------------------------------------------
(* A renderer that listens is current.                                      *)

LEMMA LatestHead ==
    ASSUME NEW X, NEW s \in Seq(X), s # <<>>, NEW p, Latest(s, p),
           NoneOf(Tail(s), {"projection", "snapshot"})
    PROVE  /\ IsKind(s, 1, {"projection"}) => s[1].state = p
           /\ IsKind(s, 1, {"snapshot"}) => s[1].value = p
<1> DEFINE t == Tail(s)
<1>1. /\ Len(s) \in Nat /\ Len(s) >= 1 /\ Len(t) = Len(s) - 1
      /\ \A i \in 1..(Len(s) - 1) : t[i] = s[i + 1]
  BY TailFacts
<1>2. \A i \in 1..Len(t) : ~IsKind(t, i, {"projection", "snapshot"})
  BY DEF NoneOf
<1> HIDE DEF t
<1>3. ASSUME NEW j \in 1..Len(s), 1 < j
      PROVE  ~IsKind(s, j, {"projection"})
  <2>1. j - 1 \in 1..Len(t) /\ (j - 1) + 1 = j
    BY <1>1, <1>3
  <2>2. t[j - 1] = s[j]
    BY <1>1, <2>1
  <2> QED
    BY <2>1, <2>2, <1>2 DEF IsKind
<1>4. IsLatest(s, 1) /\ 1 \in 1..Len(s)
  BY <1>1, <1>3 DEF IsLatest
<1> QED
  BY <1>4 DEF Latest

(***************************************************************************)
(* A message about neither the projection nor initialize() changes nothing *)
(* of this.                                                                *)
(***************************************************************************)
Aside(m) == m.kind \notin {"projection", "snapshot", "events", "backfill"}

LEMMA ListenerAside ==
    ASSUME NEW X, NEW m \in X, pushes \in Seq(X), ListenerInv, pushes' = Append(pushes, m),
           Aside(m), m.kind \in {"scope", "history"} => phase \in {"backfill", "live"},
           UNCHANGED <<phase, view, missed, projection>>
    PROVE  ListenerInv'
<1>1. Latest(pushes', projection)
  BY LatestAppend DEF ListenerInv, Aside
<1>2. Ordered(pushes', phase)
  BY OrderedAppend DEF ListenerInv, Aside
<1>3. NoneOf(pushes', {"projection", "snapshot"}) => NoneOf(pushes, {"projection", "snapshot"})
  BY NoneOfAppend
<1> QED
  BY <1>1, <1>2, <1>3 DEF ListenerInv

LEMMA ListenerPush ==
    ASSUME NEW X, NEW m \in X, pushes \in Seq(X), ListenerInv, pushes' = Append(pushes, m),
           m.kind = "projection", m.state = projection', UNCHANGED phase
    PROVE  ListenerInv'
<1>1. Latest(pushes', projection')
  BY LatestPush
<1>2. Ordered(pushes', phase)
  BY OrderedAppend DEF ListenerInv
<1>3. ~NoneOf(pushes', {"projection", "snapshot"})
  BY NoneOfAppend
<1> QED
  BY <1>1, <1>2, <1>3 DEF ListenerInv

LEMMA ListenerMain ==
    ASSUME StoreInv, ListenerInv, Arrive \/ Flush \/ ClearProjection \/ ChangeBufferSize
    PROVE  ListenerInv'
<1>1. PICK M, R : Held(M, R)
  BY DEF StoreInv, RecordsInv
<1>2. UNCHANGED rendererVars
  BY DEF Arrive, Flush, ClearProjection, ChangeBufferSize
<1>3. ASSUME NEW m, m.kind = "projection", m.state = projection', pushes' = Append(pushes, m)
      PROVE  ListenerInv'
  <2>1. pushes \in Seq(Channel(M \cup {m}, R)) /\ m \in Channel(M \cup {m}, R)
    BY <1>1, <1>3, ChannelGrows DEF Held, Sound
  <2> QED
    BY <2>1, <1>2, <1>3, ListenerPush DEF rendererVars
<1>4. CASE UNCHANGED <<pushes, projection>>
  BY <1>2, <1>4 DEF ListenerInv, rendererVars
<1>5. CASE Arrive
  <2>1. UNCHANGED <<pushes, projection>>
    BY <1>5 DEF Arrive, Ingest
  <2> QED
    BY <2>1, <1>4
<1>6. CASE FlushState
  <2>1. CASE pendingEvents = <<>>
    BY <1>6, <2>1, <1>4 DEF FlushState
  <2>2. CASE pendingEvents # <<>>
    <3>1. PICK m : m = [kind |-> "projection", state |-> projection', events |-> pendingEvents]
      OBVIOUS
    <3>2. pushes' = Append(pushes, m)
      BY <1>6, <2>2, <3>1 DEF FlushState, Push, Send
    <3> QED
      BY <3>1, <3>2, <1>3
  <2> QED
    BY <2>1, <2>2
<1>7. CASE FlushLogs
  <2>1. UNCHANGED projection
    BY <1>7 DEF FlushLogs
  <2>2. CASE pushes' = pushes
    BY <2>1, <2>2, <1>4
  <2>3. CASE pushes' = Append(pushes, [kind |-> "logs", records |-> InScope(pendingLogs, scope)])
    <3>1. PICK m : m = [kind |-> "logs", records |-> InScope(pendingLogs, scope)]
      OBVIOUS
    <3>2. InScope(pendingLogs, scope) \in Seq(R)
      BY <1>1, InScopeFacts DEF Held
    <3>3. Sound(m, R) /\ Aside(m) /\ m.kind \notin {"scope", "history"}
      BY <3>1, <3>2 DEF Sound, Aside
    <3>4. pushes \in Seq(Channel(M \cup {m}, R)) /\ m \in Channel(M \cup {m}, R)
      BY <1>1, <3>3, ChannelGrows DEF Held
    <3> QED
      BY <3>1, <3>3, <3>4, <2>1, <2>3, <1>2, ListenerAside DEF rendererVars
  <2> QED
    BY <2>2, <2>3, <1>7 DEF FlushLogs, Send
<1>8. CASE ClearProjection
  <2>1. PICK m : m = [kind |-> "projection", state |-> EmptyProjection, events |-> <<>>]
    OBVIOUS
  <2>2. pushes' = Append(pushes, m) /\ projection' = EmptyProjection
    BY <1>8, <2>1 DEF ClearProjection, Clear, Push, Send
  <2> QED
    BY <2>1, <2>2, <1>3
<1>9. CASE ChangeBufferSize
  <2>1. UNCHANGED <<pushes, projection>>
    BY <1>9 DEF ChangeBufferSize, SetBufferSize
  <2> QED
    BY <2>1, <1>4
<1> QED
  BY <1>5, <1>6, <1>7, <1>8, <1>9 DEF Flush

LEMMA ListenerAsks ==
    ASSUME StoreInv, ListenerInv, Initialize \/ SelectRun \/ MovePlayhead \/ Reload
    PROVE  ListenerInv'
<1>1. PICK M, R : Held(M, R)
  BY DEF StoreInv, RecordsInv
<1>2. UNCHANGED projection
  BY DEF Initialize, SelectRun, MovePlayhead, Reload, unchangedStore
<1>3. ASSUME NEW m, m.kind \notin {"logs", "backfill", "history"}
      PROVE  pushes \in Seq(Channel(M \cup {m}, R)) /\ m \in Channel(M \cup {m}, R)
  BY <1>1, <1>3, ChannelGrows DEF Held, Sound
<1>4. ASSUME NEW m, m.kind \in {"scope", "replay"}, pushes' = Append(pushes, m),
             m.kind = "scope" => phase \in {"backfill", "live"}, UNCHANGED <<phase, view, missed>>
      PROVE  ListenerInv'
  <2>1. pushes \in Seq(Channel(M \cup {m}, R)) /\ m \in Channel(M \cup {m}, R)
    BY <1>3, <1>4
  <2>2. Aside(m) /\ (m.kind \in {"scope", "history"} => phase \in {"backfill", "live"})
    BY <1>4 DEF Aside
  <2> QED
    BY <2>1, <2>2, <1>2, <1>4, ListenerAside
<1>5. CASE Initialize
  <2>1. UNCHANGED <<view, missed>>
    BY <1>5 DEF Initialize
  <2>2. CASE phase = "start" /\ phase' = "snapshot" /\ Ask([kind |-> "snapshot"])
    <3>1. PICK m : m = [kind |-> "snapshot", value |-> projection]
      OBVIOUS
    <3>2. pushes' = Append(pushes, m)
      BY <2>2, <3>1, AnswerFacts DEF Ask
    <3>3. pushes \in Seq(Channel(M \cup {m}, R)) /\ m \in Channel(M \cup {m}, R)
      BY <1>3, <3>1
    <3>4. Latest(pushes', projection)
      BY <3>1, <3>2, <3>3, LatestAppend DEF ListenerInv
    <3>5. Ordered(pushes', "snapshot")
      BY <2>2, <3>1, <3>2, <3>3, OrderedSnapshot DEF ListenerInv
    <3>6. ~NoneOf(pushes', {"projection", "snapshot"})
      BY <3>1, <3>2, <3>3, NoneOfAppend
    <3> QED
      BY <2>2, <3>4, <3>5, <3>6, <1>2 DEF ListenerInv
  <2>3. CASE phase = "snapshot" /\ phase' = "events" /\ Ask([kind |-> "events"])
    <3>1. PICK m : m = [kind |-> "events", value |-> ring]
      OBVIOUS
    <3>2. pushes' = Append(pushes, m)
      BY <2>3, <3>1, AnswerFacts DEF Ask
    <3>3. pushes \in Seq(Channel(M \cup {m}, R)) /\ m \in Channel(M \cup {m}, R)
      BY <1>3, <3>1
    <3>4. Latest(pushes', projection)
      BY <3>1, <3>2, <3>3, LatestAppend DEF ListenerInv
    <3>5. Ordered(pushes', "events")
      BY <2>3, <3>1, <3>2, <3>3, OrderedEvents DEF ListenerInv
    <3>6. NoneOf(pushes', {"projection", "snapshot"}) => NoneOf(pushes, {"projection", "snapshot"})
      BY <3>2, <3>3, NoneOfAppend
    <3> QED
      BY <2>1, <2>3, <3>4, <3>5, <3>6, <1>2 DEF ListenerInv
  <2> QED
    BY <2>2, <2>3, <1>5 DEF Initialize
<1>6. CASE SelectRun
  <2>1. PICK r : Ask([kind |-> "scope", run |-> r])
    BY <1>6 DEF SelectRun
  <2>2. PICK m : m = [kind |-> "scope", run |-> r]
    OBVIOUS
  <2>3. pushes' = Append(pushes, m)
    BY <2>1, <2>2, AnswerFacts DEF Ask
  <2>4. phase \in {"backfill", "live"} /\ UNCHANGED <<phase, view, missed>>
    BY <1>6 DEF SelectRun
  <2> QED
    BY <2>2, <2>3, <2>4, <1>4
<1>7. CASE MovePlayhead
  <2>1. UNCHANGED <<phase, view, missed>>
    BY <1>7 DEF MovePlayhead
  <2>2. CASE pushes' = pushes
    BY <2>1, <2>2, <1>2 DEF ListenerInv
  <2>3. CASE Ask(Fetch)
    <3>1. PICK m : m = [kind |-> "replay", tag |-> fetches + 1, events |-> ring]
      OBVIOUS
    <3>2. pushes' = Append(pushes, m)
      BY <2>3, <3>1, AnswerFacts DEF Ask, Fetch
    <3> QED
      BY <2>1, <3>1, <3>2, <1>4
  <2> QED
    BY <2>2, <2>3, <1>7 DEF MovePlayhead
<1>8. CASE Reload
  <2>1. phase' = "start" /\ pushes' = <<>>
    BY <1>8 DEF Reload, RendererStart
  <2>2. Len(<<>>) = 0 /\ 1..0 = {}
    BY EmptySeq
  <2>3. Latest(pushes', projection) /\ Ordered(pushes', "start")
    BY <2>1, <2>2 DEF Latest, Ordered
  <2> QED
    BY <2>1, <2>3, <1>2 DEF ListenerInv
<1> QED
  BY <1>5, <1>6, <1>7, <1>8

LEMMA ListenerTakes ==
    ASSUME StoreInv, ListenerInv, RendererTakes
    PROVE  ListenerInv'
<1>1. PICK M, R : Held(M, R)
  BY DEF StoreInv, RecordsInv
<1>2. PICK m : m = pushes[1]
  OBVIOUS
<1> DEFINE both == {"projection", "snapshot"}
<1>3. /\ pushes # <<>> /\ Len(pushes) >= 1 /\ Len(pushes) \in Nat
      /\ unchangedStore /\ UNCHANGED <<scope, forgeVars>>
      /\ \/ /\ OnProjection(m)
            /\ \/ pushes' = Tail(pushes)
               \/ pushes' = Append(Tail(pushes),
                     [kind |-> "replay", tag |-> fetches + 1, events |-> ring])
         \/ /\ OnLogs(m) \/ OnSnapshot(m) \/ OnBackfill(m) \/ OnHistory(m)
               \/ OnReplayEvents(m)
            /\ pushes' = Tail(pushes)
         \/ /\ OnEvents(m)
            /\ pushes' = Append(Tail(pushes),
                  [kind |-> "backfill", records |-> QueryLogs(None, BackfillLimit)])
         \/ /\ OnScope(m)
            /\ m.run = None => pushes' = Tail(pushes)
            /\ m.run # None =>
                  pushes' = Append(Tail(pushes),
                     [kind |-> "history", run |-> m.run,
                      records |-> QueryLogs(m.run, LogLimit)])
  BY <1>1, <1>2, WhatIsTaken DEF Held
<1>4. PICK u : u = Tail(pushes)
  OBVIOUS
<1>5. pushes \in Seq(Channel(M, R)) /\ u \in Seq(Channel(M, R))
  BY <1>1, <1>3, <1>4, TailFacts DEF Held
<1>6. Latest(u, projection) /\ Ordered(u, phase) /\ projection' = projection
  BY <1>3, <1>4, <1>5, LatestTail, OrderedTail DEF ListenerInv, unchangedStore
<1>7. NoneOf(u, both) /\ m.kind \notin both => NoneOf(pushes, both)
  BY <1>2, <1>3, <1>4, <1>5, NoneOfTail DEF IsKind
<1>8. NoneOf(u, both) => /\ m.kind = "projection" => m.state = projection
                         /\ m.kind = "snapshot" => m.value = projection
  BY <1>2, <1>3, <1>4, <1>5, LatestHead DEF ListenerInv, IsKind
<1>9. 1 \in 1..Len(pushes)
  BY <1>3
<1>10. /\ m.kind = "events" => phase = "events"
       /\ m.kind = "backfill" => phase = "backfill"
       /\ m.kind = "scope" => phase \in {"backfill", "live"}
  BY <1>2, <1>9 DEF ListenerInv, Ordered, IsKind
<1>11. ASSUME NEW c, c.kind \in {"replay", "backfill", "history"}, pushes' = Append(u, c),
              c.kind \in {"backfill", "history"} => c.records \in Seq(R),
              c.kind = "backfill" => Len(c.records) <= BackfillLimit,
              c.kind = "history" => Numbered(c.records)
       PROVE  /\ Latest(pushes', projection)
              /\ NoneOf(pushes', both) => NoneOf(u, both)
              /\ u \in Seq(Channel(M \cup {c}, R)) /\ c \in Channel(M \cup {c}, R)
              /\ pushes \in Seq(Channel(M \cup {c}, R))
  <2>1. Sound(c, R)
    BY <1>11 DEF Sound
  <2>2. /\ u \in Seq(Channel(M \cup {c}, R)) /\ c \in Channel(M \cup {c}, R)
        /\ pushes \in Seq(Channel(M \cup {c}, R))
    BY <2>1, <1>5, ChannelGrows
  <2>3. Latest(pushes', projection)
    BY <2>2, <1>6, <1>11, LatestAppend
  <2>4. NoneOf(pushes', both) => NoneOf(u, both)
    BY <2>2, <1>11, NoneOfAppend
  <2> QED
    BY <2>2, <2>3, <2>4
<1>12. ASSUME NEW r, NEW n \in Nat
       PROVE  QueryLogs(r, n) \in Seq(R) /\ Len(QueryLogs(r, n)) <= n /\ Numbered(QueryLogs(r, n))
  BY <1>1, QueryFacts DEF Held, StoreInv, BuffersInv
<1> HIDE DEF both
<1>13. CASE OnProjection(m)
  <2>1. /\ m.kind = "projection" /\ phase' = phase /\ missed' = (phase # "live")
        /\ phase = "live" => view' = m.state
    BY <1>13 DEF OnProjection
  <2>2. NoneOf(u, both) => missed' \/ view' = projection
    BY <2>1, <1>8
  <2>3. /\ Latest(pushes', projection) /\ Ordered(pushes', phase)
        /\ NoneOf(pushes', both) => NoneOf(u, both)
    <3>1. CASE pushes' = u
      BY <3>1, <1>6
    <3>2. CASE pushes' # u
      <4>1. PICK c : c = [kind |-> "replay", tag |-> fetches + 1, events |-> ring]
        OBVIOUS
      <4>2. pushes' = Append(u, c)
        BY <3>2, <4>1, <2>1, <1>3, <1>4
           DEF OnLogs, OnSnapshot, OnBackfill, OnHistory, OnReplayEvents, OnEvents, OnScope
      <4>3. /\ Latest(pushes', projection) /\ (NoneOf(pushes', both) => NoneOf(u, both))
            /\ u \in Seq(Channel(M \cup {c}, R)) /\ c \in Channel(M \cup {c}, R)
        BY <4>1, <4>2, <1>11
      <4>4. Ordered(pushes', phase)
        BY <4>1, <4>2, <4>3, <1>6, OrderedAppend
      <4> QED
        BY <4>3, <4>4
    <3> QED
      BY <3>1, <3>2
  <2> QED
    BY <2>1, <2>2, <2>3, <1>6 DEF ListenerInv, both
<1>14. CASE OnSnapshot(m)
  <2>1. m.kind = "snapshot" /\ phase' = phase /\ view' = m.value
    BY <1>14 DEF OnSnapshot
  <2>2. pushes' = u
    BY <2>1, <1>3, <1>4 DEF OnProjection, OnEvents, OnScope
  <2> QED
    BY <2>1, <2>2, <1>6, <1>8 DEF ListenerInv, both
<1>15. CASE OnLogs(m) \/ OnHistory(m) \/ OnReplayEvents(m)
  <2>1. m.kind \in {"logs", "history", "replay"} /\ UNCHANGED <<phase, view, missed>>
    BY <1>15 DEF OnLogs, OnHistory, OnReplayEvents
  <2>2. pushes' = u
    BY <2>1, <1>3, <1>4 DEF OnProjection, OnEvents, OnScope
  <2>3. NoneOf(u, both) => NoneOf(pushes, both)
    BY <2>1, <1>7 DEF both
  <2> QED
    BY <2>1, <2>2, <2>3, <1>6 DEF ListenerInv, both
<1>16. CASE OnBackfill(m)
  <2>1. m.kind = "backfill" /\ phase' = "live" /\ UNCHANGED <<view, missed>>
    BY <1>16 DEF OnBackfill
  <2>2. pushes' = u
    BY <2>1, <1>3, <1>4 DEF OnProjection, OnEvents, OnScope
  <2>3. NoneOf(u, both) => NoneOf(pushes, both)
    BY <2>1, <1>7 DEF both
  <2>4. Ordered(u, "live")
    BY <2>1, <1>2, <1>3, <1>4, <1>5, OrderedLive DEF ListenerInv, IsKind
  <2> QED
    BY <2>1, <2>2, <2>3, <2>4, <1>6, <1>10 DEF ListenerInv, both
<1>17. CASE OnEvents(m)
  <2>1. m.kind = "events" /\ phase' = "backfill" /\ UNCHANGED <<view, missed>>
    BY <1>17 DEF OnEvents
  <2>2. PICK c : c = [kind |-> "backfill", records |-> QueryLogs(None, BackfillLimit)]
    OBVIOUS
  <2>3. pushes' = Append(u, c)
    BY <2>1, <2>2, <1>3, <1>4
       DEF OnProjection, OnLogs, OnSnapshot, OnBackfill, OnHistory, OnReplayEvents, OnScope
  <2>7. /\ c.kind = "backfill" /\ c.records \in Seq(R) /\ Len(c.records) <= BackfillLimit
    BY <2>2, <1>12, LimitsAreNumbers
  <2>4. /\ Latest(pushes', projection) /\ (NoneOf(pushes', both) => NoneOf(u, both))
        /\ c \in Channel(M \cup {c}, R) /\ pushes \in Seq(Channel(M \cup {c}, R))
    BY <2>7, <2>3, <1>11
  <2>5. Ordered(pushes', "backfill")
    BY <2>1, <2>2, <2>3, <2>4, <1>2, <1>3, <1>4, OrderedBackfill DEF ListenerInv, IsKind
  <2>6. NoneOf(u, both) => NoneOf(pushes, both)
    BY <2>1, <1>7 DEF both
  <2> QED
    BY <2>1, <2>4, <2>5, <2>6, <1>6, <1>10 DEF ListenerInv, both
<1>18. CASE OnScope(m)
  <2>1. m.kind = "scope" /\ UNCHANGED <<phase, view, missed>>
    BY <1>18 DEF OnScope
  <2>2. NoneOf(u, both) => NoneOf(pushes, both)
    BY <2>1, <1>7 DEF both
  <2>3. /\ Latest(pushes', projection) /\ Ordered(pushes', phase)
        /\ NoneOf(pushes', both) => NoneOf(u, both)
    <3>1. CASE m.run = None
      <4>1. pushes' = u
        BY <3>1, <2>1, <1>3, <1>4
           DEF OnProjection, OnLogs, OnSnapshot, OnBackfill, OnHistory, OnReplayEvents, OnEvents
      <4> QED
        BY <4>1, <1>6
    <3>2. CASE m.run # None
      <4>1. PICK c : c = [kind |-> "history", run |-> m.run, records |-> QueryLogs(m.run, LogLimit)]
        OBVIOUS
      <4>2. pushes' = Append(u, c)
        BY <3>2, <4>1, <2>1, <1>3, <1>4
           DEF OnProjection, OnLogs, OnSnapshot, OnBackfill, OnHistory, OnReplayEvents, OnEvents
      <4>5. /\ c.kind = "history" /\ c.records \in Seq(R) /\ Numbered(c.records)
        BY <4>1, <1>12, LimitsAreNumbers
      <4>3. /\ Latest(pushes', projection) /\ (NoneOf(pushes', both) => NoneOf(u, both))
            /\ u \in Seq(Channel(M \cup {c}, R)) /\ c \in Channel(M \cup {c}, R)
        BY <4>5, <4>2, <1>11
      <4>4. Ordered(pushes', phase)
        BY <4>1, <4>2, <4>3, <2>1, <1>6, <1>10, OrderedAppend
      <4> QED
        BY <4>3, <4>4
    <3> QED
      BY <3>1, <3>2
  <2> QED
    BY <2>1, <2>2, <2>3, <1>6 DEF ListenerInv, both
<1> QED
  BY <1>3, <1>13, <1>14, <1>15, <1>16, <1>17, <1>18

LEMMA ListenerInit == Init => ListenerInv
<1>1. Len(<<>>) = 0 /\ 1..0 = {}
  BY EmptySeq
<1> QED
  BY <1>1 DEF Init, EventStoreInit, ListenerInv, Latest, Ordered

LEMMA ListenerStep == StoreInv /\ ListenerInv /\ [Next]_vars => ListenerInv'
<1> SUFFICES ASSUME StoreInv, ListenerInv, [Next]_vars PROVE ListenerInv'
  OBVIOUS
<1>1. CASE UNCHANGED vars
  BY <1>1 DEF vars, storeVars, rendererVars, ListenerInv
<1> QED
  BY <1>1, ListenerMain, ListenerAsks, ListenerTakes DEF Next

(***************************************************************************)
(* The buffers of main keep their size, timers and order, what the         *)
(* renderer shows is bounded, and it is current unless something newer is  *)
(* on its way or came while initialize() was not listening yet.            *)
(***************************************************************************)
THEOREM TheScreenIsCurrent == Spec => []ScreenIsCurrent
<1>1. StoreInv => TypeOK
  <2> SUFFICES ASSUME StoreInv PROVE TypeOK
    OBVIOUS
  <2>1. PICK M, R : Held(M, R)
    BY DEF StoreInv, RecordsInv
  <2>2. DOMAIN logs = 1..Len(logs)
    BY <2>1 DEF Held
  <2>3. \A i, j \in DOMAIN logs : i < j => logs[i].seq < logs[j].seq
    BY <2>2 DEF StoreInv, BuffersInv, Numbered
  <2>4. Range(Phases) = {"start", "snapshot", "events", "backfill", "live"}
    BY DEF Range, Phases
  <2> QED
    BY <2>3, <2>4 DEF TypeOK, StoreInv, NumbersInv, BuffersInv
<1>2. StoreInv /\ ListenerInv => ListenerIsCurrent
  <2> SUFFICES ASSUME StoreInv, ListenerInv, phase = "live", ~missed,
                      \A i \in DOMAIN pushes : pushes[i].kind # "projection"
               PROVE  view = projection
    BY DEF ListenerIsCurrent
  <2>1. PICK M, R : Held(M, R)
    BY DEF StoreInv, RecordsInv
  <2>2. DOMAIN pushes = 1..Len(pushes)
    BY <2>1 DEF Held
  <2>3. \A i \in 1..Len(pushes) : ~IsKind(pushes, i, {"snapshot"})
    BY DEF ListenerInv, Ordered
  <2>4. NoneOf(pushes, {"projection", "snapshot"})
    BY <2>2, <2>3 DEF NoneOf, IsKind
  <2> QED
    BY <2>4 DEF ListenerInv
<1>3. StoreInv /\ ListenerInv => ScreenIsCurrent
  BY <1>1, <1>2 DEF ScreenIsCurrent
<1> QED
  BY <1>3, StoreInit, StoreStep, ListenerInit, ListenerStep, PTL DEF Spec
-----------------------------------------------------------------------------
(* The records of the selected run reach the screen.                        *)

(***************************************************************************)
(* What a message promises of a record stays promised while messages are   *)
(* added, and while those taken neither bring it nor replace the list.     *)
(***************************************************************************)
LEMMA CoveredWhenBrought ==
    ASSUME NEW X, NEW s \in Seq(X), NEW m \in X, NEW pending, NEW x, Brings(m, x)
    PROVE  Covered(Append(s, m), pending, x)
<1>1. Len(Append(s, m)) = Len(s) + 1
  BY AppendFacts
<1>2. ASSUME NEW i \in 1..(Len(s) + 1)
      PROVE  Brought(Append(s, m), x, i)
  BY BroughtAppend
<1> QED
  BY <1>1, <1>2 DEF Covered

LEMMA PromisedAppend ==
    ASSUME NEW X, NEW m \in X, pushes \in Seq(X), pushes' = Append(pushes, m), NEW x, Promised(x),
           UNCHANGED <<phase, shown>>,
           IsIn(x, pendingLogs) => IsIn(x, pendingLogs') \/ Brings(m, x),
           Marks(m, x) => IsIn(x, pendingLogs') \/ Brings(m, x)
    PROVE  Promised(x)'
<1>1. Covered(pushes', pendingLogs', x)
  BY CoveredAppend DEF Promised
<1>2. 1 \in 1..(Len(pushes) + 1)
  OBVIOUS
<1>3. Brought(pushes, x, 1) \/ Brings(m, x) => Brought(pushes', x, 1)
  BY <1>2, BroughtAppend
<1> QED
  BY <1>1, <1>3 DEF Promised

LEMMA PromisedAside ==
    ASSUME NEW X, NEW c, pushes \in Seq(X), pushes # <<>>, NEW x, Promised(x),
           UNCHANGED <<phase, shown, pendingLogs>>, ~Brings(pushes[1], x),
           pushes' = Tail(pushes) \/ (pushes' = Append(Tail(pushes), c) /\ ~Marks(c, x) /\ c \in X)
    PROVE  Promised(x)'
<1>1. PICK u : u = Tail(pushes)
  OBVIOUS
<1>2. u \in Seq(X) /\ Len(u) \in Nat
  BY <1>1, TailFacts
<1>3. Covered(u, pendingLogs, x)
  BY <1>1, CoveredTail DEF Promised
<1>4. Brought(pushes, x, 1) => Brought(u, x, 1)
  BY <1>1, BroughtTail
<1>5. CASE pushes' = u
  BY <1>3, <1>4, <1>5 DEF Promised
<1>6. CASE pushes' = Append(u, c) /\ ~Marks(c, x) /\ c \in X
  <2>1. Covered(pushes', pendingLogs, x)
    BY <1>2, <1>3, <1>6, CoveredAppend
  <2>2. 1 \in 1..(Len(u) + 1)
    BY <1>2
  <2>3. Brought(u, x, 1) => Brought(pushes', x, 1)
    BY <1>2, <1>6, <2>2, BroughtAppend
  <2> QED
    BY <1>4, <2>1, <2>3 DEF Promised
<1> QED
  BY <1>1, <1>5, <1>6

LEMMA CompleteArrive ==
    ASSUME StoreInv, CompleteInv, Arrive
    PROVE  CompleteInv'
<1>1. PICK M, R : Held(M, R)
  BY DEF StoreInv, RecordsInv
<1>2. PICK e \in Arriving : Ingest(e)
  BY AnEvent
<1>3. UNCHANGED <<scope, pushes, phase, selected, shown, whole>>
  BY <1>2 DEF Arrive, rendererVars, Ingest
<1>4. ASSUME NEW x, Wanted(x)'
      PROVE  Promised(x)'
  <2>1. PICK record : record = ToLogRecord(e, logSeq + 1)
    OBVIOUS
  <2>2. PICK Q : Q = R \cup {record}
    OBVIOUS
  <2>3. logs \in Seq(Q) /\ pendingLogs \in Seq(Q) /\ record \in Q
    BY <1>1, <2>2, SeqMonotonic DEF Held
  <2>4. \/ UNCHANGED <<logs, pendingLogs>>
        \/ /\ logs' = Newest(Append(logs, record), capacity)
           /\ pendingLogs' = Append(pendingLogs, record)
    BY <1>2, <2>1 DEF Ingest
  <2>5. capacity \in Nat
    BY LimitsAreNumbers DEF StoreInv, NumbersInv
  <2>6. IsIn(x, logs')
    BY <1>4 DEF Wanted
  <2>7. IsIn(x, pendingLogs) => IsIn(x, pendingLogs')
    <3>1. CASE UNCHANGED <<logs, pendingLogs>>
      BY <3>1
    <3>2. CASE pendingLogs' = Append(pendingLogs, record)
      BY <2>3, <3>2, AppendFacts
    <3> QED
      BY <2>4, <3>1, <3>2
  <2>8. CASE IsIn(x, logs)
    <3>1. Wanted(x)
      BY <1>3, <1>4, <2>8 DEF Wanted
    <3>2. Promised(x)
      BY <3>1 DEF CompleteInv
    <3> QED
      BY <1>3, <2>7, <3>2 DEF Promised, Covered
  <2>9. CASE ~IsIn(x, logs)
    <3>1. /\ logs' = Newest(Append(logs, record), capacity)
          /\ pendingLogs' = Append(pendingLogs, record)
      BY <2>4, <2>6, <2>9
    <3>2. Append(logs, record) \in Seq(Q) /\ (IsIn(x, Append(logs, record)) => x = record)
      BY <2>3, <2>9, AppendFacts
    <3>3. x = record
      BY <2>5, <2>6, <3>1, <3>2, NewestFacts
    <3>4. IsIn(x, pendingLogs')
      BY <2>3, <3>1, <3>3, AppendFacts
    <3> QED
      BY <3>4 DEF Promised, Covered
  <2> QED
    BY <2>8, <2>9
<1> QED
  BY <1>3, <1>4 DEF CompleteInv

LEMMA CompleteFlush ==
    ASSUME StoreInv, CompleteInv, Flush
    PROVE  CompleteInv'
<1>1. PICK M, R : Held(M, R)
  BY DEF StoreInv, RecordsInv
<1>2. PICK C : C = Channel(M, R)
  OBVIOUS
<1>3. pushes \in Seq(C) /\ pendingLogs \in Seq(R)
  BY <1>1, <1>2 DEF Held
<1>4. UNCHANGED <<scope, logs, phase, selected, shown, whole>>
  BY DEF Flush, rendererVars, FlushState, FlushLogs
<1>5. ASSUME NEW m, pushes' = Append(pushes, m), m.kind \in {"projection", "logs"},
             \A x : Wanted(x) /\ IsIn(x, pendingLogs) => IsIn(x, pendingLogs') \/ Brings(m, x)
      PROVE  CompleteInv'
  <2>1. PICK D : D = C \cup {m}
    OBVIOUS
  <2>2. pushes \in Seq(D) /\ m \in D
    <3>1. \A a \in C : a \in D
      BY <2>1
    <3>2. m \in D
      BY <2>1
    <3> QED
      BY <1>3, <3>1, <3>2, SeqMonotonic
  <2>3. NoneOf(pushes, {"scope", "history"}) => NoneOf(pushes', {"scope", "history"})
    BY <1>5, <2>2, NoneOfAppend
  <2>4. ASSUME NEW x, Wanted(x)'
        PROVE  Promised(x)'
    <3>1. Wanted(x)
      BY <1>4, <2>4 DEF Wanted
    <3>2. Promised(x) /\ ~Marks(m, x)
      BY <1>5, <3>1 DEF CompleteInv, Marks
    <3>3. IsIn(x, pendingLogs) => IsIn(x, pendingLogs') \/ Brings(m, x)
      BY <1>5, <3>1
    <3> QED
      BY <1>4, <1>5, <2>2, <3>2, <3>3, PromisedAppend
  <2> QED
    BY <1>4, <2>3, <2>4 DEF CompleteInv
<1>6. ASSUME UNCHANGED pushes,
             \A x : Wanted(x) /\ IsIn(x, pendingLogs) => IsIn(x, pendingLogs')
      PROVE  CompleteInv'
  <2>1. ASSUME NEW x, Wanted(x)'
        PROVE  Promised(x)'
    <3>1. Wanted(x)
      BY <1>4, <2>1 DEF Wanted
    <3>2. Promised(x) /\ (IsIn(x, pendingLogs) => IsIn(x, pendingLogs'))
      BY <1>6, <3>1 DEF CompleteInv
    <3> QED
      BY <1>4, <1>6, <3>2 DEF Promised, Covered
  <2> QED
    BY <1>4, <1>6, <2>1 DEF CompleteInv
<1>7. CASE FlushState
  <2>1. UNCHANGED pendingLogs
    BY <1>7 DEF FlushState
  <2>2. CASE pendingEvents = <<>>
    <3>1. UNCHANGED pushes
      BY <1>7, <2>2 DEF FlushState
    <3> QED
      BY <1>6, <2>1, <3>1
  <2>3. CASE pendingEvents # <<>>
    <3>1. PICK m : m = [kind |-> "projection", state |-> projection', events |-> pendingEvents]
      OBVIOUS
    <3>2. pushes' = Append(pushes, m) /\ m.kind \in {"projection", "logs"}
      BY <1>7, <2>3, <3>1 DEF FlushState, Push, Send
    <3> QED
      BY <1>5, <2>1, <3>2
  <2> QED
    BY <2>2, <2>3
<1>8. CASE FlushLogs
  <2>1. PICK those : those = InScope(pendingLogs, scope)
    OBVIOUS
  <2>2. ASSUME NEW x, Wanted(x), IsIn(x, pendingLogs)
        PROVE  IsIn(x, those)
    <3>1. scope \in {None, selected} /\ (selected # None => x.run = selected)
      BY <2>2 DEF Wanted, CompleteInv
    <3>2. scope \in {None, x.run}
      BY <3>1
    <3> QED
      BY <1>3, <2>1, <2>2, <3>2, InScopeFacts
  <2>3. CASE those = <<>>
    <3>1. UNCHANGED pushes
      BY <1>8, <2>1, <2>3 DEF FlushLogs
    <3>2. Len(<<>>) = 0 /\ 1..0 = {}
      BY EmptySeq
    <3>3. \A x : ~IsIn(x, those)
      BY <2>3, <3>2 DEF IsIn
    <3> QED
      BY <1>6, <2>2, <3>1, <3>3
  <2>4. CASE those # <<>>
    <3>1. PICK m : m = [kind |-> "logs", records |-> those]
      OBVIOUS
    <3>2. pushes' = Append(pushes, m) /\ m.kind \in {"projection", "logs"}
      BY <1>8, <2>1, <2>4, <3>1 DEF FlushLogs, Send
    <3>3. \A x : IsIn(x, those) => Brings(m, x)
      BY <3>1 DEF Brings
    <3> QED
      BY <1>5, <2>2, <3>2, <3>3
  <2> QED
    BY <2>3, <2>4
<1> QED
  BY <1>7, <1>8 DEF Flush

LEMMA CompleteAsks ==
    ASSUME StoreInv, CompleteInv, Initialize \/ SelectRun \/ MovePlayhead \/ Reload
    PROVE  CompleteInv'
<1>1. PICK M, R : Held(M, R)
  BY DEF StoreInv, RecordsInv
<1>2. PICK C : C = Channel(M, R)
  OBVIOUS
<1>3. pushes \in Seq(C)
  BY <1>1, <1>2 DEF Held
<1>4. ASSUME NEW m
      PROVE  \E D : pushes \in Seq(D) /\ m \in D
  <2>1. PICK D : D = C \cup {m}
    OBVIOUS
  <2>2. m \in D /\ \A a \in C : a \in D
    BY <2>1
  <2>3. pushes \in Seq(D)
    BY <1>3, <2>2, SeqMonotonic
  <2> QED
    BY <2>2, <2>3
<1>5. CASE Initialize
  <2>1. PICK m : m = IF phase = "start" THEN [kind |-> "snapshot", value |-> projection]
                     ELSE [kind |-> "events", value |-> ring]
    OBVIOUS
  <2>2. /\ pushes' = Append(pushes, m) /\ m.kind \in {"snapshot", "events"}
        /\ phase' \in {"snapshot", "events"}
        /\ UNCHANGED <<whole, scope, selected>>
    BY <1>5, <2>1, AnswerFacts DEF Initialize, Ask
  <2>3. PICK D : pushes \in Seq(D) /\ m \in D
    BY <1>4
  <2>4. NoneOf(pushes, {"scope", "history"}) => NoneOf(pushes', {"scope", "history"})
    BY <2>2, <2>3, NoneOfAppend
  <2>5. \A x : ~Wanted(x)'
    BY <2>2 DEF Wanted
  <2> QED
    BY <2>2, <2>4, <2>5 DEF CompleteInv
<1>6. CASE SelectRun
  <2>1. PICK r : selected' = r /\ scope' = r /\ Ask([kind |-> "scope", run |-> r])
    BY <1>6 DEF SelectRun
  <2>2. PICK m : m = [kind |-> "scope", run |-> r]
    OBVIOUS
  <2>3. pushes' = Append(pushes, m)
    BY <2>1, <2>2, AnswerFacts DEF Ask
  <2>4. PICK D : pushes \in Seq(D) /\ m \in D
    BY <1>4
  <2>5. whole' = (r # None)
    BY <1>6, <2>1 DEF SelectRun
  <2>6. ASSUME NEW x, Wanted(x)'
        PROVE  Promised(x)'
    <3>1. x.run = r /\ r # None
      BY <2>1, <2>5, <2>6 DEF Wanted
    <3>2. Brings(m, x)
      BY <2>2, <3>1 DEF Brings
    <3>3. Covered(pushes', pendingLogs', x)
      BY <2>3, <2>4, <3>2, CoveredWhenBrought
    <3>4. 1 \in 1..(Len(pushes) + 1)
      BY <2>4
    <3>5. Brought(pushes', x, 1)
      BY <2>3, <2>4, <3>2, <3>4, BroughtAppend
    <3> QED
      BY <3>3, <3>5 DEF Promised
  <2> QED
    BY <2>1, <2>5, <2>6 DEF CompleteInv
<1>7. CASE MovePlayhead
  <2>1. UNCHANGED <<whole, scope, selected, phase, shown, logs, pendingLogs>>
    BY <1>7 DEF MovePlayhead, unchangedStore
  <2>2. PICK m : m = [kind |-> "replay", tag |-> fetches + 1, events |-> ring]
    OBVIOUS
  <2>3. UNCHANGED pushes \/ pushes' = Append(pushes, m)
    BY <1>7, <2>2, AnswerFacts DEF MovePlayhead, Ask, Fetch
  <2>4. PICK D : pushes \in Seq(D) /\ m \in D
    BY <1>4
  <2>5. NoneOf(pushes, {"scope", "history"}) => NoneOf(pushes', {"scope", "history"})
    <3>1. CASE UNCHANGED pushes
      BY <3>1
    <3>2. CASE pushes' = Append(pushes, m)
      BY <2>2, <2>4, <3>2, NoneOfAppend
    <3> QED
      BY <2>3, <3>1, <3>2
  <2>6. ASSUME NEW x, Wanted(x)'
        PROVE  Promised(x)'
    <3>1. Wanted(x)
      BY <2>1, <2>6 DEF Wanted
    <3>2. Promised(x) /\ ~Marks(m, x)
      BY <2>2, <3>1 DEF CompleteInv, Marks
    <3>3. CASE UNCHANGED pushes
      BY <2>1, <3>2, <3>3 DEF Promised
    <3>4. CASE pushes' = Append(pushes, m)
      BY <2>1, <2>4, <3>2, <3>4, PromisedAppend
    <3> QED
      BY <2>3, <3>3, <3>4
  <2> QED
    BY <2>1, <2>5, <2>6 DEF CompleteInv
<1>8. CASE Reload
  <2>1. whole' = FALSE
    BY <1>8 DEF Reload, RendererStart
  <2> QED
    BY <2>1 DEF CompleteInv, Wanted
<1> QED
  BY <1>5, <1>6, <1>7, <1>8

LEMMA CompleteSettings ==
    ASSUME StoreInv, CompleteInv, ClearProjection \/ ChangeBufferSize
    PROVE  CompleteInv'
<1>1. PICK M, R : Held(M, R)
  BY DEF StoreInv, RecordsInv
<1>2. PICK C : C = Channel(M, R)
  OBVIOUS
<1>3. pushes \in Seq(C) /\ logs \in Seq(R)
  BY <1>1, <1>2 DEF Held
<1>4. CASE ClearProjection
  <2>1. PICK m : m = [kind |-> "projection", state |-> EmptyProjection, events |-> <<>>]
    OBVIOUS
  <2>2. /\ pushes' = Append(pushes, m) /\ m.kind = "projection"
        /\ UNCHANGED <<whole, scope, selected>> /\ logs' = <<>>
    BY <1>4, <2>1 DEF ClearProjection, Clear, Push, Send, rendererVars
  <2>3. PICK D : D = C \cup {m}
    OBVIOUS
  <2>4. m \in D /\ \A a \in C : a \in D
    BY <2>3
  <2>5. pushes \in Seq(D)
    BY <1>3, <2>4, SeqMonotonic
  <2>6. NoneOf(pushes, {"scope", "history"}) => NoneOf(pushes', {"scope", "history"})
    BY <2>2, <2>4, <2>5, NoneOfAppend
  <2>7. Len(<<>>) = 0 /\ 1..0 = {}
    BY EmptySeq
  <2>8. \A x : ~Wanted(x)'
    BY <2>2, <2>7 DEF Wanted, IsIn
  <2> QED
    BY <2>2, <2>6, <2>8 DEF CompleteInv
<1>5. CASE ChangeBufferSize
  <2>1. PICK size \in BufferSizes : logs' = Newest(logs, size)
    BY <1>5 DEF ChangeBufferSize, SetBufferSize
  <2>2. UNCHANGED <<whole, scope, selected, phase, shown, pushes, pendingLogs>>
    BY <1>5 DEF ChangeBufferSize, SetBufferSize, rendererVars
  <2>3. size \in Nat
    BY LimitsAreNumbers
  <2>4. ASSUME NEW x, Wanted(x)'
        PROVE  Promised(x)'
    <3>1. IsIn(x, logs')
      BY <2>4 DEF Wanted
    <3>2. IsIn(x, logs)
      BY <1>3, <2>1, <2>3, <3>1, NewestFacts
    <3>3. Wanted(x)
      BY <2>2, <2>4, <3>2 DEF Wanted
    <3>4. Promised(x)
      BY <3>3 DEF CompleteInv
    <3> QED
      BY <2>2, <3>4 DEF Promised
  <2> QED
    BY <2>2, <2>4 DEF CompleteInv
<1> QED
  BY <1>4, <1>5

(***************************************************************************)
(* The first query: given all the records, it holds every one wanted.      *)
(***************************************************************************)
LEMMA CompleteFirst ==
    ASSUME StoreInv, ListenerInv, CompleteInv, pushes # <<>>, OnEvents(pushes[1]),
           unchangedStore, UNCHANGED scope,
           pushes' = Append(Tail(pushes),
                        [kind |-> "backfill", records |-> QueryLogs(None, BackfillLimit)])
    PROVE  CompleteInv'
<1>1. PICK M, R : Held(M, R)
  BY DEF StoreInv, RecordsInv
<1>2. PICK C : C = Channel(M, R)
  OBVIOUS
<1>3. pushes \in Seq(C) /\ logs \in Seq(R)
  BY <1>1, <1>2 DEF Held
<1>4. PICK m : m = [kind |-> "backfill", records |-> QueryLogs(None, BackfillLimit)]
  OBVIOUS
<1>5. PICK u : u = Tail(pushes)
  OBVIOUS
<1>6. PICK D : D = C \cup {m}
  OBVIOUS
<1>7. m \in D /\ \A a \in C : a \in D
  BY <1>6
<1>8. pushes \in Seq(D)
  BY <1>3, <1>7, SeqMonotonic
<1>9. u \in Seq(D) /\ pushes' = Append(u, m)
  BY <1>4, <1>5, <1>8, TailFacts
<1>10. /\ IsKind(pushes, 1, {"events"}) /\ whole' = (scope = None /\ Len(logs) <= BackfillLimit)
       /\ UNCHANGED <<selected, scope, logs>>
  BY DEF OnEvents, IsKind, unchangedStore
<1>11. NoneOf(pushes', {"scope", "history"})
  BY <1>4, <1>5, <1>7, <1>8, <1>9, <1>10, OrderedBackfill DEF ListenerInv
<1>12. ASSUME NEW x, Wanted(x)'
       PROVE  Promised(x)'
  <2>1. IsIn(x, logs) /\ Len(logs) <= BackfillLimit
    BY <1>10, <1>12 DEF Wanted
  <2>2. m.records = logs
    BY <1>3, <1>4, <2>1, LimitsAreNumbers, QueryFacts DEF StoreInv, BuffersInv
  <2>3. Brings(m, x)
    BY <1>4, <2>1, <2>2 DEF Brings
  <2>4. Covered(pushes', pendingLogs', x)
    BY <1>7, <1>9, <2>3, CoveredWhenBrought
  <2>5. phase' = "backfill"
    BY DEF OnEvents
  <2> QED
    BY <2>4, <2>5 DEF Promised
<1> QED
  BY <1>10, <1>11, <1>12 DEF CompleteInv

LEMMA CompleteBackfill ==
    ASSUME StoreInv, ListenerInv, CompleteInv, pushes # <<>>, OnBackfill(pushes[1]),
           unchangedStore, UNCHANGED scope, pushes' = Tail(pushes)
    PROVE  CompleteInv'
<1>1. PICK M, R : Held(M, R)
  BY DEF StoreInv, RecordsInv
<1>2. PICK C : C = Channel(M, R)
  OBVIOUS
<1>3. pushes \in Seq(C)
  BY <1>1, <1>2 DEF Held
<1>4. PICK m : m = pushes[1]
  OBVIOUS
<1>5. /\ m.kind = "backfill" /\ phase' = "live" /\ shown' = m.records
      /\ selected' = (IF selected = None THEN LatestRun(view) ELSE selected)
      /\ UNCHANGED <<whole, scope, logs, pendingLogs>>
  BY <1>4 DEF OnBackfill, unchangedStore
<1>6. Len(pushes) \in Nat /\ 1 \in 1..Len(pushes)
  BY <1>3, TailFacts
<1>7. phase = "backfill"
  BY <1>4, <1>5, <1>6 DEF ListenerInv, Ordered, IsKind
<1>8. NoneOf(pushes, {"scope", "history"}) => NoneOf(pushes', {"scope", "history"})
  BY <1>3, NoneOfTail
<1>9. ASSUME NEW x, Wanted(x)'
      PROVE  Promised(x)'
  <2>1. Wanted(x)
    BY <1>5, <1>7, <1>9 DEF Wanted
  <2>2. Promised(x)
    BY <2>1 DEF CompleteInv
  <2>3. Covered(pushes', pendingLogs', x)
    BY <1>3, <1>5, <2>2, CoveredTail DEF Promised
  <2>4. IsIn(x, pendingLogs) \/ Brought(pushes, x, 1)
    BY <1>4, <1>5, <1>6, <2>2 DEF Promised, Covered, Marks
  <2>5. Brought(pushes, x, 1) => IsIn(x, shown') \/ Brought(pushes', x, 1)
    <3>1. CASE Brings(m, x)
      BY <1>5, <3>1 DEF Brings
    <3>2. CASE ~Brings(m, x)
      BY <1>3, <1>4, <3>2, BroughtTail
    <3> QED
      BY <3>1, <3>2
  <2> QED
    BY <1>5, <2>3, <2>4, <2>5 DEF Promised
<1> QED
  BY <1>5, <1>8, <1>9 DEF CompleteInv

(***************************************************************************)
(* Records pushed are added to those shown.                                *)
(***************************************************************************)
LEMMA CompletePushed ==
    ASSUME StoreInv, CompleteInv, pushes # <<>>, OnLogs(pushes[1]),
           unchangedStore, UNCHANGED scope, pushes' = Tail(pushes)
    PROVE  CompleteInv'
<1>1. PICK M, R : Held(M, R)
  BY DEF StoreInv, RecordsInv
<1>2. PICK C : C = Channel(M, R)
  OBVIOUS
<1>3. pushes \in Seq(C) /\ shown \in Seq(R)
  BY <1>1, <1>2 DEF Held
<1>4. PICK m : m = pushes[1]
  OBVIOUS
<1>5. /\ m.kind = "logs"
      /\ shown' = (IF phase # "live" THEN shown ELSE Newest(shown \o m.records, LogLimit))
      /\ UNCHANGED <<phase, selected, whole, scope, logs, pendingLogs>>
  BY <1>4 DEF OnLogs, unchangedStore, AppendCapped
<1>6. m \in C
  BY <1>3, <1>4, TailFacts
<1>7. m.records \in Seq(R)
  BY <1>2, <1>5, <1>6 DEF Channel, Sound
<1>8. NoneOf(pushes, {"scope", "history"}) => NoneOf(pushes', {"scope", "history"})
  BY <1>3, NoneOfTail
<1>9. ASSUME NEW x, Wanted(x)'
      PROVE  Promised(x)'
  <2>1. Promised(x)
    BY <1>5, <1>9 DEF Wanted, CompleteInv
  <2>2. Covered(pushes', pendingLogs', x)
    BY <1>3, <1>5, <2>1, CoveredTail DEF Promised
  <2>3. ASSUME phase = "live"
        PROVE  \/ IsIn(x, shown') \/ Len(shown') >= LogLimit
               \/ IsIn(x, pendingLogs) \/ Brought(pushes', x, 1)
    <3>1. PICK both : both = shown \o m.records
      OBVIOUS
    <3>2. shown' = Newest(both, LogLimit) /\ LogLimit \in Nat
      BY <1>5, <2>3, <3>1, LimitsAreNumbers
    <3>3. both \in Seq(R) /\ Len(both) \in Nat /\ Len(both) >= Len(shown)
      BY <1>3, <1>7, <3>1
    <3>4. IsIn(x, shown) \/ IsIn(x, m.records) => IsIn(x, both)
      BY <1>3, <1>7, <3>1, IsInConcat
    <3>5. IsIn(x, both) => IsIn(x, shown') \/ Len(shown') >= LogLimit
      BY <3>2, <3>3, NewestKeeps
    <3>6. Len(shown) >= LogLimit => Len(shown') >= LogLimit
      <4>1. Len(shown') = IF Len(both) <= LogLimit THEN Len(both) ELSE LogLimit
        BY <3>2, <3>3, NewestFacts
      <4>2. Len(shown) \in Nat
        BY <1>3
      <4> QED
        BY <3>2, <3>3, <4>1, <4>2
    <3>7. Brought(pushes, x, 1) => IsIn(x, m.records) \/ Brought(pushes', x, 1)
      <4>1. CASE Brings(m, x)
        BY <1>5, <4>1 DEF Brings
      <4>2. CASE ~Brings(m, x)
        BY <1>3, <1>4, <4>2, BroughtTail
      <4> QED
        BY <4>1, <4>2
    <3> QED
      BY <2>1, <2>3, <3>4, <3>5, <3>6, <3>7 DEF Promised
  <2> QED
    BY <1>5, <2>2, <2>3 DEF Promised
<1> QED
  BY <1>5, <1>8, <1>9 DEF CompleteInv

(***************************************************************************)
(* The answer to selectRun sends for the history of the run.               *)
(***************************************************************************)
LEMMA CompleteScope ==
    ASSUME StoreInv, CompleteInv, pushes # <<>>, OnScope(pushes[1]),
           unchangedStore, UNCHANGED scope,
           pushes[1].run = None => pushes' = Tail(pushes),
           pushes[1].run # None =>
              pushes' = Append(Tail(pushes),
                           [kind |-> "history", run |-> pushes[1].run,
                            records |-> QueryLogs(pushes[1].run, LogLimit)])
    PROVE  CompleteInv'
<1>1. PICK M, R : Held(M, R)
  BY DEF StoreInv, RecordsInv
<1>2. PICK C : C = Channel(M, R)
  OBVIOUS
<1>3. pushes \in Seq(C) /\ logs \in Seq(R)
  BY <1>1, <1>2 DEF Held
<1>4. PICK m : m = pushes[1]
  OBVIOUS
<1>5. PICK c : c = [kind |-> "history", run |-> m.run, records |-> QueryLogs(m.run, LogLimit)]
  OBVIOUS
<1>6. PICK u : u = Tail(pushes)
  OBVIOUS
<1>7. /\ m.kind = "scope" /\ UNCHANGED <<phase, shown, selected, whole, scope, logs, pendingLogs>>
      /\ m.run = None => pushes' = u
      /\ m.run # None => pushes' = Append(u, c)
  BY <1>4, <1>5, <1>6 DEF OnScope, unchangedStore
<1>8. PICK D : D = C \cup {c}
  OBVIOUS
<1>9. c \in D /\ \A a \in C : a \in D
  BY <1>8
<1>10. pushes \in Seq(D)
  BY <1>3, <1>9, SeqMonotonic
<1>11. u \in Seq(D) /\ Len(u) \in Nat /\ Len(pushes) \in Nat /\ 1 \in 1..Len(pushes)
  BY <1>6, <1>10, TailFacts
<1>12. ~NoneOf(pushes, {"scope", "history"})
  BY <1>4, <1>7, <1>11 DEF NoneOf, IsKind
<1>13. ASSUME NEW x, Wanted(x)'
       PROVE  Promised(x)'
  <2>1. Wanted(x)
    BY <1>7, <1>13 DEF Wanted
  <2>2. Promised(x) /\ IsIn(x, logs)
    BY <2>1 DEF CompleteInv, Wanted
  <2>3. Covered(u, pendingLogs, x)
    BY <1>6, <1>10, <2>2, CoveredTail DEF Promised
  <2>4. CASE ~Brings(m, x) /\ m.run = None
    BY <1>4, <1>7, <1>10, <2>2, <2>4, <1>6, PromisedAside
  <2>5. CASE m.run # None
    <3>1. m.run = x.run => Brings(c, x)
      <4> SUFFICES ASSUME m.run = x.run PROVE Brings(c, x)
        OBVIOUS
      <4>1. Numbered(logs) /\ LogLimit \in Nat
        BY LimitsAreNumbers DEF StoreInv, BuffersInv
      <4>2. IsIn(x, QueryLogs(m.run, LogLimit)) \/ Len(QueryLogs(m.run, LogLimit)) >= LogLimit
        BY <1>3, <2>2, <4>1, QueryFacts
      <4> QED
        BY <1>5, <4>2 DEF Brings
    <3>2. Marks(c, x) => Brings(c, x)
      BY <1>5, <3>1 DEF Marks
    <3>3. Covered(pushes', pendingLogs, x)
      <4>1. c \in D /\ u \in Seq(D) /\ pushes' = Append(u, c)
        BY <1>7, <1>9, <1>11, <2>5
      <4>2. IsIn(x, pendingLogs) => IsIn(x, pendingLogs) \/ Brings(c, x)
        OBVIOUS
      <4>3. Marks(c, x) => IsIn(x, pendingLogs) \/ Brings(c, x)
        BY <3>2
      <4> QED
        BY <4>1, <4>2, <4>3, <2>3, CoveredAppend
    <3>4. Brought(pushes, x, 1) => Brought(u, x, 1) \/ Brings(c, x)
      <4>1. CASE Brings(m, x)
        BY <1>7, <3>1, <4>1 DEF Brings
      <4>2. CASE ~Brings(m, x)
        BY <1>4, <1>6, <1>10, <4>2, BroughtTail
      <4> QED
        BY <4>1, <4>2
    <3>5. 1 \in 1..(Len(u) + 1)
      BY <1>11
    <3>6. Brought(u, x, 1) \/ Brings(c, x) => Brought(pushes', x, 1)
      BY <1>7, <1>9, <1>11, <2>5, <3>5, BroughtAppend
    <3> QED
      BY <1>7, <2>2, <3>3, <3>4, <3>6 DEF Promised
  <2>6. m.run = None => ~Brings(m, x)
    BY <1>7 DEF Brings
  <2> QED
    BY <2>4, <2>5, <2>6
<1> QED
  BY <1>7, <1>12, <1>13 DEF CompleteInv

(***************************************************************************)
(* The history of a run is merged into the list while the run is selected. *)
(***************************************************************************)
LEMMA CompleteHistory ==
    ASSUME StoreInv, CompleteInv, pushes # <<>>, OnHistory(pushes[1]),
           unchangedStore, UNCHANGED scope, pushes' = Tail(pushes)
    PROVE  CompleteInv'
<1>1. PICK M, R : Held(M, R)
  BY DEF StoreInv, RecordsInv
<1>2. PICK C : C = Channel(M, R)
  OBVIOUS
<1>3. pushes \in Seq(C) /\ shown \in Seq(R)
  BY <1>1, <1>2 DEF Held
<1>4. PICK m : m = pushes[1]
  OBVIOUS
<1>5. /\ m.kind = "history"
      /\ shown' = (IF selected # m.run THEN shown ELSE MergeLogRecords(shown, m.records, LogLimit))
      /\ UNCHANGED <<phase, selected, whole, scope, logs, pendingLogs>>
  BY <1>4 DEF OnHistory, unchangedStore
<1>6. m \in C /\ Len(pushes) \in Nat /\ 1 \in 1..Len(pushes)
  BY <1>3, <1>4, TailFacts
<1>7. m.records \in Seq(R) /\ Numbered(m.records)
  BY <1>2, <1>5, <1>6 DEF Channel, Sound
<1>8. ~NoneOf(pushes, {"scope", "history"})
  BY <1>4, <1>5, <1>6 DEF NoneOf, IsKind
<1>9. ASSUME NEW x, Wanted(x)'
      PROVE  Promised(x)'
  <2>1. Wanted(x)
    BY <1>5, <1>9 DEF Wanted
  <2>2. Promised(x)
    BY <2>1 DEF CompleteInv
  <2>3. Covered(pushes', pendingLogs', x)
    BY <1>3, <1>5, <2>2, CoveredTail DEF Promised
  <2>4. x.run = selected
    BY <1>8, <2>1 DEF Wanted, CompleteInv
  <2>5. CASE selected # m.run
    <3>1. ~Brings(m, x)
      BY <1>5, <2>4, <2>5 DEF Brings
    <3> QED
      BY <1>3, <1>4, <1>5, <2>2, <2>5, <3>1, PromisedAside
  <2>6. CASE selected = m.run
    <3>1. IsIn(x, pendingLogs) \/ Brought(pushes, x, 1)
      BY <1>4, <1>5, <1>6, <2>2, <2>4, <2>6 DEF Promised, Covered, Marks
    <3>2. PICK merged : merged = MergeLogRecords(shown, m.records, LogLimit)
      OBVIOUS
    <3>3. /\ IsIn(x, m.records) => IsIn(x, merged) \/ Len(merged) >= LogLimit
          /\ Len(m.records) >= LogLimit => Len(merged) >= LogLimit
      BY <1>1, <1>3, <1>7, <3>2, LimitsAreNumbers, MergeFacts DEF Held, StoreInv, BuffersInv
    <3>4. Brought(pushes, x, 1) =>
             IsIn(x, shown') \/ Len(shown') >= LogLimit \/ Brought(pushes', x, 1)
      <4>1. CASE Brings(m, x)
        BY <1>5, <2>6, <3>2, <3>3, <4>1 DEF Brings
      <4>2. CASE ~Brings(m, x)
        BY <1>3, <1>4, <4>2, BroughtTail
      <4> QED
        BY <4>1, <4>2
    <3> QED
      BY <1>5, <2>3, <3>1, <3>4 DEF Promised
  <2> QED
    BY <2>5, <2>6
<1> QED
  BY <1>5, <1>8, <1>9 DEF CompleteInv

(***************************************************************************)
(* The other messages bring no records.                                    *)
(***************************************************************************)
LEMMA CompleteAside ==
    ASSUME StoreInv, CompleteInv, pushes # <<>>, NEW m, m = pushes[1],
           OnProjection(m) \/ OnSnapshot(m) \/ OnReplayEvents(m),
           unchangedStore, UNCHANGED scope,
           \/ pushes' = Tail(pushes)
           \/ pushes' = Append(Tail(pushes),
                           [kind |-> "replay", tag |-> fetches + 1, events |-> ring])
    PROVE  CompleteInv'
<1>1. PICK M, R : Held(M, R)
  BY DEF StoreInv, RecordsInv
<1>2. PICK C : C = Channel(M, R)
  OBVIOUS
<1>3. pushes \in Seq(C)
  BY <1>1, <1>2 DEF Held
<1>4. PICK c : c = [kind |-> "replay", tag |-> fetches + 1, events |-> ring]
  OBVIOUS
<1>5. /\ m.kind \in {"projection", "snapshot", "replay"}
      /\ UNCHANGED <<phase, shown, selected, whole, scope, logs, pendingLogs>>
  BY DEF OnProjection, OnSnapshot, OnReplayEvents, unchangedStore
<1>6. PICK u : u = Tail(pushes)
  OBVIOUS
<1>7. pushes' = u \/ pushes' = Append(u, c)
  BY <1>4, <1>6
<1>8. PICK D : D = C \cup {c}
  OBVIOUS
<1>9. c \in D /\ \A a \in C : a \in D
  BY <1>8
<1>10. pushes \in Seq(D)
  BY <1>3, <1>9, SeqMonotonic
<1>11. u \in Seq(D)
  BY <1>6, <1>10, TailFacts
<1>12. NoneOf(pushes, {"scope", "history"}) => NoneOf(u, {"scope", "history"})
  BY <1>6, <1>10, NoneOfTail
<1>13. NoneOf(u, {"scope", "history"}) => NoneOf(pushes', {"scope", "history"})
  <2>1. CASE pushes' = u
    BY <2>1
  <2>2. CASE pushes' = Append(u, c)
    BY <1>4, <1>9, <1>11, <2>2, NoneOfAppend
  <2> QED
    BY <1>7, <2>1, <2>2
<1>14. ASSUME NEW x, Wanted(x)'
       PROVE  Promised(x)'
  <2>1. Wanted(x)
    BY <1>5, <1>14 DEF Wanted
  <2>2. Promised(x) /\ ~Brings(pushes[1], x)
    BY <1>5, <2>1 DEF CompleteInv, Brings
  <2>3. ~Marks(c, x)
    BY <1>4 DEF Marks
  <2> QED
    BY <1>5, <1>6, <1>7, <1>9, <1>10, <2>2, <2>3, PromisedAside
<1> QED
  BY <1>5, <1>12, <1>13, <1>14 DEF CompleteInv

LEMMA CompleteInit == Init => CompleteInv
  BY DEF Init, CompleteInv, Wanted

LEMMA CompleteStep == StoreInv /\ ListenerInv /\ CompleteInv /\ [Next]_vars => CompleteInv'
<1> SUFFICES ASSUME StoreInv, ListenerInv, CompleteInv, [Next]_vars PROVE CompleteInv'
  OBVIOUS
<1>1. CASE UNCHANGED vars
  BY <1>1 DEF vars, storeVars, rendererVars, CompleteInv, Wanted, Promised
<1>2. CASE RendererTakes
  <2>1. PICK M, R : Held(M, R)
    BY DEF StoreInv, RecordsInv
  <2>2. PICK C : C = Channel(M, R)
    OBVIOUS
  <2>3. pushes \in Seq(C)
    BY <2>1, <2>2 DEF Held
  <2> QED
    BY <1>2, <2>3, WhatIsTaken, CompletePushed, CompleteScope, CompleteHistory, CompleteAside,
       CompleteFirst, CompleteBackfill
<1> QED
  BY <1>1, <1>2, CompleteArrive, CompleteFlush, CompleteAsks, CompleteSettings DEF Next

(***************************************************************************)
(* Once things are quiet, the records the main process still holds of the  *)
(* selected run are shown, as far as they were asked for: nothing logged   *)
(* between the query for the history and its answer, or while the log of a *)
(* run is narrowed, is lost.                                               *)
(***************************************************************************)
THEOREM SelectedRunIsComplete == Spec => []SelectedLogsComplete
<1>1. StoreInv /\ CompleteInv => SelectedLogsComplete
  <2> SUFFICES ASSUME StoreInv, CompleteInv, Quiet, phase = "live", selected # None, whole,
                      Len(shown) < LogLimit,
                      NEW x \in Range(InScope(logs, selected))
               PROVE  x \in Range(shown)
    BY DEF SelectedLogsComplete
  <2>1. PICK M, R : Held(M, R)
    BY DEF StoreInv, RecordsInv
  <2>2. logs \in Seq(R) /\ shown \in Seq(R)
    BY <2>1 DEF Held
  <2>3. IsIn(x, InScope(logs, selected))
    BY <2>2, InScopeFacts, RangeFacts
  <2>4. IsIn(x, logs) /\ x.run = selected
    BY <2>2, <2>3, InScopeFacts
  <2>5. Promised(x)
    BY <2>4 DEF CompleteInv, Wanted
  <2>6. Len(<<>>) = 0 /\ 1..0 = {}
    BY EmptySeq
  <2>7. ~IsIn(x, pendingLogs) /\ ~Brought(pushes, x, 1)
    BY <2>6 DEF Quiet, IsIn, Brought
  <2>8. Len(shown) \in Nat /\ LogLimit \in Nat
    BY <2>2, LimitsAreNumbers
  <2>9. IsIn(x, shown)
    BY <2>5, <2>7, <2>8 DEF Promised
  <2> QED
    BY <2>2, <2>9, RangeFacts
<1> QED
  BY <1>1, StoreInit, StoreStep, ListenerInit, ListenerStep, CompleteInit, CompleteStep, PTL
     DEF Spec

-----------------------------------------------------------------------------
(* The playhead at the end shows the live run.                              *)

(***************************************************************************)
(* E holds the events that have arrived, one to a number of a session.  A  *)
(* projection that counts as many events as the last one is numbered is    *)
(* the fold of the session from its first event, wherever it is held: by   *)
(* main, on the channel, on screen.  The events held are of E too, and a   *)
(* replay is that of the events kept for it.                               *)
(***************************************************************************)
FromStart(p, E) ==
    (p.session # None /\ p.count = p.last) =>
        \E h \in Seq(E) :
            /\ Len(h) = p.last /\ p = Folded(EmptyProjection, h)
            /\ \A i \in 1..Len(h) : h[i].id = i /\ h[i].session = p.session
Tells(m, E) ==
    /\ m.kind = "projection" => FromStart(m.state, E)
    /\ m.kind = "snapshot" => FromStart(m.value, E)
    /\ m.kind = "replay" => m.events \in Seq(E)
AllTell(s, E) == \A i \in 1..Len(s) : Tells(s[i], E)
Named(E, at, next) ==
    /\ E \subseteq Arriving
    /\ \A a \in E : a.session <= at /\ (a.session = at => a.id < next)
    /\ \A a, b \in E : a.session = b.session /\ a.id = b.id => a = b
Seen(E) ==
    /\ Named(E, session, nextId)
    /\ ring \in Seq(E) /\ (cache # None => cache \in Seq(E))
    /\ FromStart(ideal, E) /\ FromStart(projection, E) /\ FromStart(view, E)
    /\ AllTell(pushes, E)
IdealInv ==
    /\ ideal.count \in Nat /\ ideal.last \in Nat
    /\ IF ideal.session = None THEN ideal = EmptyProjection
       ELSE ideal.session = session /\ ideal.last = nextId - 1
ReplayInv == replay # None /\ cache # None => replay = Replay(cache, replay.id, replay.of)
PlayInv == (\E E : Seen(E)) /\ IdealInv /\ ReplayInv

LEMMA TellsMore ==
    ASSUME NEW E, NEW F, E \subseteq F
    PROVE  /\ \A p : FromStart(p, E) => FromStart(p, F)
           /\ \A s : AllTell(s, E) => AllTell(s, F)
           /\ \A s : s \in Seq(E) => s \in Seq(F)
<1>1. \A s : s \in Seq(E) => s \in Seq(F)
  BY SeqMonotonic
<1>2. \A p : FromStart(p, E) => FromStart(p, F)
  BY <1>1 DEF FromStart
<1>3. \A m : Tells(m, E) => Tells(m, F)
  BY <1>1, <1>2 DEF Tells
<1> QED
  BY <1>1, <1>2, <1>3 DEF AllTell

LEMMA TellsAppend ==
    ASSUME NEW X, NEW s \in Seq(X), NEW m, NEW E, AllTell(s, E), Tells(m, E)
    PROVE  AllTell(Append(s, m), E)
<1>1. PICK Y : Y = X \cup {m}
  OBVIOUS
<1>2. m \in Y /\ \A a \in X : a \in Y
  BY <1>1
<1>3. s \in Seq(Y)
  BY <1>2, SeqMonotonic
<1> DEFINE t == Append(s, m)
<1>4. /\ Len(s) \in Nat /\ Len(t) = Len(s) + 1 /\ t[Len(s) + 1] = m
      /\ \A i \in 1..Len(s) : t[i] = s[i]
  BY <1>2, <1>3, AppendFacts
<1> HIDE DEF t
<1>5. AllTell(t, E)
  BY <1>4 DEF AllTell
<1> QED
  BY <1>5 DEF t

LEMMA TellsTail ==
    ASSUME NEW X, NEW s \in Seq(X), s # <<>>, NEW E, AllTell(s, E)
    PROVE  AllTell(Tail(s), E) /\ Tells(s[1], E)
<1> DEFINE t == Tail(s)
<1>1. /\ Len(s) \in Nat /\ Len(s) >= 1 /\ Len(t) = Len(s) - 1
      /\ \A i \in 1..(Len(s) - 1) : t[i] = s[i + 1] /\ i + 1 \in 1..Len(s)
  BY TailFacts
<1> HIDE DEF t
<1>2. AllTell(t, E)
  BY <1>1 DEF AllTell
<1>3. Tells(s[1], E)
  BY <1>1 DEF AllTell
<1> QED
  BY <1>2, <1>3 DEF t

LEMMA PlayInit == Init => PlayInv
<1> SUFFICES ASSUME Init PROVE PlayInv
  OBVIOUS
<1>1. Len(<<>>) = 0 /\ 1..0 = {} /\ <<>> \in Seq({})
  BY EmptySeq
<1>2. \A E : FromStart(EmptyProjection, E)
  BY DEF FromStart, EmptyProjection
<1>3. Seen({})
  BY <1>1, <1>2 DEF Init, EventStoreInit, Seen, Named, AllTell
<1>4. IdealInv
  BY DEF Init, IdealInv, EmptyProjection
<1>5. ReplayInv
  BY DEF Init, ReplayInv
<1> QED
  BY <1>3, <1>4, <1>5 DEF PlayInv

(***************************************************************************)
(* The fold of one more event is from the start if it was before, or if    *)
(* the event is the first of its session.                                  *)
(***************************************************************************)
LEMMA IdealGrows ==
    ASSUME StoreInv, NumbersInv', IdealInv, NEW E, Named(E, session, nextId), FromStart(ideal, E),
           NEW e \in Arriving, e.session = session', e.id = nextId' - 1, e.session >= session,
           e.id = (IF e.session = session THEN nextId ELSE 1),
           ideal' = ApplyEvents(ideal, <<e>>), NEW F, F = E \cup {e}
    PROVE  IdealInv' /\ FromStart(ideal', F) /\ Named(F, session', nextId')
<1>1. /\ session \in Nat /\ nextId \in Nat \ {0}
      /\ e.id \in Nat \ {0} /\ e.session \in Nat /\ e.session # None
  <2>1. e.session \in Nat /\ e.session # None
    BY LimitsAreNumbers, SessionsAreNamed
  <2>2. session \in Nat /\ nextId \in Nat \ {0}
    BY DEF StoreInv, NumbersInv
  <2>3. e.id \in Nat \ {0}
    <3>1. CASE e.session = session
      BY <2>2, <3>1
    <3>2. CASE e.session # session
      <4>1. e.id = 1
        BY <3>2
      <4> QED
        BY <4>1
    <3> QED
      BY <3>1, <3>2
  <2> QED
    BY <2>1, <2>2, <2>3
<1>2. PICK base : base = IF Renewed(ideal, e.session) THEN EmptyProjection ELSE ideal
  OBVIOUS
<1>3. ideal' = ApplyOne(base, e)
  BY <1>2, OneEvent
<1>4. /\ ideal'.session = e.session /\ ideal'.count = base.count + 1
      /\ ideal'.last = IF e.id > base.last THEN e.id ELSE base.last
  BY <1>1, <1>3 DEF ApplyOne, OrElse
<1>5. nextId' = e.id + 1
  <2>1. PICK n \in Nat : n = nextId' /\ e.id = n - 1
    BY DEF NumbersInv
  <2>2. n = (n - 1) + 1
    OBVIOUS
  <2> QED
    BY <2>1, <2>2
<1>6. \/ base = EmptyProjection
      \/ /\ base = ideal /\ ideal.session = session /\ e.session = session
         /\ ideal.last = nextId - 1 /\ e.id = nextId
  BY <1>1, <1>2 DEF IdealInv, Renewed
<1>7. base.count \in Nat /\ base.last \in Nat /\ base.last < e.id
  BY <1>1, <1>6 DEF IdealInv, EmptyProjection
<1>8. IdealInv'
  BY <1>1, <1>4, <1>5, <1>7 DEF IdealInv
<1>9. Named(F, session', nextId')
  <2>1. \A a \in F : a \in E \/ a = e
    OBVIOUS
  <2>2. \A a \in F : a.session \in Nat /\ a.id \in Nat
    BY <1>1, LimitsAreNumbers DEF Named, Arriving
  <2>3. \A a \in F : a.session <= session' /\ (a.session = session' => a.id < nextId')
    BY <1>1, <1>5, <2>1, <2>2 DEF Named
  <2>4. \A a \in E : ~(a.session = e.session /\ a.id = e.id)
    BY <1>1, <2>2 DEF Named
  <2>5. \A a, b \in F : a.session = b.session /\ a.id = b.id => a = b
    BY <2>1, <2>4 DEF Named
  <2> QED
    BY <2>3, <2>5 DEF Named
<1>10. ASSUME ideal'.count = ideal'.last
       PROVE  \E h \in Seq(F) : /\ Len(h) = ideal'.last /\ ideal' = Folded(EmptyProjection, h)
                                /\ \A i \in 1..Len(h) : h[i].id = i /\ h[i].session = e.session
  <2>1. base.count + 1 = e.id /\ ideal'.last = e.id
    BY <1>4, <1>7, <1>10
  <2>2. \E s \in Seq(E) : /\ Len(s) + 1 = e.id /\ base = Folded(EmptyProjection, s)
                          /\ \A i \in 1..Len(s) : s[i].id = i /\ s[i].session = e.session
    <3>1. CASE base = EmptyProjection
      <4>1. <<>> \in Seq(E) /\ Len(<<>>) = 0 /\ 1..0 = {}
        BY EmptySeq
      <4>2. e.id = 1
        BY <2>1, <3>1 DEF EmptyProjection
      <4>3. Folded(EmptyProjection, <<>>) = EmptyProjection
        BY FoldedFacts
      <4>4. PICK s \in Seq(E) : s = <<>>
        BY <4>1
      <4>8. Len(s) = 0
        BY <4>1, <4>4
      <4>5. base = Folded(EmptyProjection, s)
        BY <3>1, <4>3, <4>4
      <4>6. \A i \in 1..Len(s) : FALSE
        BY <4>8
      <4>7. Len(s) + 1 = 1
        BY <4>8
      <4> QED
        BY <4>2, <4>5, <4>6, <4>7
    <3>2. CASE /\ base = ideal /\ ideal.session = session /\ e.session = session
               /\ ideal.last = nextId - 1 /\ e.id = nextId
      <4>1. ideal.count = ideal.last /\ ideal.session # None
        BY <1>1, <1>7, <2>1, <3>2
      <4>2. PICK s \in Seq(E) : /\ Len(s) = ideal.last /\ ideal = Folded(EmptyProjection, s)
                                /\ \A i \in 1..Len(s) : s[i].id = i /\ s[i].session = ideal.session
        BY <4>1 DEF FromStart
      <4>3. Len(s) + 1 = e.id
        BY <1>1, <3>2, <4>2
      <4> QED
        BY <3>2, <4>2, <4>3
    <3> QED
      BY <1>6, <3>1, <3>2
  <2>3. PICK s \in Seq(E) : /\ Len(s) + 1 = e.id /\ base = Folded(EmptyProjection, s)
                            /\ \A i \in 1..Len(s) : s[i].id = i /\ s[i].session = e.session
    BY <2>2
  <2>4. e \in F /\ \A a \in E : a \in F
    OBVIOUS
  <2>5. s \in Seq(F)
    BY <2>4, SeqMonotonic
  <2> DEFINE h == Append(s, e)
  <2>6. /\ h \in Seq(F) /\ Len(s) \in Nat /\ Len(h) = Len(s) + 1 /\ h[Len(s) + 1] = e
        /\ \A i \in 1..Len(s) : h[i] = s[i]
    BY <2>4, <2>5, AppendFacts
  <2>7. Folded(EmptyProjection, h) = ApplyOne(base, e)
    <3>1. s \in Seq(Arriving)
      BY SeqMonotonic DEF Named
    <3> QED
      BY <2>3, <3>1, FoldedOne
  <2> HIDE DEF h
  <2>8. \A i \in 1..Len(h) : h[i].id = i /\ h[i].session = e.session
    BY <2>3, <2>6
  <2> QED
    BY <1>3, <2>1, <2>3, <2>6, <2>7, <2>8
<1>11. FromStart(ideal', F)
  BY <1>4, <1>10 DEF FromStart
<1> QED
  BY <1>8, <1>9, <1>11

(***************************************************************************)
(* Main: what it takes in is seen, what it pushes is its fold.             *)
(***************************************************************************)
LEMMA PlayArrive ==
    ASSUME StoreInv, PlayInv, Arrive
    PROVE  PlayInv'
<1>1. PICK E : Seen(E)
  BY DEF PlayInv
<1>2. PICK e \in Arriving :
          /\ Ingest(e) /\ e.session = session' /\ e.id = nextId' - 1 /\ e.session >= session
          /\ e.id = (IF e.session = session THEN nextId ELSE 1)
          /\ ideal' = ApplyEvents(ideal, <<e>>) /\ NumbersInv'
  BY AnEvent
<1>3. PICK F : F = E \cup {e}
  OBVIOUS
<1>4. UNCHANGED <<projection, pushes, view, cache, replay>>
  BY <1>2 DEF Arrive, rendererVars, Ingest
<1>5. IdealInv' /\ FromStart(ideal', F) /\ Named(F, session', nextId')
  BY <1>1, <1>2, <1>3, IdealGrows DEF Seen, PlayInv
<1>6. E \subseteq F /\ e \in F
  BY <1>3
<1>7. /\ ring \in Seq(F) /\ (cache # None => cache \in Seq(F))
      /\ FromStart(projection, F) /\ FromStart(view, F) /\ AllTell(pushes, F)
  BY <1>1, <1>6, TellsMore DEF Seen
<1>8. ring' \in Seq(F)
  <2>1. Append(ring, e) \in Seq(F)
    BY <1>6, <1>7
  <2>2. capacity \in Nat /\ ring' = Newest(Append(ring, e), capacity)
    BY <1>2, LimitsAreNumbers DEF StoreInv, NumbersInv, Ingest
  <2> QED
    BY <2>1, <2>2, NewestFacts
<1>9. Seen(F)'
  BY <1>4, <1>5, <1>7, <1>8 DEF Seen
<1>10. ReplayInv'
  BY <1>4 DEF PlayInv, ReplayInv
<1> QED
  BY <1>5, <1>9, <1>10 DEF PlayInv

LEMMA PlayMain ==
    ASSUME StoreInv, PlayInv, Flush \/ ClearProjection \/ ChangeBufferSize
    PROVE  PlayInv'
<1>1. PICK E : Seen(E)
  BY DEF PlayInv
<1>2. PICK M, R : Held(M, R)
  BY DEF StoreInv, RecordsInv
<1>3. PICK C : C = Channel(M, R)
  OBVIOUS
<1>4. pushes \in Seq(C)
  BY <1>2, <1>3 DEF Held
<1>5. UNCHANGED <<session, nextId, view, cache, replay>>
  BY DEF Flush, ClearProjection, ChangeBufferSize, rendererVars, forgeVars
<1>6. ReplayInv'
  BY <1>5 DEF PlayInv, ReplayInv
<1>7. ASSUME NEW m, m.kind = "projection" => m.state = projection',
             m.kind \in {"projection", "logs"},
             UNCHANGED pushes \/ pushes' = Append(pushes, m),
             FromStart(projection', E), FromStart(ideal', E), IdealInv', ring' \in Seq(E)
      PROVE  PlayInv'
  <2>1. Tells(m, E)
    BY <1>7 DEF Tells
  <2>2. AllTell(pushes', E)
    <3>1. CASE UNCHANGED pushes
      BY <1>1, <3>1 DEF Seen
    <3>2. CASE pushes' = Append(pushes, m)
      BY <1>1, <1>4, <2>1, <3>2, TellsAppend DEF Seen
    <3> QED
      BY <1>7, <3>1, <3>2
  <2>3. Seen(E)'
    BY <1>1, <1>5, <1>7, <2>2 DEF Seen
  <2> QED
    BY <1>6, <1>7, <2>3 DEF PlayInv
<1>8. FromStart(EmptyProjection, E)
  BY DEF FromStart, EmptyProjection
<1>9. CASE FlushState /\ Flush
  <2>1. UNCHANGED <<ideal, ring>>
    BY <1>9 DEF Flush, FlushState, forgeVars
  <2>2. FromStart(ideal', E) /\ IdealInv' /\ ring' \in Seq(E)
    BY <1>1, <1>5, <2>1 DEF Seen, PlayInv, IdealInv
  <2>3. PICK m : m = [kind |-> "projection", state |-> projection', events |-> pendingEvents]
    OBVIOUS
  <2>4. UNCHANGED pushes \/ pushes' = Append(pushes, m)
    BY <1>9, <2>3 DEF FlushState, Push, Send
  <2>5. projection' = projection \/ projection' = ideal
    BY <1>9 DEF FlushState, StoreInv, FoldInv
  <2>6. FromStart(projection', E)
    BY <1>1, <2>5 DEF Seen
  <2> QED
    BY <1>7, <2>2, <2>3, <2>4, <2>6
<1>10. CASE FlushLogs /\ Flush
  <2>1. UNCHANGED <<ideal, ring, projection>>
    BY <1>10 DEF Flush, FlushLogs, forgeVars
  <2>2. FromStart(ideal', E) /\ IdealInv' /\ ring' \in Seq(E) /\ FromStart(projection', E)
    BY <1>1, <1>5, <2>1 DEF Seen, PlayInv, IdealInv
  <2>3. PICK m : m = [kind |-> "logs", records |-> InScope(pendingLogs, scope)]
    OBVIOUS
  <2>4. UNCHANGED pushes \/ pushes' = Append(pushes, m)
    BY <1>10, <2>3 DEF FlushLogs, Send
  <2> QED
    BY <1>7, <2>2, <2>3, <2>4
<1>11. CASE ClearProjection
  <2>1. /\ ideal' = EmptyProjection /\ projection' = EmptyProjection /\ ring' = <<>>
        /\ UNCHANGED session
    BY <1>11 DEF ClearProjection, Clear
  <2>2. IdealInv'
    BY <2>1 DEF IdealInv, EmptyProjection
  <2>3. ring' \in Seq(E)
    BY <2>1, EmptySeq
  <2>4. PICK m : m = [kind |-> "projection", state |-> EmptyProjection, events |-> <<>>]
    OBVIOUS
  <2>5. pushes' = Append(pushes, m)
    BY <1>11, <2>4 DEF ClearProjection, Clear, Push, Send
  <2> QED
    BY <1>7, <1>8, <2>1, <2>2, <2>3, <2>4, <2>5
<1>12. CASE ChangeBufferSize
  <2>1. PICK size \in BufferSizes : ring' = Newest(ring, size)
    BY <1>12 DEF ChangeBufferSize, SetBufferSize
  <2>2. UNCHANGED <<ideal, projection, pushes>>
    BY <1>12 DEF ChangeBufferSize, SetBufferSize, forgeVars
  <2>3. FromStart(ideal', E) /\ IdealInv' /\ FromStart(projection', E)
    BY <1>1, <1>5, <2>2 DEF Seen, PlayInv, IdealInv
  <2>4. size \in Nat
    BY LimitsAreNumbers
  <2>5. ring' \in Seq(E)
    BY <1>1, <2>1, <2>4, NewestFacts DEF Seen
  <2>6. PICK m : m = [kind |-> "logs"]
    OBVIOUS
  <2> QED
    BY <1>7, <2>2, <2>3, <2>5, <2>6
<1> QED
  BY <1>9, <1>10, <1>11, <1>12 DEF Flush

(***************************************************************************)
(* The renderer: what it shows and keeps it was told.                      *)
(***************************************************************************)
LEMMA PlayKept ==
    ASSUME PlayInv, unchangedStore, UNCHANGED forgeVars, NEW E, Seen(E),
           cache' # None => cache' \in Seq(E), FromStart(view', E), AllTell(pushes', E), ReplayInv'
    PROVE  PlayInv'
<1>1. UNCHANGED <<session, nextId, ideal, ring, projection>>
  BY DEF unchangedStore, forgeVars
<1>2. Seen(E)'
  BY <1>1 DEF Seen
<1>3. IdealInv'
  BY <1>1 DEF PlayInv, IdealInv
<1> QED
  BY <1>2, <1>3 DEF PlayInv

LEMMA AnswersTell ==
    ASSUME NEW E, Seen(E), NEW c, c.kind # "replay" \/ c.events = ring,
           c.kind = "snapshot" => c.value = projection, c.kind # "projection"
    PROVE  Tells(c, E)
  BY DEF Tells, Seen

LEMMA ReplayIs ==
    ASSUME NEW events, NEW id, NEW r
    PROVE  LET p == Replay(events, id, r) IN p = Replay(events, p.id, p.of)
<1>1. Replay(events, id, r).id = id /\ Replay(events, id, r).of = r
  BY DEF Replay
<1> QED
  BY <1>1

LEMMA PlayUser ==
    ASSUME StoreInv, PlayInv, Initialize \/ SelectRun \/ MovePlayhead \/ Reload
    PROVE  PlayInv'
<1>1. PICK E : Seen(E)
  BY DEF PlayInv
<1>2. PICK M, R : Held(M, R)
  BY DEF StoreInv, RecordsInv
<1>3. PICK C : C = Channel(M, R)
  OBVIOUS
<1>4. pushes \in Seq(C)
  BY <1>2, <1>3 DEF Held
<1>5. unchangedStore /\ UNCHANGED forgeVars
  BY DEF Initialize, SelectRun, MovePlayhead, Reload
<1>6. ASSUME NEW c, c.kind # "replay" \/ c.events = ring, c.kind # "projection",
             c.kind = "snapshot" => c.value = projection, pushes' = Append(pushes, c)
      PROVE  AllTell(pushes', E)
  BY <1>1, <1>4, <1>6, AnswersTell, TellsAppend DEF Seen
<1>7. CASE Initialize
  <2>1. UNCHANGED <<view, cache, replay>>
    BY <1>7 DEF Initialize
  <2>2. PICK c : c = IF phase = "start" THEN [kind |-> "snapshot", value |-> projection]
                     ELSE [kind |-> "events", value |-> ring]
    OBVIOUS
  <2>3. pushes' = Append(pushes, c)
    BY <1>7, <2>2, AnswerFacts DEF Initialize, Ask
  <2>4. AllTell(pushes', E)
    BY <1>6, <2>2, <2>3
  <2>5. ReplayInv'
    BY <2>1 DEF PlayInv, ReplayInv
  <2> QED
    BY <1>1, <1>5, <2>1, <2>4, <2>5, PlayKept DEF Seen
<1>8. CASE SelectRun
  <2>1. UNCHANGED <<view, replay>> /\ cache' \in {cache, None}
    BY <1>8 DEF SelectRun
  <2>2. PICK r : Ask([kind |-> "scope", run |-> r])
    BY <1>8 DEF SelectRun
  <2>3. PICK c : c = [kind |-> "scope", run |-> r]
    OBVIOUS
  <2>4. pushes' = Append(pushes, c)
    BY <2>2, <2>3, AnswerFacts DEF Ask
  <2>5. AllTell(pushes', E)
    BY <1>6, <2>3, <2>4
  <2>6. ReplayInv'
    BY <2>1 DEF PlayInv, ReplayInv
  <2> QED
    BY <1>1, <1>5, <2>1, <2>5, <2>6, PlayKept DEF Seen
<1>9. CASE MovePlayhead
  <2>1. UNCHANGED view
    BY <1>9 DEF MovePlayhead
  <2>2. PICK c : c = [kind |-> "replay", tag |-> fetches + 1, events |-> ring]
    OBVIOUS
  <2>3. UNCHANGED pushes \/ pushes' = Append(pushes, c)
    BY <1>9, <2>2, AnswerFacts DEF MovePlayhead, Ask, Fetch
  <2>4. AllTell(pushes', E)
    <3>1. CASE UNCHANGED pushes
      BY <1>1, <3>1 DEF Seen
    <3>2. CASE pushes' = Append(pushes, c)
      BY <1>6, <2>2, <3>2
    <3> QED
      BY <2>3, <3>1, <3>2
  <2>5. \/ cache' = None
        \/ cache' = cache /\ replay' = replay
        \/ cache' = cache /\ \E id, r : replay' = Replay(cache, id, r)
    BY <1>9 DEF MovePlayhead, Rescrub
  <2>6. ReplayInv'
    BY <2>5, ReplayIs DEF PlayInv, ReplayInv
  <2> QED
    BY <1>1, <1>5, <2>1, <2>4, <2>5, <2>6, PlayKept DEF Seen
<1>10. CASE Reload
  <2>1. view' = EmptyProjection /\ cache' = None /\ pushes' = <<>>
    BY <1>10 DEF Reload, RendererStart
  <2>2. FromStart(view', E)
    BY <2>1 DEF FromStart, EmptyProjection
  <2>3. Len(<<>>) = 0 /\ 1..0 = {}
    BY EmptySeq
  <2>4. AllTell(pushes', E)
    BY <2>1, <2>3 DEF AllTell
  <2>5. ReplayInv'
    BY <2>1 DEF ReplayInv
  <2> QED
    BY <1>1, <1>5, <2>1, <2>2, <2>4, <2>5, PlayKept
<1> QED
  BY <1>7, <1>8, <1>9, <1>10

LEMMA PlayTakes ==
    ASSUME StoreInv, PlayInv, RendererTakes
    PROVE  PlayInv'
<1>1. PICK E : Seen(E)
  BY DEF PlayInv
<1>2. PICK M, R : Held(M, R)
  BY DEF StoreInv, RecordsInv
<1>3. PICK C : C = Channel(M, R)
  OBVIOUS
<1>4. pushes \in Seq(C) /\ pushes # <<>>
  BY <1>2, <1>3 DEF Held, RendererTakes
<1>5. unchangedStore /\ UNCHANGED forgeVars
  BY DEF RendererTakes
<1>6. PICK m : m = pushes[1]
  OBVIOUS
<1>7. PICK u : u = Tail(pushes)
  OBVIOUS
<1>8. AllTell(u, E) /\ Tells(m, E) /\ u \in Seq(C) /\ m = Head(pushes)
  BY <1>1, <1>4, <1>6, <1>7, TellsTail, TailFacts DEF Seen
<1>9. ASSUME NEW c, c.kind # "replay" \/ c.events = ring, c.kind # "projection",
             c.kind = "snapshot" => c.value = projection, pushes' = Append(u, c)
      PROVE  AllTell(pushes', E)
  BY <1>1, <1>8, <1>9, AnswersTell, TellsAppend
<1>10. AllTell(pushes', E)
  <2>1. \/ pushes' = u
        \/ pushes' = Append(u, [kind |-> "replay", tag |-> fetches + 1, events |-> ring])
        \/ pushes' = Append(u, [kind |-> "backfill",
                                records |-> QueryLogs(None, BackfillLimit)])
        \/ pushes' = Append(u, [kind |-> "history", run |-> m.run,
                                records |-> QueryLogs(m.run, LogLimit)])
    BY <1>4, <1>6, <1>7, WhatIsTaken
  <2>2. CASE pushes' = u
    BY <1>8, <2>2
  <2>3. CASE pushes' = Append(u, [kind |-> "replay", tag |-> fetches + 1, events |-> ring])
    <3>1. PICK c : c = [kind |-> "replay", tag |-> fetches + 1, events |-> ring]
      OBVIOUS
    <3> QED
      BY <1>9, <2>3, <3>1
  <2>4. CASE pushes' = Append(u, [kind |-> "backfill",
                                  records |-> QueryLogs(None, BackfillLimit)])
    <3>1. PICK c : c = [kind |-> "backfill", records |-> QueryLogs(None, BackfillLimit)]
      OBVIOUS
    <3> QED
      BY <1>9, <2>4, <3>1
  <2>5. CASE pushes' = Append(u, [kind |-> "history", run |-> m.run,
                                  records |-> QueryLogs(m.run, LogLimit)])
    <3>1. PICK c : c = [kind |-> "history", run |-> m.run,
                        records |-> QueryLogs(m.run, LogLimit)]
      OBVIOUS
    <3> QED
      BY <1>9, <2>5, <3>1
  <2> QED
    BY <2>1, <2>2, <2>3, <2>4, <2>5
<1>11. ASSUME UNCHANGED <<view, cache, replay>>
       PROVE  PlayInv'
  <2>1. ReplayInv'
    BY <1>11 DEF PlayInv, ReplayInv
  <2> QED
    BY <1>1, <1>5, <1>10, <1>11, <2>1, PlayKept DEF Seen
<1>12. CASE OnProjection(m)
  <2>1. m.kind = "projection" /\ view' \in {view, m.state}
    BY <1>12 DEF OnProjection
  <2>2. FromStart(view', E)
    BY <1>1, <1>8, <2>1 DEF Tells, Seen
  <2>3. \/ cache' = cache /\ replay' = replay
        \/ cache' = None
        \/ cache' = cache /\ \E id, r : replay' = Replay(cache, id, r)
    BY <1>12 DEF OnProjection, Rescrub
  <2>4. ReplayInv'
    BY <2>3, ReplayIs DEF PlayInv, ReplayInv
  <2> QED
    BY <1>1, <1>5, <1>10, <2>2, <2>3, <2>4, PlayKept DEF Seen
<1>13. CASE OnSnapshot(m)
  <2>1. m.kind = "snapshot" /\ view' = m.value /\ UNCHANGED <<cache, replay>>
    BY <1>13 DEF OnSnapshot
  <2>2. FromStart(view', E)
    BY <1>8, <2>1 DEF Tells
  <2>3. ReplayInv'
    BY <2>1 DEF PlayInv, ReplayInv
  <2> QED
    BY <1>1, <1>5, <1>10, <2>1, <2>2, <2>3, PlayKept DEF Seen
<1>14. CASE OnReplayEvents(m)
  <2>1. /\ m.kind = "replay" /\ UNCHANGED view
        /\ \/ UNCHANGED <<cache, replay>>
           \/ cache' = m.events /\ replay' = Replay(m.events, scrub, ShownRun)
    BY <1>14 DEF OnReplayEvents
  <2>2. CASE UNCHANGED <<cache, replay>>
    BY <1>11, <2>1, <2>2
  <2>3. CASE cache' = m.events /\ replay' = Replay(m.events, scrub, ShownRun)
    <3>1. cache' \in Seq(E)
      BY <1>8, <2>1, <2>3 DEF Tells
    <3>2. ReplayInv'
      BY <2>3, ReplayIs DEF ReplayInv
    <3> QED
      BY <1>1, <1>5, <1>10, <2>1, <3>1, <3>2, PlayKept DEF Seen
  <2> QED
    BY <2>1, <2>2, <2>3
<1>15. CASE OnLogs(m) \/ OnEvents(m) \/ OnBackfill(m) \/ OnScope(m) \/ OnHistory(m)
  <2>1. UNCHANGED <<view, cache, replay>>
    BY <1>15 DEF OnLogs, OnEvents, OnBackfill, OnScope, OnHistory
  <2> QED
    BY <1>11, <2>1
<1> QED
  BY <1>8, <1>12, <1>13, <1>14, <1>15 DEF RendererTakes

LEMMA PlayStep == StoreInv /\ PlayInv /\ [Next]_vars => PlayInv'
<1> SUFFICES ASSUME StoreInv, PlayInv, [Next]_vars PROVE PlayInv'
  OBVIOUS
<1>1. CASE UNCHANGED vars
  <2>1. PICK E : Seen(E)
    BY DEF PlayInv
  <2>2. unchangedStore /\ UNCHANGED <<forgeVars, view, cache, replay, pushes>>
    BY <1>1 DEF vars, storeVars, rendererVars, unchangedStore
  <2>3. ReplayInv'
    BY <2>2 DEF PlayInv, ReplayInv
  <2> QED
    BY <2>1, <2>2, <2>3, PlayKept DEF Seen
<1> QED
  BY <1>1, PlayArrive, PlayMain, PlayUser, PlayTakes DEF Next

(***************************************************************************)
(* The playhead at the last event shows the live run: the replay of the    *)
(* events fetched, from nothing, and the batches folded as they came are   *)
(* the same projection, whatever was cleared, reloaded or restarted        *)
(* meanwhile, if the events fetched are the whole of the session shown.    *)
(***************************************************************************)
THEOREM TheEndOfTheReplayIsLive == Spec => []PlayheadAtTheEndIsLive
<1>1. PlayInv => PlayheadAtTheEndIsLive
  <2> SUFFICES ASSUME PlayInv, replay # None, cache # None, WholeLog(cache),
                      view.count = Len(cache), view.last = Len(cache),
                      view.session = cache[1].session, scrub = Len(cache), replay.id = scrub,
                      replay.of = ShownRun, ShownRun \in DOMAIN view.runs
               PROVE  replay.run = view.runs[ShownRun]
    BY DEF PlayheadAtTheEndIsLive
  <2>1. PICK E : Seen(E)
    BY DEF PlayInv
  <2>2. PICK c \in Seq(E) : c = cache
    BY <2>1 DEF Seen
  <2>3. PICK n \in Nat : n = Len(c)
    BY <2>2
  <2>4. c # <<>> /\ DOMAIN c = 1..n /\ 1 \in 1..n
    BY <2>2, <2>3 DEF WholeLog
  <2>5. \A i \in 1..n : c[i] \in E /\ c[i].id = i /\ c[i].session = c[1].session
    BY <2>2, <2>3, <2>4 DEF WholeLog
  <2>6. E \subseteq Arriving /\ \A a, b \in E : a.session = b.session /\ a.id = b.id => a = b
    BY <2>1 DEF Seen, Named
  <2>7. view.session # None /\ view.session = c[1].session
    BY <2>2, <2>4, <2>5, <2>6, SessionsAreNamed
  <2>8. view.count = view.last /\ view.last = n
    BY <2>2, <2>3
  <2>9. PICK h \in Seq(E) : /\ Len(h) = n /\ view = Folded(EmptyProjection, h)
                            /\ \A i \in 1..n : h[i].id = i /\ h[i].session = view.session
    BY <2>1, <2>7, <2>8 DEF Seen, FromStart
  <2>10. h = c
    <3>1. \A i \in 1..n : h[i] = c[i]
      BY <2>5, <2>6, <2>7, <2>9
    <3> QED
      BY <2>3, <2>9, <3>1, SeqEqual
  <2>11. ReplayTo(c, n) = view
    <3>1. c \in Seq(Arriving)
      BY <2>6, SeqMonotonic
    <3>2. PICK those : those = {e \in Range(c) : e.id <= n}
      OBVIOUS
    <3>3. \A i \in 1..Len(c) : c[i] \in those
      <4>1. \A i \in 1..n : c[i] \in Range(c) /\ c[i].id <= n
        BY <2>4, <2>5 DEF Range
      <4> QED
        BY <2>3, <3>2, <4>1
    <3>4. ReplayTo(c, n) = ApplyEvents(EmptyProjection, c)
      BY <3>1, <3>2, <3>3, KeptAll DEF ReplayTo
    <3>5. Elsewhere(c) = {}
      BY <2>3, <2>4, <2>5 DEF Elsewhere
    <3>6. SessionStart(c) = 1 /\ SubSeq(c, 1, Len(c)) = c
      <4>1. SessionStart(c) = 1
        BY <2>4, <3>1, <3>5, BatchFacts
      <4>2. SubSeq(c, 1, Len(c)) = c
        BY <3>1, <2>4
      <4> QED
        BY <4>1, <4>2
    <3>7. ApplyEvents(EmptyProjection, c) = Folded(EmptyProjection, c)
      BY <2>4, <3>1, <3>6, BatchFacts
    <3> QED
      BY <2>9, <2>10, <3>4, <3>7
  <2>12. replay = Replay(c, n, ShownRun)
    BY <2>2, <2>3 DEF PlayInv, ReplayInv
  <2> QED
    BY <2>11, <2>12 DEF Replay
<1> QED
  BY <1>1, StoreInit, StoreStep, PlayInit, PlayStep, PTL DEF Spec
=============================================================================
