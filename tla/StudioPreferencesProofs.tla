------------------------ MODULE StudioPreferencesProofs -----------------------
(***************************************************************************)
(* Proofs about StudioPreferences, for every set of addresses, schemes,    *)
(* profiles, layouts and files, and for every bound.                       *)
(***************************************************************************)
EXTENDS StudioPreferences, WellFoundedInduction, TLAPS

-----------------------------------------------------------------------------
(* Lists.                                                                   *)

(***************************************************************************)
(* What holds of no number below a least one: a set of numbers that is not *)
(* empty has a least element, the form of induction used below.            *)
(***************************************************************************)
LEMMA LeastNumber ==
    ASSUME NEW T, T \subseteq Nat, T # {}
    PROVE  \E n \in T : \A m \in T : n <= m
<1>1. IsWellFoundedOn(OpToRel(<, Nat), Nat)
  BY NatLessThanWellFounded
<1>2. \E n \in T : \A m \in T : ~ (<<m, n>> \in OpToRel(<, Nat))
  BY <1>1, WFMin
<1>3. \E n \in T : \A m \in T : ~ (m < n)
  BY <1>2 DEF OpToRel
<1> QED
  BY <1>3

(***************************************************************************)
(* filter() exists: the function Keeping is computed by, step by step.     *)
(***************************************************************************)
KeepStep(tabs, S, g, n) ==
    IF n = 0 THEN <<>>
    ELSE IF tabs[n] \in S THEN Append(g[n - 1], tabs[n]) ELSE g[n - 1]
IsKept(tabs, S, g, m) ==
    /\ g = [n \in 0..m |-> g[n]]
    /\ \A n \in 0..m : g[n] = KeepStep(tabs, S, g, n)

LEMMA KeptExists ==
    ASSUME NEW tabs, NEW S, NEW m \in Nat
    PROVE  \E g : IsKept(tabs, S, g, m)
<1> DEFINE T == {n \in Nat : ~ \E g : IsKept(tabs, S, g, n)}
<1>1. SUFFICES ASSUME T # {} PROVE FALSE
  OBVIOUS
<1>2. PICK n \in T : \A k \in T : n <= k
  BY <1>1, LeastNumber
<1>3. CASE n = 0
  <2> DEFINE g == [k \in 0..0 |-> <<>>]
  <2>1. IsKept(tabs, S, g, 0)
    BY DEF IsKept, KeepStep
  <2> QED
    BY <2>1, <1>2, <1>3
<1>4. CASE n # 0
  <2>1. n \in Nat /\ n - 1 \in Nat /\ n - 1 \notin T
    BY <1>2, <1>4
  <2>2. PICK g : IsKept(tabs, S, g, n - 1)
    BY <2>1
  <2> DEFINE h == [k \in 0..n |-> IF k = n THEN KeepStep(tabs, S, g, n) ELSE g[k]]
  <2>3. \A k \in 0..(n - 1) : g[k] = KeepStep(tabs, S, g, k)
    BY <2>2 DEF IsKept
  <2>4. h[n] = KeepStep(tabs, S, g, n) /\ \A k \in 0..(n - 1) : h[k] = g[k]
    BY <2>1
  <2>5. h = [k \in 0..n |-> h[k]]
    OBVIOUS
  <2> HIDE DEF h
  <2>6. ASSUME NEW k \in 0..n
        PROVE  h[k] = KeepStep(tabs, S, h, k)
    <3>1. CASE k = n
      <4>1. n - 1 \in 0..(n - 1) /\ k # 0
        BY <2>1, <3>1, <1>4
      <4> QED
        BY <4>1, <2>4, <3>1 DEF KeepStep
    <3>2. CASE k < n /\ k # 0
      <4>1. k - 1 \in 0..(n - 1) /\ k \in 0..(n - 1)
        BY <3>2, <2>1
      <4> QED
        BY <4>1, <2>3, <2>4, <3>2 DEF KeepStep
    <3>3. CASE k = 0
      <4>1. k \in 0..(n - 1)
        BY <2>1, <3>3
      <4> QED
        BY <4>1, <3>3, <2>3, <2>4 DEF KeepStep
    <3> QED
      BY <3>1, <3>2, <3>3, <2>1
  <2>7. IsKept(tabs, S, h, n)
    BY <2>5, <2>6 DEF IsKept
  <2> QED
    BY <2>7, <1>2
<1> QED
  BY <1>3, <1>4

(***************************************************************************)
(* The function Keeping ends with.                                         *)
(***************************************************************************)
LEMMA KeptDef ==
    ASSUME NEW tabs, NEW S, Len(tabs) \in Nat
    PROVE  \E g : IsKept(tabs, S, g, Len(tabs)) /\ Keeping(tabs, S) = g[Len(tabs)]
<1> DEFINE Body(g) == [n \in 0..Len(tabs) |->
                          IF n = 0 THEN <<>>
                          ELSE IF tabs[n] \in S THEN Append(g[n - 1], tabs[n]) ELSE g[n - 1]]
<1> DEFINE kept == CHOOSE g : g = Body(g)
<1>1. \E g : g = Body(g)
  <2>1. PICK g : IsKept(tabs, S, g, Len(tabs))
    BY KeptExists
  <2>2. \A n \in 0..Len(tabs) : g[n] = Body(g)[n]
    BY <2>1 DEF IsKept, KeepStep
  <2>3. [n \in 0..Len(tabs) |-> g[n]] = Body(g)
    BY <2>2
  <2>4. g = Body(g)
    BY <2>1, <2>3 DEF IsKept
  <2> QED
    BY <2>4
<1>2. kept = Body(kept)
  BY <1>1
<1>3. Keeping(tabs, S) = kept[Len(tabs)]
  BY DEF Keeping
<1> HIDE DEF kept
<1>4. IsKept(tabs, S, kept, Len(tabs))
  BY <1>2 DEF IsKept, KeepStep
<1> QED
  BY <1>3, <1>4

(***************************************************************************)
(* filter() keeps the elements of S, all of them, and no other; and the    *)
(* elements before the first one it drops keep their places.               *)
(***************************************************************************)
LEMMA KeepingFacts ==
    ASSUME NEW X, NEW tabs \in Seq(X), NEW S
    PROVE  /\ Keeping(tabs, S) \in Seq(X \cap S)
           /\ \A i \in 1..Len(tabs) : tabs[i] \in S =>
                 \E j \in 1..Len(Keeping(tabs, S)) : Keeping(tabs, S)[j] = tabs[i]
           /\ \A m \in 0..Len(tabs) :
                 (\A i \in 1..m : tabs[i] \in S) => m <= Len(Keeping(tabs, S))
<1>1. PICK g : IsKept(tabs, S, g, Len(tabs)) /\ Keeping(tabs, S) = g[Len(tabs)]
  <2>1. Len(tabs) \in Nat
    OBVIOUS
  <2> QED
    BY <2>1, KeptDef
<1>2. \A n \in 0..Len(tabs) : g[n] = KeepStep(tabs, S, g, n)
  BY <1>1 DEF IsKept
<1> DEFINE P(n) == /\ g[n] \in Seq(X \cap S)
                   /\ \A i \in 1..n : tabs[i] \in S =>
                         \E j \in 1..Len(g[n]) : g[n][j] = tabs[i]
                   /\ \A m \in 0..n : (\A i \in 1..m : tabs[i] \in S) => m <= Len(g[n])
<1> DEFINE T == {n \in Nat : n <= Len(tabs) /\ ~P(n)}
<1>3. SUFFICES ASSUME T # {} PROVE FALSE
  <2>1. Len(tabs) \in Nat
    OBVIOUS
  <2> HIDE DEF P
  <2>2. Len(tabs) \notin T => P(Len(tabs))
    BY <2>1
  <2>3. CASE T = {}
    <3>1. P(Len(tabs))
      BY <2>2, <2>3
    <3> QED
      BY <3>1, <1>1 DEF P
  <2> QED
    BY <2>3
<1>4. PICK n \in T : \A k \in T : n <= k
  BY <1>3, LeastNumber
<1>5. n \in 0..Len(tabs) /\ ~P(n)
  BY <1>4
<1> HIDE DEF T
<1>6. CASE n = 0
  <2>1. g[n] = <<>>
    BY <1>2, <1>5, <1>6 DEF KeepStep
  <2>2. <<>> \in Seq(X \cap S) /\ 1..n = {} /\ 0..n = {0} /\ Len(<<>>) = 0
    BY <1>6
  <2> QED
    BY <2>1, <2>2, <1>5
<1>7. CASE n # 0
  <2>1. n - 1 \in 0..Len(tabs) /\ P(n - 1)
    BY <1>4, <1>5, <1>7 DEF T
  <2>2. tabs[n] \in X
    BY <1>5, <1>7
  <2>3. CASE tabs[n] \in S
    <3>1. g[n] = Append(g[n - 1], tabs[n])
      BY <1>2, <1>5, <1>7, <2>3 DEF KeepStep
    <3>2. g[n] \in Seq(X \cap S) /\ Len(g[n]) = Len(g[n - 1]) + 1
      BY <3>1, <2>1, <2>2, <2>3
    <3>3. \A j \in 1..Len(g[n - 1]) : g[n][j] = g[n - 1][j]
      BY <3>1, <2>1
    <3>4. g[n][Len(g[n])] = tabs[n] /\ Len(g[n]) \in 1..Len(g[n])
      BY <3>1, <2>1, <2>2, <2>3
    <3>5. ASSUME NEW i \in 1..n, tabs[i] \in S
          PROVE  \E j \in 1..Len(g[n]) : g[n][j] = tabs[i]
      <4>1. CASE i = n
        BY <4>1, <3>4
      <4>2. CASE i # n
        <5>1. i \in 1..(n - 1)
          BY <4>2, <1>5
        <5>2. PICK j \in 1..Len(g[n - 1]) : g[n - 1][j] = tabs[i]
          BY <5>1, <3>5, <2>1
        <5> QED
          BY <5>2, <3>2, <3>3, <2>1
      <4> QED
        BY <4>1, <4>2
    <3>6. ASSUME NEW m \in 0..n, \A i \in 1..m : tabs[i] \in S
          PROVE  m <= Len(g[n])
      <4>1. CASE m = n
        <5>1. n - 1 \in 0..(n - 1) /\ \A i \in 1..(n - 1) : i \in 1..m
          BY <1>5, <1>7, <4>1
        <5>2. n - 1 <= Len(g[n - 1])
          BY <5>1, <3>6, <2>1
        <5> QED
          BY <5>2, <3>2, <4>1, <1>5, <2>1
      <4>2. CASE m # n
        <5>1. m \in 0..(n - 1)
          BY <4>2, <1>5
        <5>2. m <= Len(g[n - 1])
          BY <5>1, <3>6, <2>1
        <5> QED
          BY <5>2, <3>2, <2>1
      <4> QED
        BY <4>1, <4>2
    <3> QED
      BY <3>2, <3>5, <3>6, <1>5
  <2>4. CASE tabs[n] \notin S
    <3>1. g[n] = g[n - 1]
      BY <1>2, <1>5, <1>7, <2>4 DEF KeepStep
    <3>2. \A i \in 1..n : tabs[i] \in S => i \in 1..(n - 1)
      BY <2>4, <1>5
    <3>3. ASSUME NEW m \in 0..n, \A i \in 1..m : tabs[i] \in S
          PROVE  m \in 0..(n - 1)
      BY <3>3, <2>4, <1>5, <1>7
    <3> QED
      BY <3>1, <3>2, <3>3, <2>1, <1>5
  <2> QED
    BY <2>3, <2>4
<1> QED
  BY <1>6, <1>7

-----------------------------------------------------------------------------
(* What the settings are made of.                                           *)

SoundSchemes == {c \in Schemes : ValidSchemes(c)}
Snapshots == [theme : Themes, nodes : BOOLEAN, schemes : SoundSchemes, address : Addresses]
SoundProfiles ==
    {p \in [of : Partial(ProfileIds, Snapshots), active : ProfileIds \union {None}] :
        p.active = None \/ p.active \in DOMAIN p.of}
(* The graph is never closed.                                               *)
Strips ==
    {a \in [tabs : Seq(Surfaces), active : Surfaces] : IsOpen(a, GraphTab) /\ ActiveIsThere(a)}
SoundSettings ==
    [address : Local, theme : Themes, nodes : BOOLEAN, forge : BOOLEAN, cwd : Roots,
     logs : BOOLEAN, schemes : SoundSchemes, profiles : SoundProfiles, layout : Strips,
     saved : Partial(LayoutIds, Strips)]

-----------------------------------------------------------------------------
(* The invariant.                                                           *)

(* Every copy of the settings, wherever it is, is sound.                    *)
SettingsTyped ==
    /\ settings \in SoundSettings /\ disk \in SoundSettings /\ pushes \in Seq(SoundSettings)
    /\ Shown => copy \in SoundSettings
    /\ Len(pushes) <= MaxPushes
    /\ root \in Roots /\ failures \in 0..MaxFailures /\ edits \in 0..MaxEdits
    /\ ui \in Strips /\ armed \in BOOLEAN /\ owed \in 0..NotOwed /\ behind \subseteq Sections

FileIsCurrent == failures = 0 => disk = settings

(* What the views will show once every push on its way has arrived.         *)
Latest == IF pushes = <<>> THEN copy ELSE pushes[Len(pushes)]
LatestIsCurrent == Shown => \A f \in Fields \ {"address"} : Latest[f] = settings[f]

(* The arrangements a patch may write back: the one on the screen, the one  *)
(* of the copy, and those of the copies to come.                            *)
LayoutsAreTheUsers ==
    /\ settings.layout \in had
    /\ Shown => /\ ui \in had /\ copy.layout \in had
                /\ \A i \in 1..Len(pushes) : pushes[i].layout \in had

PrefsInv ==
    /\ SettingsTyped /\ FileIsCurrent /\ EditsAreKept /\ LatestIsCurrent /\ LayoutsAreTheUsers

-----------------------------------------------------------------------------
(* Lists of named things.                                                   *)

LEMMA PartialIn ==
    ASSUME NEW S, NEW T, NEW F, F = [i \in DOMAIN F |-> F[i]],
           DOMAIN F \subseteq S, \A i \in DOMAIN F : F[i] \in T
    PROVE  F \in Partial(S, T)
<1>1. F \in [DOMAIN F -> T] /\ DOMAIN F \in SUBSET S
  OBVIOUS
<1> QED
  BY <1>1 DEF Partial

LEMMA PartialOut ==
    ASSUME NEW S, NEW T, NEW F \in Partial(S, T)
    PROVE  /\ F = [i \in DOMAIN F |-> F[i]] /\ DOMAIN F \subseteq S
           /\ \A i \in DOMAIN F : F[i] \in T
<1>1. PICK D \in SUBSET S : F \in [D -> T]
  BY DEF Partial
<1> QED
  BY <1>1

LEMMA NothingIsPartial ==
    ASSUME NEW S, NEW T
    PROVE  <<>> \in Partial(S, T) /\ DOMAIN <<>> = {}
<1>1. <<>> \in [{} -> T] /\ {} \in SUBSET S
  OBVIOUS
<1> QED
  BY <1>1 DEF Partial

LEMMA WithDomain ==
    ASSUME NEW F, NEW id, NEW x
    PROVE  DOMAIN With(F, id, x) = DOMAIN F \union {id}
  BY DEF With

LEMMA WithIsPartial ==
    ASSUME NEW S, NEW T, NEW F \in Partial(S, T), NEW id \in S, NEW x \in T
    PROVE  With(F, id, x) \in Partial(S, T)
<1> DEFINE G == With(F, id, x)
<1>1. G = [i \in DOMAIN F \union {id} |-> IF i = id THEN x ELSE F[i]]
  BY DEF With
<1> HIDE DEF G
<1>2. DOMAIN G = DOMAIN F \union {id} /\ G = [i \in DOMAIN G |-> G[i]]
  BY <1>1
<1>3. DOMAIN F \subseteq S /\ \A i \in DOMAIN F : F[i] \in T
  BY PartialOut
<1>4. DOMAIN G \subseteq S /\ \A i \in DOMAIN G : G[i] \in T
  BY <1>1, <1>2, <1>3
<1>5. G \in Partial(S, T)
  BY <1>2, <1>4, PartialIn
<1> QED
  BY <1>2, <1>5 DEF G

LEMMA RestIsPartial ==
    ASSUME NEW S, NEW T, NEW F \in Partial(S, T), NEW id
    PROVE  [i \in DOMAIN F \ {id} |-> F[i]] \in Partial(S, T)
<1> DEFINE G == [i \in DOMAIN F \ {id} |-> F[i]]
<1>1. DOMAIN F \subseteq S /\ \A i \in DOMAIN F : F[i] \in T
  BY PartialOut
<1>2. G = [i \in DOMAIN G |-> G[i]] /\ DOMAIN G \subseteq S /\ \A i \in DOMAIN G : G[i] \in T
  BY <1>1
<1> QED
  BY <1>2, PartialIn

-----------------------------------------------------------------------------
(* The tabs: whatever is opened, closed, restored or saved, the graph stays *)
(* and the active tab is one of the tabs.                                   *)

LEMMA StripIn ==
    ASSUME NEW t \in Seq(Surfaces), NEW x \in Surfaces,
           \E i \in DOMAIN t : t[i] = GraphTab, \E i \in DOMAIN t : t[i] = x
    PROVE  [tabs |-> t, active |-> x] \in Strips
  BY DEF Strips, IsOpen, ActiveIsThere

LEMMA FirstStrip == FirstArrangement \in Strips
  BY DEF FirstArrangement, Strips, IsOpen, ActiveIsThere, Surfaces

LEMMA RestoredStrip ==
    ASSUME NEW a \in Strips
    PROVE  Restored(a) = a
  BY DEF Strips, Restored, IsOpen

LEMMA ActiveStrip ==
    ASSUME NEW a \in Strips, NEW f \in Surfaces, IsOpen(a, f)
    PROVE  [a EXCEPT !.active = f] \in Strips
  BY DEF Strips, IsOpen, ActiveIsThere

LEMMA OpenedStrip ==
    ASSUME NEW a \in Strips, NEW f \in Files
    PROVE  Opened(a, f) \in Strips
<1>1. a.tabs \in Seq(Surfaces) /\ f \in Surfaces /\ IsOpen(a, GraphTab)
  BY DEF Strips, Surfaces
<1>2. CASE IsOpen(a, f)
  BY <1>1, <1>2 DEF Opened, Strips, IsOpen, ActiveIsThere
<1>3. CASE ~IsOpen(a, f)
  <2> DEFINE t == Append(a.tabs, f)
  <2>1. Opened(a, f) = [tabs |-> t, active |-> f]
    BY <1>3 DEF Opened
  <2>2. t \in Seq(Surfaces) /\ DOMAIN t = 1..(Len(a.tabs) + 1) /\ DOMAIN a.tabs = 1..Len(a.tabs)
        /\ Len(a.tabs) \in Nat
    BY <1>1
  <2>3. t[Len(a.tabs) + 1] = f /\ \A i \in 1..Len(a.tabs) : t[i] = a.tabs[i]
    BY <1>1
  <2> HIDE DEF t
  <2>4. \E i \in DOMAIN t : t[i] = f
    BY <2>2, <2>3
  <2>5. PICK i \in DOMAIN a.tabs : a.tabs[i] = GraphTab
    BY <1>1 DEF IsOpen
  <2>6. i \in DOMAIN t /\ t[i] = GraphTab
    BY <2>2, <2>3, <2>5
  <2> QED
    BY <1>1, <2>1, <2>2, <2>4, <2>6, StripIn
<1> QED
  BY <1>2, <1>3

(***************************************************************************)
(* What filter() leaves open.                                              *)
(***************************************************************************)
LEMMA KeepingIsOpen ==
    ASSUME NEW a \in Strips, NEW S \in SUBSET Surfaces
    PROVE  /\ Keeping(a.tabs, S) \in Seq(Surfaces)
           /\ DOMAIN Keeping(a.tabs, S) = 1..Len(Keeping(a.tabs, S))
           /\ \A i \in DOMAIN Keeping(a.tabs, S) : Keeping(a.tabs, S)[i] \in S
           /\ \A f \in S : IsOpen(a, f) =>
                 \E i \in DOMAIN Keeping(a.tabs, S) : Keeping(a.tabs, S)[i] = f
<1> DEFINE k == Keeping(a.tabs, S)
<1>1. a.tabs \in Seq(Surfaces)
  BY DEF Strips
<1>2. /\ k \in Seq(Surfaces \cap S)
      /\ \A i \in 1..Len(a.tabs) : a.tabs[i] \in S => \E j \in 1..Len(k) : k[j] = a.tabs[i]
  BY <1>1, KeepingFacts
<1> HIDE DEF k
<1>3. k \in Seq(S) /\ k \in Seq(Surfaces) /\ DOMAIN k = 1..Len(k)
  <2>1. Surfaces \cap S = S
    OBVIOUS
  <2> QED
    BY <1>2, <2>1
<1>4. DOMAIN a.tabs = 1..Len(a.tabs)
  BY <1>1
<1> QED
  BY <1>2, <1>3, <1>4 DEF IsOpen, k

LEMMA SavedStrip ==
    ASSUME NEW a \in Strips
    PROVE  Saved(a) \in Strips
<1> DEFINE k == Keeping(a.tabs, Surfaces \ Inline)
<1>1. GraphTab \in Surfaces \ Inline /\ a.active \in Surfaces /\ IsOpen(a, GraphTab)
  BY SettingsAssumption DEF Surfaces, Strips
<1>2. /\ k \in Seq(Surfaces)
      /\ \E i \in DOMAIN k : k[i] = GraphTab
  BY <1>1, KeepingIsOpen
<1>3. k # <<>>
  BY <1>2
<1>4. Saved(a) = [tabs |-> k,
                  active |-> IF \E i \in DOMAIN k : k[i] = a.active THEN a.active ELSE GraphTab]
  BY <1>3 DEF Saved
<1> DEFINE x == IF \E i \in DOMAIN k : k[i] = a.active THEN a.active ELSE GraphTab
<1>5. x \in Surfaces /\ \E i \in DOMAIN k : k[i] = x
  BY <1>1, <1>2
<1> HIDE DEF x
<1>6. Saved(a) = [tabs |-> k, active |-> x]
  BY <1>4 DEF x
<1> HIDE DEF k
<1> QED
  BY <1>2, <1>5, <1>6, StripIn

LEMMA ClosedStrip ==
    ASSUME NEW a \in Strips, NEW f \in Files
    PROVE  Closed(a, f) \in Strips
<1>1. f # GraphTab /\ f \in Surfaces /\ GraphTab \in Surfaces \ {f}
  BY SettingsAssumption DEF Surfaces
<1>2. CASE ~IsOpen(a, f)
  BY <1>2 DEF Closed
<1>3. CASE IsOpen(a, f)
  <2> DEFINE First(i) == a.tabs[i] = f /\ \A j \in 1..(i - 1) : a.tabs[j] # f
             index == CHOOSE i \in DOMAIN a.tabs : First(i)
             rest == Keeping(a.tabs, Surfaces \ {f})
             before == IF index > 1 THEN rest[index - 1]
                       ELSE IF rest # <<>> THEN rest[1] ELSE GraphTab
  <2>1. /\ a.tabs \in Seq(Surfaces) /\ DOMAIN a.tabs = 1..Len(a.tabs) /\ Len(a.tabs) \in Nat
        /\ IsOpen(a, GraphTab) /\ ActiveIsThere(a) /\ a.active \in Surfaces
    BY DEF Strips
  <2>2. \E i \in DOMAIN a.tabs : First(i)
    <3> DEFINE T == {i \in DOMAIN a.tabs : a.tabs[i] = f}
    <3>1. T # {} /\ T \subseteq Nat
      BY <1>3, <2>1 DEF IsOpen
    <3>2. PICK i \in T : \A j \in T : i <= j
      BY <3>1, LeastNumber
    <3>3. ASSUME NEW j \in 1..(i - 1), a.tabs[j] = f
          PROVE  FALSE
      BY <3>2, <3>3, <2>1
    <3> QED
      BY <3>2, <3>3
  <2>3. index \in DOMAIN a.tabs /\ First(index)
    BY <2>2
  <2>4. /\ rest \in Seq(Surfaces) /\ DOMAIN rest = 1..Len(rest)
        /\ \A x \in Surfaces \ {f} : IsOpen(a, x) => \E i \in DOMAIN rest : rest[i] = x
    BY KeepingIsOpen
  <2>5. index > 1 => index - 1 \in DOMAIN rest
    <3>1. \A m \in 0..Len(a.tabs) :
             (\A i \in 1..m : a.tabs[i] \in Surfaces \ {f}) => m <= Len(rest)
      BY <2>1, KeepingFacts
    <3>2. \A i \in 1..(index - 1) : a.tabs[i] \in Surfaces \ {f}
      BY <2>1, <2>3
    <3>3. index - 1 \in 0..Len(a.tabs)
      BY <2>1, <2>3
    <3>4. index - 1 <= Len(rest)
      BY <3>1, <3>2, <3>3
    <3> QED
      <4> HIDE DEF index, rest, First
      <4>1. index \in Nat /\ Len(rest) \in Nat
        BY <2>1, <2>3, <2>4
      <4>2. index > 1 => index - 1 \in 1..Len(rest)
        BY <4>1, <3>4
      <4> QED
        BY <4>2, <2>4
  <2>6. Closed(a, f) = [tabs |-> IF rest = <<>> THEN <<GraphTab>> ELSE rest,
                        active |-> IF a.active = f THEN before ELSE a.active]
    BY <1>1, <1>3 DEF Closed
  <2> HIDE DEF index, rest, First
  <2>7. \E i \in DOMAIN rest : rest[i] = GraphTab
    BY <1>1, <2>1, <2>4
  <2>8. rest # <<>> /\ 1 \in DOMAIN rest
    BY <2>4, <2>7
  <2>9. \E i \in DOMAIN rest : rest[i] = before
    BY <2>5, <2>8
  <2> HIDE DEF before
  <2>10. before \in Surfaces
    BY <2>4, <2>9
  <2>11. a.active # f => \E i \in DOMAIN rest : rest[i] = a.active
    BY <2>1, <2>4 DEF ActiveIsThere
  <2>12. Closed(a, f) = [tabs |-> rest, active |-> IF a.active = f THEN before ELSE a.active]
    BY <2>6, <2>8
  <2>13. CASE a.active = f
    BY <2>4, <2>7, <2>9, <2>10, <2>12, <2>13, StripIn
  <2>14. CASE a.active # f
    BY <2>1, <2>4, <2>7, <2>11, <2>12, <2>14, StripIn
  <2> QED
    BY <2>13, <2>14
<1> QED
  BY <1>2, <1>3

-----------------------------------------------------------------------------
(* Settings and patches.                                                    *)

LEMMA DefaultsAreSound ==
    ASSUME NEW r \in Roots
    PROVE  Defaults(r) \in SoundSettings
<1>1. (CHOOSE a \in Local : TRUE) \in Local
  BY SettingsAssumption
<1>2. NoSchemes \in SoundSchemes
  BY NothingIsPartial DEF NoSchemes, SoundSchemes, Schemes, ValidSchemes
<1>3. [of |-> <<>>, active |-> None] \in SoundProfiles
  BY NothingIsPartial DEF SoundProfiles
<1>4. <<>> \in Partial(LayoutIds, Strips)
  BY NothingIsPartial
<1> QED
  BY <1>1, <1>2, <1>3, <1>4, FirstStrip DEF Defaults, SoundSettings, Themes

LEMMA StripIsArrangement ==
    ASSUME NEW a \in Strips
    PROVE  IsArrangement(a) /\ ActiveIsThere(a)
  BY DEF Strips, IsArrangement

(***************************************************************************)
(* Sound settings are ones validate() accepts, and whose active tabs are   *)
(* there.                                                                  *)
(***************************************************************************)
LEMMA SoundIsValid ==
    ASSUME NEW s \in SoundSettings
    PROVE  /\ Valid(s) /\ DOMAIN s = Fields /\ s.theme \in Themes /\ s.schemes \in Schemes
           /\ ActiveIsThere(s.layout) /\ \A id \in DOMAIN s.saved : ActiveIsThere(s.saved[id])
<1>1. /\ DOMAIN s = Fields /\ s.address \in Local /\ s.theme \in Themes
      /\ s.schemes \in SoundSchemes /\ s.profiles \in SoundProfiles
      /\ s.layout \in Strips /\ s.saved \in Partial(LayoutIds, Strips)
  BY DEF SoundSettings, Fields
<1>2. s.schemes \in Schemes /\ ValidSchemes(s.schemes)
  BY <1>1 DEF SoundSchemes
<1>3. ValidProfiles(s.profiles)
  <2>1. s.profiles.of \in Partial(ProfileIds, Snapshots)
    BY <1>1 DEF SoundProfiles
  <2>2. \A id \in DOMAIN s.profiles.of : s.profiles.of[id] \in Snapshots
    BY <2>1, PartialOut
  <2> QED
    BY <1>1, <2>2 DEF SoundProfiles, Snapshots, SoundSchemes, ValidProfiles
<1>4. \A id \in DOMAIN s.saved : s.saved[id] \in Strips
  BY <1>1, PartialOut
<1>5. ValidLayouts(s) /\ ActiveIsThere(s.layout)
      /\ \A id \in DOMAIN s.saved : ActiveIsThere(s.saved[id])
  BY <1>1, <1>4, StripIsArrangement DEF ValidLayouts
<1> QED
  BY <1>1, <1>2, <1>3, <1>5 DEF Valid

(* A patch that writes no field but with a sound value; its address may be  *)
(* one that is not accepted.                                                *)
SoundPatch(p) ==
    /\ DOMAIN p \subseteq Fields
    /\ "theme" \in DOMAIN p => p.theme \in Themes
    /\ "nodes" \in DOMAIN p => p.nodes \in BOOLEAN
    /\ "forge" \in DOMAIN p => p.forge \in BOOLEAN
    /\ "cwd" \in DOMAIN p => p.cwd \in Roots
    /\ "logs" \in DOMAIN p => p.logs \in BOOLEAN
    /\ "schemes" \in DOMAIN p => p.schemes \in SoundSchemes
    /\ "profiles" \in DOMAIN p => p.profiles \in SoundProfiles
    /\ "layout" \in DOMAIN p => p.layout \in Strips
    /\ "saved" \in DOMAIN p => p.saved \in Partial(LayoutIds, Strips)

(* What the view sends is what the user means, wherever the copy it was     *)
(* made from is as the user left the section.                               *)
Meant(p, q) ==
    /\ DOMAIN p = DOMAIN q
    /\ \A f \in DOMAIN p : (f \in Sections => copy[f] = said[f]) => p[f] = q[f]

LEMMA MergedFields ==
    ASSUME NEW s, NEW p
    PROVE  /\ Merge(s, p) = [f \in Fields |-> Merge(s, p)[f]]
           /\ \A f \in Fields : Merge(s, p)[f] = IF f \in DOMAIN p THEN p[f] ELSE s[f]
  BY DEF Merge

(***************************************************************************)
(* Section by section, a sound patch leaves sound settings.                *)
(***************************************************************************)
LEMMA SoundMerge ==
    ASSUME NEW s \in SoundSettings, NEW p, SoundPatch(p),
           Accepted(p) \/ Valid(Merge(s, p))
    PROVE  Merge(s, p) \in SoundSettings
<1> DEFINE t == Merge(s, p)
<1>1. t = [f \in Fields |-> t[f]] /\ \A f \in Fields : t[f] = IF f \in DOMAIN p THEN p[f] ELSE s[f]
  BY MergedFields
<1>2. Valid(t) => t.address \in Local
  BY DEF Valid
<1> HIDE DEF t
<1>3. /\ t.theme = IF "theme" \in DOMAIN p THEN p.theme ELSE s.theme
      /\ t.nodes = IF "nodes" \in DOMAIN p THEN p.nodes ELSE s.nodes
      /\ t.forge = IF "forge" \in DOMAIN p THEN p.forge ELSE s.forge
      /\ t.cwd = IF "cwd" \in DOMAIN p THEN p.cwd ELSE s.cwd
      /\ t.logs = IF "logs" \in DOMAIN p THEN p.logs ELSE s.logs
      /\ t.schemes = IF "schemes" \in DOMAIN p THEN p.schemes ELSE s.schemes
      /\ t.profiles = IF "profiles" \in DOMAIN p THEN p.profiles ELSE s.profiles
      /\ t.layout = IF "layout" \in DOMAIN p THEN p.layout ELSE s.layout
      /\ t.saved = IF "saved" \in DOMAIN p THEN p.saved ELSE s.saved
      /\ t.address = IF "address" \in DOMAIN p THEN p.address ELSE s.address
  BY <1>1 DEF Fields
<1>4. /\ t.theme \in Themes /\ t.nodes \in BOOLEAN /\ t.forge \in BOOLEAN /\ t.cwd \in Roots
      /\ t.logs \in BOOLEAN /\ t.schemes \in SoundSchemes /\ t.profiles \in SoundProfiles
      /\ t.layout \in Strips /\ t.saved \in Partial(LayoutIds, Strips)
  BY <1>3 DEF SoundPatch, SoundSettings
<1>5. t.address \in Local
  BY <1>2, <1>3 DEF Accepted, SoundSettings, t
<1>6. t \in SoundSettings
  BY <1>1, <1>4, <1>5 DEF SoundSettings, Fields
<1> QED
  BY <1>6 DEF t

-----------------------------------------------------------------------------
(* What a patch does, whoever sends it.                                     *)

LEMMA SettingsPatchStep ==
    ASSUME PrefsInv, Shown, NEW p, SoundPatch(p), SettingsPatch(p), UNCHANGED copy,
           "layout" \in DOMAIN p => p.layout \in had
    PROVE  /\ settings' \in SoundSettings /\ disk' \in SoundSettings
           /\ pushes' \in Seq(SoundSettings) /\ Len(pushes') <= MaxPushes
           /\ root' \in Roots /\ failures' \in 0..MaxFailures
           /\ FileIsCurrent'
           /\ failures' = 0 => failures = 0
           /\ LatestIsCurrent'
           /\ settings'.layout \in had
           /\ \A i \in 1..Len(pushes') : pushes'[i].layout \in had
           /\ settings' = IF Valid(Merge(settings, p)) THEN Merge(settings, p) ELSE settings
           /\ Accepted(p) <=> Valid(Merge(settings, p))
<1> USE SettingsAssumption
<1>1. /\ settings \in SoundSettings /\ disk \in SoundSettings /\ pushes \in Seq(SoundSettings)
      /\ copy \in SoundSettings /\ root \in Roots /\ failures \in 0..MaxFailures
      /\ Len(pushes) <= MaxPushes
      /\ FileIsCurrent /\ LatestIsCurrent
      /\ settings.layout \in had /\ \A i \in 1..Len(pushes) : pushes[i].layout \in had
  BY DEF PrefsInv, SettingsTyped, LayoutsAreTheUsers
<1>2. /\ Len(pushes) < MaxPushes /\ Patch(p)
      /\ root' = IF "cwd" \in DOMAIN p THEN p.cwd ELSE root
      /\ pushes' = IF Valid(Merge(settings, p)) THEN Append(pushes, settings') ELSE pushes
  BY DEF SettingsPatch
<1>3. root' \in Roots
  BY <1>1, <1>2 DEF SoundPatch
<1>4. Accepted(p) <=> Valid(Merge(settings, p))
  <2>1. Accepted(p) => Valid(Merge(settings, p))
    BY <1>1, SoundMerge, SoundIsValid
  <2>2. Merge(settings, p)["address"]
           = IF "address" \in DOMAIN p THEN p["address"] ELSE settings["address"]
    BY MergedFields DEF Fields
  <2>3. Valid(Merge(settings, p)) => Accepted(p)
    BY <2>2 DEF Valid, Accepted
  <2> QED
    BY <2>1, <2>3
<1>5. CASE ~Valid(Merge(settings, p))
  <2>1. settings' = settings /\ disk' = disk /\ failures' = failures /\ pushes' = pushes
    BY <1>2, <1>5 DEF Patch
  <2>2. FileIsCurrent' /\ LatestIsCurrent'
    BY <1>1, <2>1 DEF FileIsCurrent, LatestIsCurrent, Latest, Shown, Nothing
  <2> QED
    BY <1>1, <1>3, <1>4, <1>5, <2>1, <2>2
<1>6. CASE Valid(Merge(settings, p))
  <2> DEFINE t == Merge(settings, p)
  <2>1. settings' = t /\ Persist(t) /\ pushes' = Append(pushes, t)
    BY <1>2, <1>6 DEF Patch
  <2>2. t \in SoundSettings
    BY <1>1, <1>6, SoundMerge
  <2>3. t.layout \in had
    <3>1. t["layout"] = IF "layout" \in DOMAIN p THEN p["layout"] ELSE settings["layout"]
      BY MergedFields DEF Fields
    <3> QED
      BY <3>1, <1>1
  <2> HIDE DEF t
  <2>4. /\ disk' \in SoundSettings /\ failures' \in 0..MaxFailures
        /\ FileIsCurrent'
        /\ failures' = 0 => failures = 0
    <3>1. CASE disk' = t /\ UNCHANGED failures
      BY <3>1, <1>1, <2>1, <2>2 DEF FileIsCurrent
    <3>2. CASE failures < MaxFailures /\ failures' = failures + 1 /\ UNCHANGED disk
      BY <3>2, <1>1 DEF FileIsCurrent
    <3> QED
      BY <3>1, <3>2, <2>1 DEF Persist
  <2>5. /\ pushes' \in Seq(SoundSettings) /\ Len(pushes') = Len(pushes) + 1
        /\ pushes'[Len(pushes')] = t /\ \A i \in 1..Len(pushes) : pushes'[i] = pushes[i]
    BY <1>1, <2>1, <2>2
  <2>6. pushes' # <<>> /\ Len(pushes') <= MaxPushes
    BY <1>1, <1>2, <2>5
  <2>7. LatestIsCurrent'
    BY <2>1, <2>5, <2>6 DEF LatestIsCurrent, Latest
  <2>8. \A i \in 1..Len(pushes') : pushes'[i].layout \in had
    <3>1. \A i \in 1..Len(pushes') : i = Len(pushes') \/ i \in 1..Len(pushes)
      BY <1>1, <2>5
    <3> QED
      BY <3>1, <2>3, <2>5, <1>1
  <2> QED
    BY <1>3, <1>4, <1>6, <2>1, <2>2, <2>3, <2>4, <2>5, <2>6, <2>7, <2>8 DEF t
<1> QED
  BY <1>5, <1>6

(***************************************************************************)
(* A choice of the user.  It is accepted unless it names an address that   *)
(* is not; a section the settings and the user agree on is sent as the     *)
(* user means it, unless the copy of it is behind.                         *)
(***************************************************************************)
LEMMA EditStep ==
    ASSUME PrefsInv, Shown, NEW p, NEW q, SoundPatch(p), Meant(p, q), Send(p),
           edits' \in 0..MaxEdits, "layout" \in DOMAIN p => p.layout \in had,
           said' = IF Accepted(p) THEN Merge(said, q) ELSE said,
           UNCHANGED <<copy, ui, armed, had>>, owed' \in 0..NotOwed
    PROVE  PrefsInv'
<1>1. UNCHANGED copy /\ UNCHANGED had /\ UNCHANGED ui /\ UNCHANGED armed
  OBVIOUS
<1>2. /\ settings' \in SoundSettings /\ disk' \in SoundSettings
      /\ pushes' \in Seq(SoundSettings) /\ Len(pushes') <= MaxPushes
      /\ root' \in Roots /\ failures' \in 0..MaxFailures
      /\ FileIsCurrent'
      /\ failures' = 0 => failures = 0
      /\ LatestIsCurrent'
      /\ settings'.layout \in had
      /\ \A i \in 1..Len(pushes') : pushes'[i].layout \in had
      /\ settings' = IF Valid(Merge(settings, p)) THEN Merge(settings, p) ELSE settings
      /\ Accepted(p) <=> Valid(Merge(settings, p))
  BY <1>1, SettingsPatchStep DEF Send
<1>3. behind' = behind \union {f \in DOMAIN p \intersect Sections : copy[f] # settings[f]}
  BY DEF Send
<1>4. SettingsTyped'
  BY <1>1, <1>2, <1>3 DEF PrefsInv, SettingsTyped, Shown, Nothing, NotOwed
<1>5. EditsAreKept'
  <2>1. SUFFICES ASSUME failures' = 0, NEW f \in Fields \ {"layout"}, f \notin behind'
                 PROVE  settings'[f] = said'[f]
    BY DEF EditsAreKept
  <2>2. settings[f] = said[f]
    BY <2>1, <1>2, <1>3 DEF PrefsInv, EditsAreKept
  <2>3. CASE Accepted(p)
    <3>1. settings' = Merge(settings, p) /\ said' = Merge(said, q)
      BY <2>3, <1>2
    <3>2. settings'[f] = (IF f \in DOMAIN p THEN p[f] ELSE settings[f])
          /\ said'[f] = (IF f \in DOMAIN q THEN q[f] ELSE said[f])
      BY <3>1, MergedFields
    <3>3. f \in DOMAIN p /\ f \in Sections => copy[f] = said[f]
      BY <2>1, <2>2, <1>3
    <3>4. DOMAIN p = DOMAIN q /\ (f \in DOMAIN p => p[f] = q[f])
      BY <3>3 DEF Meant
    <3> QED
      BY <3>2, <3>4, <2>2
  <2>4. CASE ~Accepted(p)
    BY <2>2, <2>4, <1>2
  <2> QED
    BY <2>3, <2>4
<1>6. LayoutsAreTheUsers'
  BY <1>1, <1>2 DEF PrefsInv, LayoutsAreTheUsers, Shown, Nothing
<1> QED
  BY <1>2, <1>4, <1>5, <1>6 DEF PrefsInv

LEMMA EditCounted ==
    ASSUME PrefsInv, Edit
    PROVE  edits' \in 0..MaxEdits
  BY PreferencesAssumption DEF Edit, PrefsInv, SettingsTyped

LEMMA ChooseStep ==
    ASSUME PrefsInv, Shown, NEW p, NEW q, SoundPatch(p), Meant(p, q), Choose(p, q),
           "layout" \in DOMAIN p => p.layout \in had
    PROVE  PrefsInv'
<1>1. owed \in 0..NotOwed /\ UNCHANGED owed
  BY DEF PrefsInv, SettingsTyped, Choose
<1>2. edits' \in 0..MaxEdits
  BY EditCounted DEF Choose
<1> QED
  BY <1>1, <1>2, EditStep DEF Choose

(* A value that is sent as it is meant.                                     *)
LEMMA PickStep ==
    ASSUME PrefsInv, NEW p, SoundPatch(p), Pick(p), "layout" \notin DOMAIN p
    PROVE  PrefsInv'
<1>1. Shown /\ Choose(p, p)
  BY DEF Pick, Choose, Edit
<1>2. Meant(p, p)
  BY DEF Meant
<1> QED
  BY <1>1, <1>2, ChooseStep

-----------------------------------------------------------------------------
(* The steps nobody asked for.                                              *)

LEMMA LoadStep ==
    ASSUME PrefsInv, Load
    PROVE  PrefsInv'
<1>1. /\ copy' = settings /\ pushes' = <<>> /\ ui' = Restored(settings.layout)
      /\ had' = had \union {ui'} /\ armed' = TRUE
      /\ UNCHANGED <<settings, disk, root, failures, owed, said, behind, edits>>
  BY DEF Load
<1>2. settings \in SoundSettings /\ settings.layout \in Strips
  BY DEF PrefsInv, SettingsTyped, SoundSettings
<1>3. ui' = settings.layout
  BY <1>1, <1>2, RestoredStrip
<1>4. SettingsTyped'
  BY <1>1, <1>2, <1>3, SettingsAssumption DEF PrefsInv, SettingsTyped, NotOwed
<1>5. FileIsCurrent' /\ EditsAreKept'
  BY <1>1 DEF PrefsInv, FileIsCurrent, EditsAreKept
<1>6. LatestIsCurrent'
  BY <1>1 DEF LatestIsCurrent, Latest
<1>7. LayoutsAreTheUsers'
  BY <1>1, <1>3 DEF PrefsInv, LayoutsAreTheUsers
<1> QED
  BY <1>4, <1>5, <1>6, <1>7 DEF PrefsInv

LEMMA PushArrivesStep ==
    ASSUME PrefsInv, PushArrives
    PROVE  PrefsInv'
<1> USE SettingsAssumption
<1>1. /\ Shown /\ pushes # <<>> /\ copy' = Head(pushes) /\ pushes' = Tail(pushes)
      /\ armed' = TRUE /\ owed' = IF owed \in 1..MaxPushes THEN owed - 1 ELSE owed
      /\ UNCHANGED <<settings, disk, root, failures, ui, said, behind, had, edits>>
  BY DEF PushArrives
<1>2. pushes \in Seq(SoundSettings) /\ Len(pushes) <= MaxPushes /\ owed \in 0..NotOwed
  BY DEF PrefsInv, SettingsTyped
<1>3. /\ copy' = pushes[1] /\ pushes' \in Seq(SoundSettings) /\ Len(pushes') = Len(pushes) - 1
      /\ Len(pushes) \in Nat \ {0} /\ \A i \in 1..Len(pushes') : pushes'[i] = pushes[i + 1]
  BY <1>1, <1>2
<1>4. owed' \in 0..NotOwed
  BY <1>1, <1>2 DEF NotOwed
<1>5. copy' \in SoundSettings /\ Len(pushes') <= MaxPushes
  BY <1>2, <1>3
<1>6. SettingsTyped'
  BY <1>1, <1>3, <1>4, <1>5 DEF PrefsInv, SettingsTyped, NotOwed
<1>7. FileIsCurrent' /\ EditsAreKept'
  BY <1>1 DEF PrefsInv, FileIsCurrent, EditsAreKept
<1>8. LatestIsCurrent'
  <2>1. Latest' = Latest
    <3>1. CASE Len(pushes) = 1
      <4>1. pushes' = <<>>
        BY <3>1, <1>3
      <4> QED
        BY <4>1, <3>1, <1>1, <1>3 DEF Latest
    <3>2. CASE Len(pushes) # 1
      <4>1. pushes' # <<>> /\ Len(pushes') \in 1..Len(pushes')
            /\ Len(pushes') + 1 = Len(pushes)
        BY <3>2, <1>3
      <4> QED
        BY <4>1, <1>1, <1>3 DEF Latest
    <3> QED
      BY <3>1, <3>2
  <2> QED
    BY <2>1, <1>1 DEF PrefsInv, LatestIsCurrent
<1>9. LayoutsAreTheUsers'
  <2>1. \A i \in 1..Len(pushes') : i + 1 \in 1..Len(pushes)
    BY <1>3
  <2>2. 1 \in 1..Len(pushes)
    BY <1>3
  <2> QED
    BY <2>1, <2>2, <1>1, <1>3 DEF PrefsInv, LayoutsAreTheUsers
<1> QED
  BY <1>6, <1>7, <1>8, <1>9 DEF PrefsInv

LEMMA AutoPersistStep ==
    ASSUME PrefsInv, AutoPersist
    PROVE  PrefsInv'
<1> DEFINE p == [layout |-> ui, saved |-> copy.saved]
<1>1. /\ Shown /\ SettingsPatch(p) /\ armed' = FALSE
      /\ behind' = behind \union {f \in DOMAIN p \intersect Sections : copy[f] # settings[f]}
      /\ UNCHANGED <<copy, ui, owed, said, had, edits>>
  BY DEF AutoPersist, Send
<1>2. copy.saved \in Partial(LayoutIds, Strips) /\ ui \in Strips /\ ui \in had
  BY <1>1 DEF PrefsInv, SettingsTyped, SoundSettings, LayoutsAreTheUsers
<1>3. /\ SoundPatch(p) /\ p.layout \in had /\ DOMAIN p = {"layout", "saved"}
      /\ p["saved"] = copy["saved"]
  BY <1>2 DEF SoundPatch, Fields
<1> HIDE DEF p
<1>4. UNCHANGED copy
  BY <1>1
<1>5. /\ settings' \in SoundSettings /\ disk' \in SoundSettings
      /\ pushes' \in Seq(SoundSettings) /\ Len(pushes') <= MaxPushes
      /\ root' \in Roots /\ failures' \in 0..MaxFailures
      /\ FileIsCurrent'
      /\ failures' = 0 => failures = 0
      /\ LatestIsCurrent'
      /\ settings'.layout \in had
      /\ \A i \in 1..Len(pushes') : pushes'[i].layout \in had
      /\ settings' = IF Valid(Merge(settings, p)) THEN Merge(settings, p) ELSE settings
  BY <1>1, <1>3, <1>4, SettingsPatchStep
<1>6. SettingsTyped'
  BY <1>1, <1>5 DEF PrefsInv, SettingsTyped, Shown, Nothing, NotOwed
<1>7. \A f \in Fields \ {"layout"} : f \notin behind' => settings'[f] = settings[f]
  <2>1. SUFFICES ASSUME NEW f \in Fields \ {"layout"}, f \notin behind',
                        settings' = Merge(settings, p)
                 PROVE  settings'[f] = settings[f]
    BY <1>5
  <2>2. settings'[f] = IF f \in DOMAIN p THEN p[f] ELSE settings[f]
    BY <2>1, MergedFields
  <2>3. f = "saved" => copy[f] = settings[f]
    BY <2>1, <1>1, <1>3 DEF Sections
  <2> QED
    BY <2>2, <2>3, <1>3
<1>8. EditsAreKept'
  BY <1>1, <1>5, <1>7 DEF PrefsInv, EditsAreKept
<1>9. LayoutsAreTheUsers'
  BY <1>1, <1>5 DEF PrefsInv, LayoutsAreTheUsers, Shown, Nothing
<1> QED
  BY <1>5, <1>6, <1>8, <1>9 DEF PrefsInv

(***************************************************************************)
(* The window is loaded again.  The file is accepted at the next start.    *)
(***************************************************************************)
LEMMA ReloadStep ==
    ASSUME PrefsInv, Reload
    PROVE  PrefsInv'
<1>1. /\ copy' = Nothing /\ ui' = FirstArrangement /\ armed' = FALSE /\ owed' = NotOwed
      /\ pushes' = <<>> /\ UNCHANGED <<disk, failures, said, behind, edits, settings, root, had>>
  BY DEF Reload, Unloaded
<1>2. ~Shown'
  BY <1>1 DEF Shown, Nothing
<1>3. SettingsTyped'
  <2>1. pushes' \in Seq(SoundSettings) /\ Len(pushes') = 0 /\ owed' \in 0..NotOwed
    BY <1>1, SettingsAssumption DEF NotOwed
  <2>2. /\ settings' \in SoundSettings /\ disk' \in SoundSettings /\ root' \in Roots
        /\ failures' \in 0..MaxFailures /\ edits' \in 0..MaxEdits
    BY <1>1 DEF PrefsInv, SettingsTyped
  <2>3. ui' \in Strips
    BY <1>1, FirstStrip
  <2>4. armed' \in BOOLEAN
    BY <1>1
  <2>5. Len(pushes') <= MaxPushes /\ behind' \subseteq Sections
    BY <1>1, <2>1, SettingsAssumption DEF PrefsInv, SettingsTyped
  <2> QED
    BY <1>2, <2>1, <2>2, <2>3, <2>4, <2>5 DEF SettingsTyped
<1> QED
  BY <1>1, <1>2, <1>3
  DEF PrefsInv, FileIsCurrent, EditsAreKept, LatestIsCurrent, LayoutsAreTheUsers

LEMMA RestartStep ==
    ASSUME PrefsInv, Restart
    PROVE  PrefsInv'
<1>1. /\ copy' = Nothing /\ ui' = FirstArrangement /\ armed' = FALSE /\ owed' = NotOwed
      /\ pushes' = <<>> /\ UNCHANGED <<disk, failures, said, behind, edits>>
      /\ settings' = Loaded(disk) /\ root' = Found /\ had' = {settings'.layout}
  BY DEF Restart, Unloaded
<1>2. ~Shown'
  BY <1>1 DEF Shown, Nothing
<1>3. settings' = disk
  BY <1>1, SoundIsValid DEF Loaded, PrefsInv, SettingsTyped
<1>4. SettingsTyped'
  <2>1. pushes' \in Seq(SoundSettings) /\ Len(pushes') = 0 /\ owed' \in 0..NotOwed
    BY <1>1, SettingsAssumption DEF NotOwed
  <2>2. /\ settings' \in SoundSettings /\ disk' \in SoundSettings /\ root' \in Roots
        /\ failures' \in 0..MaxFailures /\ edits' \in 0..MaxEdits
    BY <1>1, <1>3, PreferencesAssumption DEF PrefsInv, SettingsTyped
  <2>3. ui' \in Strips
    BY <1>1, FirstStrip
  <2>4. armed' \in BOOLEAN
    BY <1>1
  <2>5. Len(pushes') <= MaxPushes /\ behind' \subseteq Sections
    BY <1>1, <2>1, SettingsAssumption DEF PrefsInv, SettingsTyped
  <2> QED
    BY <1>2, <2>1, <2>2, <2>3, <2>4, <2>5 DEF SettingsTyped
<1> QED
  BY <1>1, <1>2, <1>3, <1>4
  DEF PrefsInv, FileIsCurrent, EditsAreKept, LatestIsCurrent, LayoutsAreTheUsers

-----------------------------------------------------------------------------
(* The tabs and the layouts.                                                *)

LEMMA ArrangeStep ==
    ASSUME PrefsInv, NEW a \in Strips, Arrange(a)
    PROVE  PrefsInv'
<1>1. /\ Shown /\ ui' = a /\ had' = had \union {a} /\ armed' = TRUE
      /\ UNCHANGED <<settings, disk, root, pushes, failures, copy, owed, said, behind>>
  BY DEF Arrange, Edit, storeVars
<1>2. edits' \in 0..MaxEdits
  BY EditCounted DEF Arrange
<1>3. SettingsTyped'
  BY <1>1, <1>2 DEF PrefsInv, SettingsTyped, Shown, Nothing, NotOwed
<1>4. FileIsCurrent' /\ EditsAreKept' /\ LatestIsCurrent'
  BY <1>1 DEF PrefsInv, FileIsCurrent, EditsAreKept, LatestIsCurrent, Latest, Shown, Nothing
<1>5. LayoutsAreTheUsers'
  BY <1>1 DEF PrefsInv, LayoutsAreTheUsers, Shown, Nothing
<1> QED
  BY <1>3, <1>4, <1>5 DEF PrefsInv

LEMMA EditTabsStep ==
    ASSUME PrefsInv, EditTabs
    PROVE  PrefsInv'
<1>1. ui \in Strips
  BY DEF PrefsInv, SettingsTyped
<1>2. ASSUME NEW f \in Files, OpenTab(f)
      PROVE  PrefsInv'
  BY <1>1, <1>2, OpenedStrip, ArrangeStep DEF OpenTab
<1>3. ASSUME NEW f \in Files, CloseTab(f)
      PROVE  PrefsInv'
  BY <1>1, <1>3, ClosedStrip, ArrangeStep DEF CloseTab
<1>4. ASSUME NEW f \in Surfaces, SetActiveTab(f)
      PROVE  PrefsInv'
  BY <1>1, <1>4, ActiveStrip, ArrangeStep DEF SetActiveTab
<1> QED
  BY <1>2, <1>3, <1>4 DEF EditTabs

(* What the views show is made of sound parts.                              *)
LEMMA CopyIsSound ==
    ASSUME PrefsInv, Shown
    PROVE  /\ copy \in SoundSettings /\ copy.layout \in Strips /\ copy.layout \in had
           /\ copy.saved \in Partial(LayoutIds, Strips)
           /\ copy.schemes \in SoundSchemes /\ copy.profiles \in SoundProfiles
           /\ copy.theme \in Themes /\ copy.nodes \in BOOLEAN /\ copy.forge \in BOOLEAN
           /\ copy.logs \in BOOLEAN /\ copy.address \in Local /\ ui \in Strips
<1>1. copy \in SoundSettings /\ ui \in Strips /\ copy.layout \in had
  BY DEF PrefsInv, SettingsTyped, LayoutsAreTheUsers
<1> QED
  BY <1>1 DEF SoundSettings

(* The patches that write the layouts anew.                                 *)
LEMMA LayoutsPatch ==
    ASSUME PrefsInv, Shown, NEW l \in Partial(LayoutIds, Strips), NEW m, ChooseLayouts(l, m),
           copy.saved = said.saved => l = m
    PROVE  PrefsInv'
<1> DEFINE p == [layout |-> copy.layout, saved |-> l]
           q == [layout |-> copy.layout, saved |-> m]
<1>1. SoundPatch(p) /\ p.layout \in had
  BY CopyIsSound DEF SoundPatch, Fields
<1>2. Meant(p, q)
  BY DEF Meant, Sections
<1>3. Choose(p, q)
  BY DEF ChooseLayouts
<1> HIDE DEF p, q
<1> QED
  BY <1>1, <1>2, <1>3, ChooseStep

LEMMA EditLayoutsStep ==
    ASSUME PrefsInv, EditLayouts
    PROVE  PrefsInv'
<1>1. ASSUME RenameLayout
      PROVE  PrefsInv'
  BY <1>1, CopyIsSound, LayoutsPatch DEF RenameLayout
<1>2. ASSUME NEW id \in LayoutIds, ApplyLayout(id)
      PROVE  PrefsInv'
  <2>1. Shown /\ id \in DOMAIN copy.saved /\ Arrange(Restored(copy.saved[id]))
    BY <1>2 DEF ApplyLayout
  <2>2. copy.saved[id] \in Strips
    BY <2>1, CopyIsSound, PartialOut
  <2> QED
    BY <2>1, <2>2, RestoredStrip, ArrangeStep
<1>3. ASSUME NEW id \in LayoutIds, SaveLayout(id)
      PROVE  PrefsInv'
  <2>1. Shown /\ ChooseLayouts(With(copy.saved, id, Saved(ui)), With(said.saved, id, Saved(ui)))
    BY <1>3 DEF SaveLayout
  <2>2. Saved(ui) \in Strips
    BY <2>1, CopyIsSound, SavedStrip
  <2>3. With(copy.saved, id, Saved(ui)) \in Partial(LayoutIds, Strips)
    BY <2>1, <2>2, CopyIsSound, WithIsPartial
  <2> QED
    BY <2>1, <2>3, LayoutsPatch
<1>4. ASSUME NEW id \in LayoutIds, DeleteLayout(id)
      PROVE  PrefsInv'
  <2>1. Shown /\ ChooseLayouts(LayoutsWithout(copy.saved, id), LayoutsWithout(said.saved, id))
    BY <1>4 DEF DeleteLayout
  <2>2. LayoutsWithout(copy.saved, id) \in Partial(LayoutIds, Strips)
    BY <2>1, CopyIsSound, RestIsPartial DEF LayoutsWithout
  <2> QED
    BY <2>1, <2>2, LayoutsPatch
<1> QED
  BY <1>1, <1>2, <1>3, <1>4 DEF EditLayouts

-----------------------------------------------------------------------------
(* The plain fields and the address.                                        *)

LEMMA EditFieldsStep ==
    ASSUME PrefsInv, EditFields
    PROVE  PrefsInv'
<1>1. ASSUME NEW t \in Themes, Pick([theme |-> t])
      PROVE  PrefsInv'
  <2> DEFINE p == [theme |-> t]
  <2>1. SoundPatch(p) /\ "layout" \notin DOMAIN p
    BY DEF SoundPatch, Fields
  <2> QED
    BY <1>1, <2>1, PickStep
<1>2. ASSUME CycleTheme
      PROVE  PrefsInv'
  <2> DEFINE t == CASE copy.theme = "dark" -> "light"
                    [] copy.theme = "light" -> "system"
                    [] OTHER -> "dark"
  <2>1. Pick([theme |-> t])
    BY <1>2 DEF CycleTheme
  <2>2. t \in Themes
    BY DEF Themes
  <2> HIDE DEF t
  <2> QED
    BY <2>1, <2>2, <1>1
<1>3. ASSUME EditNodes
      PROVE  PrefsInv'
  <2> DEFINE p == [nodes |-> ~copy.nodes]
  <2>1. Pick(p)
    BY <1>3 DEF EditNodes
  <2>2. SoundPatch(p) /\ "layout" \notin DOMAIN p
    BY DEF SoundPatch, Fields
  <2> QED
    BY <2>1, <2>2, PickStep
<1>4. ASSUME EditForge
      PROVE  PrefsInv'
  <2> DEFINE p == [forge |-> ~copy.forge]
  <2>1. Pick(p)
    BY <1>4 DEF EditForge
  <2>2. SoundPatch(p) /\ "layout" \notin DOMAIN p
    BY DEF SoundPatch, Fields
  <2> QED
    BY <2>1, <2>2, PickStep
<1>5. ASSUME EditLogs
      PROVE  PrefsInv'
  <2> DEFINE p == [logs |-> ~copy.logs]
  <2>1. Pick(p)
    BY <1>5 DEF EditLogs
  <2>2. SoundPatch(p) /\ "layout" \notin DOMAIN p
    BY DEF SoundPatch, Fields
  <2> QED
    BY <2>1, <2>2, PickStep
<1>6. ASSUME NEW t \in Themes, EditTheme(t)
      PROVE  PrefsInv'
  BY <1>1, <1>6 DEF EditTheme
<1>7. ASSUME NEW r \in Roots, EditDirectory(r)
      PROVE  PrefsInv'
  <2> DEFINE p == [cwd |-> r]
  <2>1. Pick(p)
    BY <1>7 DEF EditDirectory
  <2>2. SoundPatch(p) /\ "layout" \notin DOMAIN p
    BY DEF SoundPatch, Fields
  <2> QED
    BY <2>1, <2>2, PickStep
<1> QED
  BY <1>2, <1>3, <1>4, <1>5, <1>6, <1>7 DEF EditFields

(***************************************************************************)
(* connection:connect changes the address, or nothing, and pushes nothing. *)
(***************************************************************************)
LEMMA ConnectStep ==
    ASSUME PrefsInv, NEW a \in Addresses, ConnectTo(a)
    PROVE  PrefsInv'
<1> DEFINE p == [address |-> a]
           t == Merge(settings, p)
<1>1. /\ Shown /\ Patch(p) /\ UNCHANGED <<root, pushes, copy, ui, armed, owed, behind, had>>
      /\ said' = IF a \in Local THEN Merge(said, p) ELSE said
  BY DEF ConnectTo, ConnectPatch, Edit
<1>2. edits' \in 0..MaxEdits
  BY EditCounted DEF ConnectTo
<1>3. settings \in SoundSettings /\ disk \in SoundSettings /\ failures \in 0..MaxFailures
  BY DEF PrefsInv, SettingsTyped
<1>4. SoundPatch(p) /\ DOMAIN p = {"address"}
  BY DEF SoundPatch, Fields
<1>5. Valid(t) <=> a \in Local
  <2>1. t["address"] = a
    BY MergedFields DEF Fields
  <2>2. Valid(t) => a \in Local
    BY <2>1 DEF Valid
  <2>3. a \in Local => Accepted(p)
    BY DEF Accepted
  <2>4. a \in Local => Valid(t)
    BY <1>3, <1>4, <2>3, SoundMerge, SoundIsValid
  <2> QED
    BY <2>2, <2>4
<1> HIDE DEF p
<1>6. /\ settings' \in SoundSettings /\ disk' \in SoundSettings /\ failures' \in 0..MaxFailures
      /\ \A f \in Fields \ {"address"} : settings'[f] = settings[f]
      /\ FileIsCurrent'
      /\ failures' = 0 => failures = 0
  <2>1. CASE ~Valid(t)
    BY <1>1, <1>3, <2>1 DEF Patch, PrefsInv, FileIsCurrent
  <2>2. CASE Valid(t)
    <3>1. settings' = t /\ Persist(t)
      BY <1>1, <2>2 DEF Patch
    <3>2. t \in SoundSettings
      BY <1>3, <1>4, <2>2, SoundMerge
    <3>3. \A f \in Fields \ {"address"} : t[f] = settings[f]
      BY <1>4, MergedFields
    <3> HIDE DEF t
    <3>4. CASE disk' = t /\ UNCHANGED failures
      BY <3>1, <3>2, <3>3, <3>4, <1>3 DEF FileIsCurrent
    <3>5. CASE failures < MaxFailures /\ failures' = failures + 1 /\ UNCHANGED disk
      BY <3>1, <3>2, <3>3, <3>5, <1>3, SettingsAssumption DEF FileIsCurrent
    <3> QED
      BY <3>1, <3>4, <3>5 DEF Persist
  <2> QED
    BY <2>1, <2>2
<1>7. SettingsTyped'
  BY <1>1, <1>2, <1>6 DEF PrefsInv, SettingsTyped, Shown, Nothing, NotOwed
<1>8. EditsAreKept'
  <2>1. SUFFICES ASSUME failures' = 0, NEW f \in Fields \ {"layout"}, f \notin behind
                 PROVE  settings'[f] = said'[f]
    BY <1>1 DEF EditsAreKept
  <2>2. settings[f] = said[f]
    BY <2>1, <1>6 DEF PrefsInv, EditsAreKept
  <2>3. CASE a \in Local
    <3>1. settings' = t /\ said' = Merge(said, p)
      BY <2>3, <1>1, <1>5 DEF Patch
    <3> QED
      BY <3>1, <2>2, MergedFields
  <2>4. CASE a \notin Local
    BY <2>2, <2>4, <1>1, <1>5 DEF Patch
  <2> QED
    BY <2>3, <2>4
<1>9. LatestIsCurrent'
  BY <1>1, <1>6 DEF PrefsInv, LatestIsCurrent, Latest, Shown, Nothing
<1>10. LayoutsAreTheUsers'
  <2>1. settings'.layout = settings.layout
    BY <1>6 DEF Fields
  <2> QED
    BY <1>1, <2>1 DEF PrefsInv, LayoutsAreTheUsers, Shown, Nothing
<1> QED
  BY <1>6, <1>7, <1>8, <1>9, <1>10 DEF PrefsInv

LEMMA AddressingStep ==
    ASSUME PrefsInv, Addressing
    PROVE  PrefsInv'
<1>1. ASSUME Connect
      PROVE  PrefsInv'
  <2>1. Shown /\ ConnectTo(copy.address)
    BY <1>1 DEF Connect
  <2> QED
    BY <2>1, CopyIsSound, ConnectStep, SettingsAssumption
<1>2. ASSUME NEW a \in Addresses, Pick([address |-> a])
      PROVE  PrefsInv'
  <2> DEFINE p == [address |-> a]
  <2>1. SoundPatch(p) /\ "layout" \notin DOMAIN p
    BY DEF SoundPatch, Fields
  <2> QED
    BY <1>2, <2>1, PickStep
<1>3. ASSUME NEW a \in Addresses, EditConnection(a) \/ Launch(a)
      PROVE  PrefsInv'
  BY <1>2, <1>3 DEF EditConnection, Launch
<1> QED
  BY <1>1, <1>2, <1>3, ConnectStep DEF Addressing

-----------------------------------------------------------------------------
(* Colour schemes and profiles: a list of named things and the active one.  *)

Paints == {"new", "edited"}

LEMMA SchemesOut ==
    ASSUME NEW c \in SoundSchemes
    PROVE  /\ c.of \in Partial(SchemeIds, Paints) /\ c.active \in SchemeIds \union {None}
           /\ c.active = None \/ c.active \in DOMAIN c.of
           /\ c = [of |-> c.of, active |-> c.active]
  BY DEF SoundSchemes, Schemes, ValidSchemes, Paints

LEMMA SchemesIn ==
    ASSUME NEW o \in Partial(SchemeIds, Paints), NEW x \in SchemeIds \union {None},
           x = None \/ x \in DOMAIN o
    PROVE  [of |-> o, active |-> x] \in SoundSchemes
  BY DEF SoundSchemes, Schemes, ValidSchemes, Paints

LEMMA ProfilesOut ==
    ASSUME NEW c \in SoundProfiles
    PROVE  /\ c.of \in Partial(ProfileIds, Snapshots) /\ c.active \in ProfileIds \union {None}
           /\ c.active = None \/ c.active \in DOMAIN c.of
           /\ c = [of |-> c.of, active |-> c.active]
  BY DEF SoundProfiles

LEMMA ProfilesIn ==
    ASSUME NEW o \in Partial(ProfileIds, Snapshots), NEW x \in ProfileIds \union {None},
           x = None \/ x \in DOMAIN o
    PROVE  [of |-> o, active |-> x] \in SoundProfiles
  BY DEF SoundProfiles

LEMMA PutSchemeSound ==
    ASSUME NEW c \in SoundSchemes, NEW id \in SchemeIds, NEW x \in Paints
    PROVE  Put(c, id, x) \in SoundSchemes /\ id \in DOMAIN Put(c, id, x).of
<1> DEFINE o == With(c.of, id, x)
<1>1. c.of \in Partial(SchemeIds, Paints) /\ c.active \in SchemeIds \union {None}
      /\ (c.active = None \/ c.active \in DOMAIN c.of) /\ c = [of |-> c.of, active |-> c.active]
  BY SchemesOut
<1>2. Put(c, id, x) = [c EXCEPT !.of = o]
  BY DEF Put
<1>3. o \in Partial(SchemeIds, Paints) /\ DOMAIN o = DOMAIN c.of \union {id}
  BY <1>1, WithIsPartial, WithDomain
<1> HIDE DEF o
<1>4. Put(c, id, x) = [of |-> o, active |-> c.active]
  BY <1>1, <1>2
<1> QED
  BY <1>1, <1>3, <1>4, SchemesIn

LEMMA ActiveSchemeSound ==
    ASSUME NEW c \in SoundSchemes, NEW id \in SchemeIds, id \in DOMAIN c.of
    PROVE  Activate(c, id) \in SoundSchemes
<1>1. Activate(c, id) = [of |-> c.of, active |-> id]
  BY SchemesOut DEF Activate
<1> QED
  BY <1>1, SchemesOut, SchemesIn

LEMMA WithoutSchemeSound ==
    ASSUME NEW c \in SoundSchemes, NEW id
    PROVE  Without(c, id) \in SoundSchemes
<1> DEFINE o == [i \in DOMAIN c.of \ {id} |-> c.of[i]]
           x == IF c.active = id THEN None ELSE c.active
<1>1. o \in Partial(SchemeIds, Paints) /\ DOMAIN o = DOMAIN c.of \ {id}
  BY SchemesOut, RestIsPartial
<1>2. x \in SchemeIds \union {None} /\ (x = None \/ x \in DOMAIN o)
  BY <1>1, SchemesOut
<1>3. Without(c, id) = [of |-> o, active |-> x]
  BY DEF Without
<1> HIDE DEF o, x
<1> QED
  BY <1>1, <1>2, <1>3, SchemesIn

LEMMA SchemesPatch ==
    ASSUME PrefsInv, Shown, NEW c \in SoundSchemes, NEW d, copy.schemes = said.schemes => c = d,
           ChooseSchemes(c, d) \/ UseSchemes(c, d)
    PROVE  PrefsInv'
<1>1. CASE ChooseSchemes(c, d)
  <2> DEFINE p == [schemes |-> c]
             q == [schemes |-> d]
  <2>1. SoundPatch(p) /\ "layout" \notin DOMAIN p /\ Meant(p, q)
    BY DEF SoundPatch, Fields, Meant, Sections
  <2>2. Choose(p, q)
    BY <1>1 DEF ChooseSchemes
  <2> HIDE DEF p, q
  <2> QED
    BY <2>1, <2>2, ChooseStep
<1>2. CASE UseSchemes(c, d)
  <2> DEFINE p == [theme |-> "custom", schemes |-> c]
             q == [theme |-> "custom", schemes |-> d]
  <2>1. SoundPatch(p) /\ "layout" \notin DOMAIN p /\ Meant(p, q)
    BY DEF SoundPatch, Fields, Themes, Meant, Sections
  <2>2. Choose(p, q)
    BY <1>2 DEF UseSchemes
  <2> HIDE DEF p, q
  <2> QED
    BY <2>1, <2>2, ChooseStep
<1> QED
  BY <1>1, <1>2

(* The first patch of deleteScheme; the second is owed if the scheme that   *)
(* is deleted is in use.                                                    *)
LEMMA DeleteSchemeStep ==
    ASSUME PrefsInv, NEW id \in SchemeIds, DeleteScheme(id)
    PROVE  PrefsInv'
<1> DEFINE p == [schemes |-> Without(copy.schemes, id)]
           q == [schemes |-> Without(said.schemes, id)]
<1>1. /\ Shown /\ Send(p) /\ said' = Merge(said, q)
      /\ UNCHANGED <<copy, ui, armed, had>>
      /\ owed' = IF copy.schemes.active = id /\ copy.theme = "custom" THEN Len(pushes') ELSE NotOwed
  BY DEF DeleteScheme, Edit
<1>2. edits' \in 0..MaxEdits
  BY EditCounted DEF DeleteScheme
<1>3. Without(copy.schemes, id) \in SoundSchemes
  BY <1>1, CopyIsSound, WithoutSchemeSound
<1>4. SoundPatch(p) /\ Accepted(p) /\ "layout" \notin DOMAIN p
  BY <1>3 DEF SoundPatch, Accepted, Fields
<1>5. Meant(p, q)
  BY DEF Meant, Sections
<1> HIDE DEF p, q
<1>6. UNCHANGED copy
  BY <1>1
<1>7. pushes' \in Seq(SoundSettings) /\ Len(pushes') <= MaxPushes
  BY <1>1, <1>4, <1>6, SettingsPatchStep DEF Send
<1>8. owed' \in 0..NotOwed
  BY <1>1, <1>7, SettingsAssumption DEF NotOwed
<1> QED
  BY <1>1, <1>2, <1>4, <1>5, <1>8, EditStep

LEMMA LeaveCustomStep ==
    ASSUME PrefsInv, LeaveCustom
    PROVE  PrefsInv'
<1> DEFINE p == [theme |-> "dark"]
<1>1. /\ Shown /\ Send(p) /\ said' = Merge(said, p) /\ owed' = NotOwed
      /\ UNCHANGED <<copy, ui, armed, had>> /\ UNCHANGED edits
  BY DEF LeaveCustom
<1>2. SoundPatch(p) /\ Accepted(p) /\ "layout" \notin DOMAIN p
  BY DEF SoundPatch, Accepted, Fields, Themes
<1>3. edits' \in 0..MaxEdits
  BY <1>1 DEF PrefsInv, SettingsTyped
<1>4. owed' \in 0..NotOwed
  BY <1>1, SettingsAssumption DEF NotOwed
<1>5. Meant(p, p)
  BY DEF Meant
<1> HIDE DEF p
<1> QED
  BY <1>1, <1>2, <1>3, <1>4, <1>5, EditStep

LEMMA EditSchemesStep ==
    ASSUME PrefsInv, EditSchemes
    PROVE  PrefsInv'
<1>1. PICK id \in SchemeIds :
         \/ CreateScheme(id) \/ ImportScheme(id) \/ CreateFromPreset(id)
         \/ EditScheme(id) \/ ApplyScheme(id) \/ DeleteScheme(id)
  BY DEF EditSchemes
<1>2. ASSUME Shown, NEW x \in Paints,
             ChooseSchemes(Put(copy.schemes, id, x), Put(said.schemes, id, x))
      PROVE  PrefsInv'
  <2>1. Put(copy.schemes, id, x) \in SoundSchemes
    BY <1>2, CopyIsSound, PutSchemeSound
  <2> QED
    BY <1>2, <2>1, SchemesPatch
<1>3. CASE CreateScheme(id) \/ ImportScheme(id) \/ EditScheme(id)
  BY <1>2, <1>3 DEF CreateScheme, ImportScheme, EditScheme, Paints
<1>4. CASE CreateFromPreset(id)
  <2>1. Shown /\ UseSchemes(Activate(Put(copy.schemes, id, "new"), id),
                            Activate(Put(said.schemes, id, "new"), id))
    BY <1>4 DEF CreateFromPreset
  <2>2. Put(copy.schemes, id, "new") \in SoundSchemes
        /\ id \in DOMAIN Put(copy.schemes, id, "new").of
    BY <2>1, CopyIsSound, PutSchemeSound DEF Paints
  <2>3. Activate(Put(copy.schemes, id, "new"), id) \in SoundSchemes
    BY <2>2, ActiveSchemeSound
  <2> QED
    BY <2>1, <2>3, SchemesPatch
<1>5. CASE ApplyScheme(id)
  <2>1. /\ Shown /\ id \in DOMAIN copy.schemes.of
        /\ UseSchemes(Activate(copy.schemes, id), Activate(said.schemes, id))
    BY <1>5 DEF ApplyScheme
  <2>2. Activate(copy.schemes, id) \in SoundSchemes
    BY <2>1, CopyIsSound, ActiveSchemeSound
  <2> QED
    BY <2>1, <2>2, SchemesPatch
<1>6. CASE DeleteScheme(id)
  BY <1>6, DeleteSchemeStep
<1> QED
  BY <1>1, <1>3, <1>4, <1>5, <1>6

LEMMA ProfilesPatch ==
    ASSUME PrefsInv, Shown, NEW c \in SoundProfiles, NEW d, copy.profiles = said.profiles => c = d,
           ChooseProfiles(c, d)
    PROVE  PrefsInv'
<1> DEFINE p == [profiles |-> c]
           q == [profiles |-> d]
<1>1. SoundPatch(p) /\ "layout" \notin DOMAIN p /\ Meant(p, q)
  BY DEF SoundPatch, Fields, Meant, Sections
<1>2. Choose(p, q)
  BY DEF ChooseProfiles
<1> HIDE DEF p, q
<1> QED
  BY <1>1, <1>2, ChooseStep

LEMMA AddProfileStep ==
    ASSUME PrefsInv, NEW id \in ProfileIds, NEW x \in Snapshots, AddProfile(id, x)
    PROVE  PrefsInv'
<1> DEFINE c == copy.profiles
           o == With(c.of, id, x)
<1>1. Shown /\ ChooseProfiles(Put(c, id, x), Put(said.profiles, id, x))
  BY DEF AddProfile
<1>2. c \in SoundProfiles
  BY <1>1, CopyIsSound
<1>3. c.of \in Partial(ProfileIds, Snapshots) /\ c.active \in ProfileIds \union {None}
      /\ (c.active = None \/ c.active \in DOMAIN c.of) /\ c = [of |-> c.of, active |-> c.active]
  BY <1>2, ProfilesOut
<1>4. Put(c, id, x) = [c EXCEPT !.of = o]
  BY DEF Put
<1>5. copy.profiles = said.profiles => Put(c, id, x) = Put(said.profiles, id, x)
  OBVIOUS
<1> HIDE DEF c
<1>6. o \in Partial(ProfileIds, Snapshots) /\ DOMAIN o = DOMAIN c.of \union {id}
  BY <1>3, WithIsPartial, WithDomain
<1> HIDE DEF o
<1>7. Put(c, id, x) = [of |-> o, active |-> c.active]
  BY <1>3, <1>4
<1>8. Put(c, id, x) \in SoundProfiles
  BY <1>3, <1>6, <1>7, ProfilesIn
<1> QED
  BY <1>1, <1>5, <1>8, ProfilesPatch

(***************************************************************************)
(* A profile writes what it kept over five fields at once; one made on     *)
(* another machine may name an address that is not accepted.               *)
(***************************************************************************)
LEMMA ApplyProfileStep ==
    ASSUME PrefsInv, NEW id \in ProfileIds, ApplyProfile(id)
    PROVE  PrefsInv'
<1> DEFINE kept == copy.profiles.of[id]
           c == Activate(copy.profiles, id)
           d == Activate(said.profiles, id)
           p == [theme |-> kept.theme, nodes |-> kept.nodes, schemes |-> kept.schemes,
                 address |-> kept.address, profiles |-> c]
           q == [theme |-> kept.theme, nodes |-> kept.nodes, schemes |-> kept.schemes,
                 address |-> kept.address, profiles |-> d]
<1>1. Shown /\ id \in DOMAIN copy.profiles.of /\ Choose(p, q)
  BY DEF ApplyProfile
<1>2. copy.profiles \in SoundProfiles
  BY <1>1, CopyIsSound
<1>3. kept \in Snapshots
  BY <1>1, <1>2, ProfilesOut, PartialOut
<1>4. c \in SoundProfiles
  <2>1. c = [of |-> copy.profiles.of, active |-> id]
    BY <1>2, ProfilesOut DEF Activate
  <2> QED
    BY <1>1, <1>2, <2>1, ProfilesOut, ProfilesIn
<1>5. copy.profiles = said.profiles => c = d
  OBVIOUS
<1> HIDE DEF kept, c, d
<1>6. SoundPatch(p) /\ "layout" \notin DOMAIN p
  BY <1>3, <1>4 DEF SoundPatch, Fields, Snapshots
<1>7. Meant(p, q)
  BY <1>5 DEF Meant, Sections
<1> HIDE DEF p, q
<1> QED
  BY <1>1, <1>6, <1>7, ChooseStep

LEMMA EditProfilesStep ==
    ASSUME PrefsInv, EditProfiles
    PROVE  PrefsInv'
<1>1. ASSUME RenameProfile
      PROVE  PrefsInv'
  BY <1>1, CopyIsSound, ProfilesPatch DEF RenameProfile
<1>2. ASSUME NEW id \in ProfileIds, CreateProfile(id)
      PROVE  PrefsInv'
  <2>1. Shown /\ AddProfile(id, Current)
    BY <1>2 DEF CreateProfile
  <2>2. Current \in Snapshots
    BY <2>1, CopyIsSound, SettingsAssumption DEF Current, Snapshots
  <2> QED
    BY <2>1, <2>2, AddProfileStep
<1>3. ASSUME NEW id \in ProfileIds, NEW a \in Addresses, ImportProfile(id, a)
      PROVE  PrefsInv'
  <2> DEFINE x == [theme |-> "dark", nodes |-> FALSE, schemes |-> NoSchemes, address |-> a]
  <2>1. AddProfile(id, x)
    BY <1>3 DEF ImportProfile
  <2>2. NoSchemes \in SoundSchemes
    BY NothingIsPartial, SchemesIn DEF NoSchemes
  <2>3. x \in Snapshots
    BY <2>2 DEF Snapshots, Themes
  <2> HIDE DEF x
  <2> QED
    BY <2>1, <2>3, AddProfileStep
<1>4. ASSUME NEW id \in ProfileIds, DeleteProfile(id)
      PROVE  PrefsInv'
  <2> DEFINE c == copy.profiles
             o == [i \in DOMAIN c.of \ {id} |-> c.of[i]]
             x == IF c.active = id THEN None ELSE c.active
  <2>1. Shown /\ ChooseProfiles(Without(c, id), Without(said.profiles, id))
    BY <1>4 DEF DeleteProfile
  <2>2. c \in SoundProfiles
    BY <2>1, CopyIsSound
  <2>3. copy.profiles = said.profiles => Without(c, id) = Without(said.profiles, id)
    OBVIOUS
  <2> HIDE DEF c
  <2>4. o \in Partial(ProfileIds, Snapshots) /\ DOMAIN o = DOMAIN c.of \ {id}
    BY <2>2, ProfilesOut, RestIsPartial
  <2>5. x \in ProfileIds \union {None} /\ (x = None \/ x \in DOMAIN o)
    BY <2>2, <2>4, ProfilesOut
  <2>6. Without(c, id) = [of |-> o, active |-> x]
    BY DEF Without
  <2> HIDE DEF o, x
  <2>7. Without(c, id) \in SoundProfiles
    BY <2>4, <2>5, <2>6, ProfilesIn
  <2> QED
    BY <2>1, <2>3, <2>7, ProfilesPatch
<1> QED
  BY <1>1, <1>2, <1>3, <1>4, ApplyProfileStep DEF EditProfiles

-----------------------------------------------------------------------------
(***************************************************************************)
(* The invariant holds at the start and every step keeps it.               *)
(***************************************************************************)
LEMMA PrefsInvInit ==
    ASSUME PrefsInit
    PROVE  PrefsInv
<1>1. Defaults(Found) \in SoundSettings /\ Found \in Roots
  BY PreferencesAssumption, DefaultsAreSound
<1>2. Defaults(Found).layout = FirstArrangement
  BY DEF Defaults
<1>3. pushes \in Seq(SoundSettings) /\ Len(pushes) = 0 /\ NotOwed \in 0..NotOwed
  BY SettingsAssumption DEF PrefsInit, NotOwed
<1>4. ~Shown
  BY DEF PrefsInit, Shown
<1>5. Len(pushes) <= MaxPushes /\ failures \in 0..MaxFailures /\ edits \in 0..MaxEdits
  BY <1>3, SettingsAssumption, PreferencesAssumption DEF PrefsInit
<1>6. armed \in BOOLEAN /\ behind \subseteq Sections
  BY DEF PrefsInit
<1>7. SettingsTyped
  BY <1>1, <1>3, <1>4, <1>5, <1>6, FirstStrip DEF PrefsInit, SettingsTyped
<1> QED
  BY <1>1, <1>2, <1>4, <1>7
  DEF PrefsInv, PrefsInit, FileIsCurrent, EditsAreKept, LatestIsCurrent, LayoutsAreTheUsers

LEMMA PrefsInvNext ==
    ASSUME PrefsInv, [PrefsNext]_vars
    PROVE  PrefsInv'
<1>1. CASE UNCHANGED vars
  <2>1. UNCHANGED <<settings, disk, root, pushes, failures, copy, ui, armed, owed, said, behind,
                   had, edits>>
    BY <1>1 DEF vars, storeVars
  <2> QED
    BY <2>1 DEF PrefsInv, SettingsTyped, FileIsCurrent, EditsAreKept, LatestIsCurrent, Latest,
                LayoutsAreTheUsers, Shown, Nothing, NotOwed
<1>2. CASE PrefsNext
  BY <1>2, LoadStep, PushArrivesStep, AutoPersistStep, LeaveCustomStep, ReloadStep, RestartStep,
     EditTabsStep, EditLayoutsStep, EditFieldsStep, AddressingStep, EditSchemesStep,
     EditProfilesStep DEF PrefsNext
<1> QED
  BY <1>1, <1>2

(***************************************************************************)
(* The inductive invariant holds throughout, for any files, schemes,       *)
(* profiles, layouts and any numbers of pushes and failed writes (patch,   *)
(* validate, load, initialize, useLayoutPersistence).                      *)
(***************************************************************************)
THEOREM PrefsInvariant == PrefsSpec => []PrefsInv
<1>1. PrefsInit => PrefsInv
  BY PrefsInvInit
<1>2. PrefsInv /\ [PrefsNext]_vars => PrefsInv'
  BY PrefsInvNext
<1> QED
  BY <1>1, <1>2, PTL DEF PrefsSpec

(***************************************************************************)
(* The settings are what the user's changes amount to, but for a section   *)
(* that was sent from a copy of it that was behind: no patch, push, timer  *)
(* or restart undoes a change in another field, and none is refused        *)
(* (SettingsStore.patch, persist, load, useLayoutPersistence).             *)
(***************************************************************************)
THEOREM ChoicesAreKept == PrefsSpec => []EditsAreKept
<1>1. PrefsInv => EditsAreKept
  BY DEF PrefsInv
<1> QED
  BY <1>1, PrefsInvariant, PTL

(***************************************************************************)
(* A copy to which no push is on its way any more shows the settings in    *)
(* force, but for the address (settings.onChange, the pushes of main.ts).  *)
(***************************************************************************)
THEOREM TheCopyCatchesUp == PrefsSpec => []CopyCatchesUp
<1>1. PrefsInv => CopyCatchesUp
  BY DEF PrefsInv, CopyCatchesUp, LatestIsCurrent, Latest
<1> QED
  BY <1>1, PrefsInvariant, PTL

(***************************************************************************)
(* The settings are always ones the next start accepts, and no active tab  *)
(* is missing (validate, closeTab, TabLayoutsSection.save).                *)
(***************************************************************************)
THEOREM TheSettingsAreSound == PrefsSpec => []SettingsAreSound
<1>1. PrefsInv => SettingsAreSound
  <2>1. SUFFICES ASSUME PrefsInv
                 PROVE  PrefsTypeOK /\ ActiveTabExists
    BY DEF SettingsAreSound
  <2>2. SettingsTyped
    BY <2>1 DEF PrefsInv
  <2>3. \A s \in {settings, disk} :
           /\ Valid(s) /\ DOMAIN s = Fields /\ s.theme \in Themes /\ s.schemes \in Schemes
           /\ ActiveIsThere(s.layout) /\ \A id \in DOMAIN s.saved : ActiveIsThere(s.saved[id])
    BY <2>2, SoundIsValid DEF SettingsTyped
  <2>4. IsArrangement(ui) /\ ActiveIsThere(ui)
    BY <2>2, StripIsArrangement DEF SettingsTyped
  <2>5. Shown => DOMAIN copy = Fields
    BY <2>2, SoundIsValid DEF SettingsTyped
  <2>6. PrefsTypeOK
    BY <2>2, <2>3, <2>4, <2>5 DEF SettingsTyped, PrefsTypeOK
  <2>7. ActiveTabExists
    BY <2>3, <2>4 DEF ActiveTabExists
  <2> QED
    BY <2>6, <2>7
<1> QED
  BY <1>1, PrefsInvariant, PTL

(***************************************************************************)
(* The arrangement that is kept is one the user had in this session or     *)
(* found at its start (useLayoutPersistence, restoreLayout).               *)
(***************************************************************************)
THEOREM TheArrangementIsTheUsers == PrefsSpec => []ArrangementIsTheUsers
<1>1. PrefsInv => ArrangementIsTheUsers
  BY DEF PrefsInv, LayoutsAreTheUsers, ArrangementIsTheUsers
<1> QED
  BY <1>1, PrefsInvariant, PTL
=============================================================================
