--------------------------- MODULE WorkbenchProofs ---------------------------
(***************************************************************************)
(* Proofs about the panels of the workbench, for any runs, files, shells,  *)
(* models and requests and every bound: nothing stale is shown, nothing is *)
(* stuck, and what is shared is held by those it was given to.             *)
(***************************************************************************)
EXTENDS MC_Workbench, FiniteSetTheorems, SequenceTheorems, TLAPS

-----------------------------------------------------------------------------
(***************************************************************************)
(* The Explorer.  A load has its generation for itself; the one of the     *)
(* newest generation, of which there is one exactly while the sidebar      *)
(* loads, is of the run that is selected, and what it has read of a run    *)
(* that is over is what that run left.  Who joins a load joins this one.   *)
(***************************************************************************)
Version == [run : Runs, version : Nat]
Reading == [run : Runs, gen : Nat, got : {Unseen} \cup Version]

SidebarTyped ==
  /\ gen \in Nat /\ disk \in [Runs -> Nat] /\ chosen \in Runs /\ loading \in BOOLEAN
  /\ reads \subseteq Reading

LoadsApart == \A c \in reads : c.gen <= gen /\ \A d \in reads : c.gen = d.gen => c = d

NewestIsTheRuns ==
  \A c \in reads :
    /\ c.got # Unseen => c.got.run = c.run
    /\ c.gen = gen =>
         /\ c.run = chosen
         /\ c.got # Unseen /\ chosen \notin running => c.got.version = disk[chosen]

NewestReads == \E c \in reads : c.gen = gen
LoadIsAwaited ==
  /\ loading <=> NewestReads
  /\ inFlight # Unseen => inFlight.gen = gen /\ inFlight.run = chosen /\ NewestReads
  /\ chosen \in running => due = Timer \/ (NewestReads /\ due = Awaiting(gen))

SidebarInv ==
  SidebarTyped /\ LoadsApart /\ NewestIsTheRuns /\ LoadIsAwaited /\ TreeIsTheRuns

LEMMA SidebarInit ==
    ASSUME ExplorerInit
    PROVE  SidebarInv
  BY DEF ExplorerInit, SidebarInv, SidebarTyped, Version, Reading, LoadsApart, NewestIsTheRuns,
         NewestReads, LoadIsAwaited, TreeIsTheRuns

(***************************************************************************)
(* A load that starts is the newest, and outdates the others.              *)
(***************************************************************************)
LEMMA LoadStarts ==
    ASSUME SidebarTyped, LoadsApart, NewestIsTheRuns,
           NEW r \in Runs, NEW g \in Nat, g >= gen,
           gen' = g + 1, inFlight' = [run |-> r, gen |-> g + 1],
           reads' = reads \cup {[run |-> r, gen |-> g + 1, got |-> Unseen]},
           loading' = TRUE, chosen' = r, disk' \in [Runs -> Nat],
           chosen' \in running' => due' = Timer \/ due' = Awaiting(g + 1)
    PROVE  SidebarInv'
<1> DEFINE new == [run |-> r, gen |-> g + 1, got |-> Unseen]
<1>1. new \in Reading /\ new \in reads' /\ new.gen = g + 1 /\ new.run = r /\ new.got = Unseen
  BY DEF Reading
<1>2. gen' = g + 1 /\ g + 1 \in Nat /\ \A c \in reads : c \in Reading /\ c.gen <= g /\ c.gen \in Nat
  BY DEF SidebarTyped, LoadsApart, Reading
<1>3. \A c \in reads' : c = new \/ (c \in reads /\ c.gen # g + 1 /\ c.gen <= g + 1)
  BY <1>2
<1>4. reads' \subseteq Reading
  BY <1>1, <1>2
<1> HIDE DEF new
<1>5. SidebarTyped'
  BY <1>2, <1>4 DEF SidebarTyped
<1>6. LoadsApart'
  BY <1>1, <1>2, <1>3 DEF LoadsApart
<1>7. NewestIsTheRuns'
  BY <1>1, <1>2, <1>3 DEF NewestIsTheRuns
<1>8. NewestReads'
  BY <1>1, <1>2 DEF NewestReads
<1>9. LoadIsAwaited'
  BY <1>2, <1>8 DEF LoadIsAwaited
<1>10. TreeIsTheRuns'
  BY DEF TreeIsTheRuns
<1> QED
  BY <1>5, <1>6, <1>7, <1>9, <1>10 DEF SidebarInv

LEMMA RestartStarts ==
    ASSUME SidebarInv, NEW r \in Runs, Restart(r), chosen' = r, UNCHANGED disk
    PROVE  SidebarInv'
<1>1. gen + 1 \in Nat /\ gen + 1 >= gen /\ disk' \in [Runs -> Nat]
  BY DEF SidebarInv, SidebarTyped
<1>2. /\ gen' = gen + 1 + 1 /\ inFlight' = [run |-> r, gen |-> gen + 1 + 1]
      /\ reads' = reads \cup {[run |-> r, gen |-> gen + 1 + 1, got |-> Unseen]}
      /\ loading' = TRUE /\ due' = Awaiting(gen + 1 + 1)
  BY DEF Restart, Restarted
<1> QED
  BY <1>1, <1>2, LoadStarts DEF SidebarInv

(***************************************************************************)
(* A load that ends was the newest one, or makes no difference.            *)
(***************************************************************************)
LEMMA LoadEnds ==
    ASSUME SidebarInv, NEW c \in reads, Ends(c), UNCHANGED <<gen, chosen, disk, running>>
    PROVE  SidebarTyped' /\ LoadsApart' /\ NewestIsTheRuns' /\ LoadIsAwaited'
<1>1. SidebarTyped' /\ LoadsApart' /\ NewestIsTheRuns'
  BY DEF SidebarInv, SidebarTyped, LoadsApart, NewestIsTheRuns, Ends, IsCurrent
<1>2. CASE c.gen = gen
  <2>1. ~NewestReads' /\ loading' = FALSE
    BY <1>2 DEF SidebarInv, LoadsApart, NewestReads, Ends, IsCurrent
  <2>2. inFlight' = Unseen
    BY <1>2 DEF SidebarInv, LoadIsAwaited, Ends
  <2>3. chosen' \in running' => due' = Timer
    BY <1>2 DEF SidebarInv, LoadIsAwaited, Ends
  <2> QED
    BY <1>1, <2>1, <2>2, <2>3 DEF LoadIsAwaited
<1>3. CASE c.gen # gen
  <2>1. NewestReads' <=> NewestReads
    BY <1>3 DEF NewestReads, Ends
  <2>2. loading' = loading
    BY <1>3 DEF Ends, IsCurrent, SidebarInv, SidebarTyped
  <2>3. inFlight' = inFlight
    BY <1>3 DEF SidebarInv, LoadIsAwaited, Ends
  <2>4. Awaiting(c.gen) # Awaiting(gen) /\ Timer # Awaiting(c.gen)
    BY <1>3 DEF Awaiting, Timer
  <2>5. chosen' \in running' => due' = due
    BY <2>4 DEF SidebarInv, LoadIsAwaited, Ends
  <2> QED
    BY <1>1, <2>1, <2>2, <2>3, <2>5 DEF LoadIsAwaited, SidebarInv
<1> QED
  BY <1>2, <1>3

LEMMA LoadStep ==
    ASSUME SidebarInv, Load(chosen), UNCHANGED <<chosen, disk, running, root, summary, treeError>>,
           due' = due \/ due' = Awaiting(inFlight'.gen),
           due = Timer \/ ~loading
    PROVE  SidebarInv'
<1>1. CASE Joinable(chosen)
  <2>1. /\ UNCHANGED <<gen, inFlight, reads, loading>>
        /\ inFlight.gen = gen /\ NewestReads
    BY <1>1 DEF Load, Joinable, SidebarInv, LoadIsAwaited
  <2>2. due' = due \/ due' = Awaiting(gen)
    BY <2>1
  <2>3. LoadIsAwaited'
    BY <2>1, <2>2 DEF SidebarInv, LoadIsAwaited, NewestReads
  <2> QED
    BY <2>1, <2>3 DEF SidebarInv, SidebarTyped, LoadsApart, NewestIsTheRuns, TreeIsTheRuns
<1>2. CASE ~Joinable(chosen)
  <2>1. /\ gen' = gen + 1 /\ inFlight' = [run |-> chosen, gen |-> gen + 1]
        /\ reads' = reads \cup {[run |-> chosen, gen |-> gen + 1, got |-> Unseen]}
        /\ loading' = TRUE
    BY <1>2 DEF Load
  <2>2. gen \in Nat /\ gen >= gen /\ chosen \in Runs /\ disk' \in [Runs -> Nat]
    BY DEF SidebarInv, SidebarTyped
  <2>3. chosen \in running => due = Timer
    BY DEF SidebarInv, LoadIsAwaited
  <2>4. chosen' \in running' => due' = Timer \/ due' = Awaiting(gen + 1)
    BY <2>1, <2>3
  <2> QED
    BY <2>1, <2>2, <2>4, LoadStarts DEF SidebarInv
<1> QED
  BY <1>1, <1>2

LEMMA SummaryReads ==
    ASSUME SidebarInv, NEW c \in reads, SummaryAnswers(c)
    PROVE  SidebarInv'
<1>1. UNCHANGED <<gen, chosen, disk, running, root, summary, treeError>> /\ c.got = Unseen
  BY DEF SummaryAnswers
<1>2. CASE IsCurrent(c)
  <2> DEFINE d == [c EXCEPT !.got = [run |-> c.run, version |-> disk[c.run]]]
  <2>1. /\ reads' = (reads \ {c}) \cup {d} /\ UNCHANGED <<loading, inFlight, due>>
        /\ c.gen = gen
    BY <1>2 DEF SummaryAnswers, IsCurrent
  <2>2. c \in Reading /\ disk[c.run] \in Nat /\ c.run = chosen
    BY <2>1 DEF SidebarInv, SidebarTyped, NewestIsTheRuns, Reading
  <2>3. /\ d \in Reading /\ d.gen = gen /\ d.run = chosen /\ d.got.run = chosen
        /\ d.got.version = disk[chosen]
    BY <2>1, <2>2 DEF Reading, Version
  <2> HIDE DEF d
  <2>4. SidebarTyped'
    BY <1>1, <2>1, <2>3 DEF SidebarInv, SidebarTyped
  <2>5. LoadsApart'
    BY <1>1, <2>1, <2>3 DEF SidebarInv, SidebarTyped, LoadsApart
  <2>6. NewestIsTheRuns'
    BY <1>1, <2>1, <2>3 DEF SidebarInv, NewestIsTheRuns
  <2>7. NewestReads' /\ NewestReads
    BY <1>1, <2>1, <2>3 DEF NewestReads
  <2> QED
    BY <1>1, <2>1, <2>4, <2>5, <2>6, <2>7 DEF SidebarInv, LoadIsAwaited, TreeIsTheRuns
<1>3. CASE ~IsCurrent(c)
  <2>1. Ends(c) /\ loading' = loading
    BY <1>3 DEF SummaryAnswers, Ends, SidebarInv, SidebarTyped
  <2> QED
    BY <1>1, <2>1, LoadEnds DEF SidebarInv, TreeIsTheRuns
<1> QED
  BY <1>2, <1>3

(***************************************************************************)
(* The answer of the newest load is shown; a late one ends its load only.  *)
(***************************************************************************)
LEMMA TreeReads ==
    ASSUME SidebarInv, NEW c \in reads, TreeAnswers(c)
    PROVE  SidebarInv'
<1>1. UNCHANGED <<gen, chosen, disk, running>> /\ Ends(c) /\ c.got # Unseen
  BY DEF TreeAnswers
<1>2. SidebarTyped' /\ LoadsApart' /\ NewestIsTheRuns' /\ LoadIsAwaited'
  BY <1>1, LoadEnds
<1>3. CASE IsCurrent(c)
  <2>1. summary' = c.got /\ root' = [run |-> c.run, version |-> disk[c.run]]
    BY <1>3 DEF TreeAnswers
  <2>2. c.run = chosen /\ c.got.run = chosen
        /\ (chosen \notin running => c.got.version = disk[chosen])
    BY <1>1, <1>3 DEF SidebarInv, NewestIsTheRuns, IsCurrent
  <2>3. root' \in Version
    BY <2>1, <2>2 DEF SidebarInv, SidebarTyped, Version
  <2>4. root' # Unseen
    BY <2>3, ExplorerAssumption DEF Version
  <2> QED
    BY <1>1, <1>2, <2>1, <2>2, <2>4 DEF TreeIsTheRuns, SidebarInv
<1>4. CASE ~IsCurrent(c)
  <2>1. UNCHANGED <<treeError, summary, root>> /\ loading' = loading
    BY <1>4 DEF TreeAnswers, Ends, SidebarInv, SidebarTyped
  <2> QED
    BY <1>1, <1>2, <2>1 DEF SidebarInv, TreeIsTheRuns
<1> QED
  BY <1>3, <1>4

LEMMA ReadFails ==
    ASSUME SidebarInv, NEW c \in reads, SummaryFails(c) \/ TreeFails(c)
    PROVE  SidebarInv'
<1>1. UNCHANGED <<gen, chosen, disk, running>> /\ Ends(c)
  BY DEF SummaryFails, TreeFails
<1>2. SidebarTyped' /\ LoadsApart' /\ NewestIsTheRuns' /\ LoadIsAwaited'
  BY <1>1, LoadEnds
<1>3. CASE IsCurrent(c)
  BY <1>2, <1>3 DEF SummaryFails, TreeFails, TreeIsTheRuns, SidebarInv
<1>4. CASE ~IsCurrent(c)
  <2>1. UNCHANGED <<treeError, summary, root>> /\ loading' = loading
    BY <1>4 DEF SummaryFails, TreeFails, Ends, SidebarInv, SidebarTyped
  <2> QED
    BY <1>1, <1>2, <2>1 DEF SidebarInv, TreeIsTheRuns
<1> QED
  BY <1>3, <1>4

LEMMA SidebarStep ==
    ASSUME SidebarInv, SidebarNext
    PROVE  SidebarInv'
<1>1. ASSUME NEW r \in Runs, Select(r)
      PROVE  SidebarInv'
  BY <1>1, RestartStarts DEF Select
<1>2. ASSUME NEW r \in Runs, RunEnds(r)
      PROVE  SidebarInv'
  <2>1. CASE r = chosen
    BY <1>2, <2>1, RestartStarts DEF RunEnds
  <2>2. CASE r # chosen
    <3>1. UNCHANGED <<gen, inFlight, reads, due, loading, disk, chosen, treeError, summary, root>>
          /\ running' = running \ {r}
      BY <1>2, <2>2 DEF RunEnds
    <3> QED
      BY <2>2, <3>1 DEF SidebarInv, SidebarTyped, LoadsApart, NewestIsTheRuns, LoadIsAwaited,
                        NewestReads, TreeIsTheRuns
  <2> QED
    BY <2>1, <2>2
<1>3. ASSUME NEW r \in Runs, WorkerWrites(r)
      PROVE  SidebarInv'
  <2>1. /\ UNCHANGED <<gen, inFlight, reads, due, loading, running, chosen, treeError, summary, root>>
        /\ r \in running /\ disk' = [disk EXCEPT ![r] = @ + 1]
    BY <1>3 DEF WorkerWrites
  <2>2. disk' \in [Runs -> Nat] /\ (chosen \notin running => disk'[chosen] = disk[chosen])
    BY <2>1 DEF SidebarInv, SidebarTyped
  <2> QED
    BY <2>1, <2>2 DEF SidebarInv, SidebarTyped, LoadsApart, NewestIsTheRuns, LoadIsAwaited,
                      NewestReads, TreeIsTheRuns
<1>4. CASE Refresh
  BY <1>4, LoadStep DEF Refresh
<1>5. CASE Tick
  BY <1>5, LoadStep DEF Tick
<1>6. CASE Remount
  BY <1>6, RestartStarts DEF Remount, SidebarInv, SidebarTyped
<1>7. ASSUME NEW c \in reads, SummaryAnswers(c) \/ SummaryFails(c) \/ TreeAnswers(c) \/ TreeFails(c)
      PROVE  SidebarInv'
  BY <1>7, SummaryReads, TreeReads, ReadFails
<1> QED
  BY <1>1, <1>2, <1>3, <1>4, <1>5, <1>6, <1>7 DEF SidebarNext

(***************************************************************************)
(* The viewer reads for one tab at a time.                                 *)
(***************************************************************************)
ViewerInv == asked \subseteq {viewed} /\ ViewerIsTheFiles

LEMMA ViewerInit ==
    ASSUME ExplorerInit
    PROVE  ViewerInv
  BY DEF ExplorerInit, ViewerInv, ViewerIsTheFiles

LEMMA ViewerStep ==
    ASSUME ViewerInv, ViewerNext
    PROVE  ViewerInv'
<1>1. ASSUME NEW f \in Files, OpenFile(f)
      PROVE  ViewerInv'
  BY <1>1 DEF OpenFile, ViewerInv, ViewerIsTheFiles
<1>2. ASSUME NEW f \in Files, FileAnswers(f)
      PROVE  ViewerInv'
  BY <1>2 DEF FileAnswers, ViewerInv, ViewerIsTheFiles, Content
<1> QED
  BY <1>1, <1>2 DEF ViewerNext

-----------------------------------------------------------------------------
(***************************************************************************)
(* The graph canvas.  What was laid out last is the layout of what is on   *)
(* the canvas now: the key tells every change of it, because a run's nodes *)
(* only grow while its edge list stays the same.  And whenever the effects *)
(* have run the pins are those of the run on the canvas.                   *)
(***************************************************************************)
Drawing == [nodes : SUBSET GraphNodes, edges : SUBSET (GraphNodes \X GraphNodes), ref : Nat]
LayoutKey ==
  IF canvas = NoRun THEN <<NoRun>>
  ELSE <<canvas, live[canvas].ref, Cardinality(live[canvas].nodes), look, pins>>
Layout ==
  IF canvas = NoRun THEN [key |-> LayoutKey, places |-> <<>>, drawn |-> {}]
  ELSE [key |-> LayoutKey, drawn |-> EdgesOf(live[canvas]),
        places |-> [n \in live[canvas].nodes |-> IF n \in DOMAIN pins THEN pins[n] ELSE canvas]]
GraphTyped == live \in [GraphRuns -> Drawing] /\ canvas \in GraphRuns \cup {NoRun}

GraphInv ==
  /\ GraphTyped
  /\ memo = Layout
  /\ canvas = lastExecId => \A n \in DOMAIN pins : pins[n] = canvas

LEMMA LayoutIsTheRuns ==
    ASSUME GraphInv
    PROVE  GraphIsTheRuns
<1>1. CASE canvas = NoRun
  BY <1>1 DEF GraphInv, Layout, GraphIsTheRuns
<1>2. CASE canvas # NoRun
  BY <1>2 DEF GraphInv, Layout, GraphIsTheRuns
<1> QED
  BY <1>1, <1>2

LEMMA GraphStarts ==
    ASSUME GraphInit
    PROVE  GraphInv
<1>1. GraphTyped
  BY DEF GraphInit, GraphTyped, Drawing
<1>2. memo = Layout
  BY DEF GraphInit, Layout, LayoutKey
<1> QED
  BY <1>1, <1>2 DEF GraphInit, GraphInv

(***************************************************************************)
(* A render lays out anew, unless nothing that is drawn has changed.       *)
(***************************************************************************)
LEMMA Rendered ==
    ASSUME GraphInv, Render, GraphTyped', LayoutKey' = LayoutKey => Layout' = Layout
    PROVE  memo' = Layout'
<1>1. Key(canvas', look', pins') = LayoutKey'
  BY DEF Key, LayoutKey
<1>2. memo.key = LayoutKey /\ memo = Layout
  BY DEF GraphInv, Layout
<1>3. CASE LayoutKey' = LayoutKey
  BY <1>1, <1>2, <1>3 DEF Render
<1>4. CASE LayoutKey' # LayoutKey
  BY <1>1, <1>2, <1>4 DEF Render, Layout
<1> QED
  BY <1>3, <1>4

(***************************************************************************)
(* The same number of nodes and none of them gone: the same nodes.         *)
(***************************************************************************)
LEMMA SameNumber ==
    ASSUME NEW S \in SUBSET GraphNodes, NEW T \in SUBSET GraphNodes, S \subseteq T,
           Cardinality(S) = Cardinality(T)
    PROVE  S = T
<1>1. IsFiniteSet(T)
  BY GraphAssumption, FS_Subset DEF GraphAssumption
<1> QED
  BY <1>1, FS_Subset

LEMMA NodeArrivesStep ==
    ASSUME GraphInv, NEW r \in GraphRuns, NEW n \in GraphNodes, NodeArrives(r, n)
    PROVE  GraphInv'
<1>1. /\ live' = [live EXCEPT ![r].nodes = @ \cup {n}] /\ n \notin live[r].nodes
      /\ UNCHANGED <<canvas, pins, lastExecId, look>> /\ Render
  BY DEF NodeArrives
<1>2. GraphTyped'
  BY <1>1 DEF GraphInv, GraphTyped, Drawing
<1>3. ASSUME LayoutKey' = LayoutKey
      PROVE  Layout' = Layout
  <2>1. CASE canvas = NoRun
    BY <1>1, <2>1 DEF Layout, LayoutKey
  <2>2. CASE canvas # NoRun
    <3>1. canvas \in GraphRuns /\ live[canvas].nodes \in SUBSET GraphNodes
          /\ live'[canvas].nodes \in SUBSET GraphNodes /\ live[canvas].nodes \subseteq live'[canvas].nodes
      BY <1>1, <1>2, <2>2 DEF GraphInv, GraphTyped, Drawing
    <3>2. Cardinality(live'[canvas].nodes) = Cardinality(live[canvas].nodes)
      BY <1>1, <1>3, <2>2 DEF LayoutKey
    <3>3. live'[canvas].nodes = live[canvas].nodes
      BY <3>1, <3>2, SameNumber
    <3>4. canvas # r
      BY <1>1, <3>1, <3>3 DEF GraphInv, GraphTyped, Drawing
    <3>5. live'[canvas] = live[canvas]
      BY <1>1, <3>1, <3>4 DEF GraphInv, GraphTyped
    <3> QED
      BY <1>1, <2>2, <3>5 DEF Layout, LayoutKey
  <2> QED
    BY <2>1, <2>2
<1>4. memo' = Layout'
  BY <1>1, <1>2, <1>3, Rendered
<1> QED
  BY <1>1, <1>2, <1>4 DEF GraphInv

(***************************************************************************)
(* A new edge list is another list.                                        *)
(***************************************************************************)
LEMMA NewEdges ==
    ASSUME GraphInv, NEW r \in GraphRuns, NEW d \in Drawing,
           live' = [live EXCEPT ![r] = d], d.ref = live[r].ref + 1,
           UNCHANGED <<canvas, pins, lastExecId, look>>, Render
    PROVE  GraphInv'
<1>1. GraphTyped'
  BY DEF GraphInv, GraphTyped
<1>2. ASSUME LayoutKey' = LayoutKey
      PROVE  Layout' = Layout
  <2>1. CASE canvas = NoRun
    BY <2>1 DEF Layout, LayoutKey
  <2>2. CASE canvas # NoRun
    <3>1. canvas \in GraphRuns /\ live'[canvas].ref = live[canvas].ref
      BY <1>2, <2>2 DEF LayoutKey, GraphInv, GraphTyped
    <3>2. live[r].ref \in Nat
      BY DEF GraphInv, GraphTyped, Drawing
    <3>3. canvas # r
      BY <3>1, <3>2 DEF GraphInv, GraphTyped
    <3>4. live'[canvas] = live[canvas]
      BY <3>1, <3>3 DEF GraphInv, GraphTyped
    <3> QED
      BY <2>2, <3>4 DEF Layout, LayoutKey
  <2> QED
    BY <2>1, <2>2
<1>3. memo' = Layout'
  BY <1>1, <1>2, Rendered
<1> QED
  BY <1>1, <1>3 DEF GraphInv

LEMMA EdgesArriveStep ==
    ASSUME GraphInv, NEW r \in GraphRuns, NEW es \in SUBSET (GraphNodes \X GraphNodes),
           EdgesArrive(r, es)
    PROVE  GraphInv'
<1> DEFINE d == [nodes |-> live[r].nodes \cup {e[1] : e \in es} \cup {e[2] : e \in es},
                 edges |-> es, ref |-> live[r].ref + 1]
<1>1. live[r] \in Drawing
  BY DEF GraphInv, GraphTyped
<1>2. d \in Drawing /\ d.ref = live[r].ref + 1
  BY <1>1 DEF Drawing
<1>3. live' = [live EXCEPT ![r] = d] /\ UNCHANGED <<canvas, pins, lastExecId, look>> /\ Render
  BY DEF EdgesArrive
<1> HIDE DEF d
<1> QED
  BY <1>2, <1>3, NewEdges

LEMMA ReplayStep ==
    ASSUME GraphInv, NEW ns \in SUBSET GraphNodes, Replay(ns)
    PROVE  GraphInv'
<1> DEFINE d == [nodes |-> ns, edges |-> {e \in live[canvas].edges : {e[1], e[2]} \subseteq ns},
                 ref |-> live[canvas].ref + 1]
<1>1. canvas \in GraphRuns /\ live[canvas] \in Drawing
  BY DEF GraphInv, GraphTyped, Replay
<1>2. d \in Drawing /\ d.ref = live[canvas].ref + 1
  BY <1>1 DEF Drawing
<1>3. live' = [live EXCEPT ![canvas] = d] /\ UNCHANGED <<canvas, pins, lastExecId, look>> /\ Render
  BY DEF Replay
<1> HIDE DEF d
<1> QED
  BY <1>1, <1>2, <1>3, NewEdges

LEMMA GraphStep ==
    ASSUME GraphInv, GraphNext
    PROVE  GraphInv'
<1>1. ASSUME EffectRuns
      PROVE  GraphInv'
  <2>1. UNCHANGED <<live, canvas, look>> /\ pins' = <<>> /\ Render
    BY <1>1 DEF EffectRuns, DropPins
  <2>2. GraphTyped' /\ DOMAIN pins' = {}
    BY <2>1 DEF GraphInv, GraphTyped
  <2>3. LayoutKey' = LayoutKey => Layout' = Layout
    BY <2>1 DEF Layout, LayoutKey
  <2>4. memo' = Layout'
    BY <2>1, <2>2, <2>3, Rendered
  <2> QED
    BY <2>2, <2>4 DEF GraphInv
<1>2. ASSUME NEW r \in GraphRuns \cup {NoRun}, Show(r), canvas = lastExecId
      PROVE  GraphInv'
  <2>1. canvas' = r /\ r # canvas /\ UNCHANGED <<live, pins, lastExecId, look>> /\ Render
    BY <1>2 DEF Show
  <2>2. GraphTyped'
    BY <2>1 DEF GraphInv, GraphTyped
  <2>3. LayoutKey' # LayoutKey
    BY <2>1 DEF LayoutKey
  <2>4. memo' = Layout'
    BY <2>1, <2>2, <2>3, Rendered
  <2> QED
    BY <1>2, <2>1, <2>2, <2>4 DEF GraphInv
<1>3. ASSUME NEW n \in GraphNodes, Drag(n), canvas = lastExecId
      PROVE  GraphInv'
  <2>1. /\ UNCHANGED <<live, canvas, lastExecId, look>> /\ Render
        /\ pins' = [m \in DOMAIN pins \cup {n} |-> IF m = n THEN canvas ELSE pins[m]]
    BY <1>3 DEF Drag
  <2>2. GraphTyped'
    BY <2>1 DEF GraphInv, GraphTyped
  <2>3. ASSUME LayoutKey' = LayoutKey
        PROVE  Layout' = Layout
    <3>1. canvas # NoRun
      BY <1>3 DEF Drag
    <3>2. pins' = pins
      BY <2>1, <2>3, <3>1 DEF LayoutKey
    <3> QED
      BY <2>1, <3>2 DEF Layout, LayoutKey
  <2>4. memo' = Layout'
    BY <2>1, <2>2, <2>3, Rendered
  <2>5. \A m \in DOMAIN pins' : pins'[m] = canvas
    BY <1>3, <2>1 DEF GraphInv
  <2> QED
    BY <2>1, <2>2, <2>4, <2>5 DEF GraphInv
<1>4. ASSUME NEW l \in {0, 1}, Relayout(l)
      PROVE  GraphInv'
  <2>1. UNCHANGED <<live, canvas, lastExecId>> /\ look' = l /\ pins' = <<>> /\ Render
    BY <1>4 DEF Relayout
  <2>2. GraphTyped' /\ DOMAIN pins' = {}
    BY <2>1 DEF GraphInv, GraphTyped
  <2>3. LayoutKey' = LayoutKey => Layout' = Layout
    BY <2>1 DEF Layout, LayoutKey
  <2>4. memo' = Layout'
    BY <2>1, <2>2, <2>3, Rendered
  <2> QED
    BY <2>2, <2>4 DEF GraphInv
<1> QED
  BY <1>1, <1>2, <1>3, <1>4, NodeArrivesStep, EdgesArriveStep, ReplayStep DEF GraphNext

-----------------------------------------------------------------------------
(***************************************************************************)
(* The models section.  Toggles leave the buttons alone: what disables     *)
(* them is a load, a bulk or a change of a provider, and whichever of them *)
(* ends enables them or starts a load.                                     *)
(***************************************************************************)
CallFields == {"kind", "models", "served", "ok", "got", "gone", "n"}
CatalogInv ==
  /\ \A c \in calls : DOMAIN c = CallFields
  /\ busy => \E c \in calls : c.kind # "toggle" /\ ~c.gone

LEMMA CatalogStarts ==
    ASSUME CatalogInit
    PROVE  CatalogInv
  BY DEF CatalogInit, CatalogInv

LEMMA CallOfKind ==
    ASSUME NEW kind, NEW ms, NEW cs
    PROVE  /\ Call(kind, ms, cs).kind = kind /\ DOMAIN Call(kind, ms, cs) = CallFields
           /\ ~Call(kind, ms, cs).gone
  BY DEF Call, CallFields

LEMMA LoadingKeeps ==
    ASSUME CatalogInv, NEW cs, \A c \in cs : DOMAIN c = CallFields, Loading(cs)
    PROVE  CatalogInv'
<1>1. calls' = cs \cup {Call("load", {}, cs)}
  BY DEF Loading
<1> QED
  BY <1>1, CallOfKind DEF CatalogInv

LEMMA CallMade ==
    ASSUME CatalogInv, NEW kind, NEW ms, calls' = calls \cup {Call(kind, ms, calls)},
           busy' = busy \/ (busy' = TRUE /\ kind # "toggle")
    PROVE  CatalogInv'
  BY CallOfKind DEF CatalogInv

(***************************************************************************)
(* What the runtime does to a call leaves it what it is.                   *)
(***************************************************************************)
LEMMA CallServed ==
    ASSUME CatalogInv, NEW c \in calls, NEW d, calls' = (calls \ {c}) \cup {d},
           DOMAIN d = CallFields, d.kind = c.kind, d.gone = c.gone, UNCHANGED busy
    PROVE  CatalogInv'
  BY DEF CatalogInv

LEMMA GivenUpIs ==
    ASSUME CatalogInv, NEW c \in calls, NEW ms
    PROVE  \A d \in GivenUp(c, ms) : DOMAIN d = CallFields
<1>1. DOMAIN [c EXCEPT !.gone = TRUE, !.models = ms] = CallFields
  BY DEF CatalogInv
<1> QED
  BY <1>1 DEF GivenUp, CatalogInv

LEMMA CatalogStep ==
    ASSUME CatalogInv, CatalogNext
    PROVE  CatalogInv'
<1>1. CASE GoOnline
  BY <1>1, LoadingKeeps DEF GoOnline, CatalogInv
<1>2. CASE GoOffline
  BY <1>2 DEF GoOffline, CatalogInv
<1>3. ASSUME NEW ms \in SUBSET Models, SetFilters(ms)
      PROVE  CatalogInv'
  BY <1>3 DEF SetFilters, CatalogInv
<1>4. ASSUME NEW m \in Models, Toggle(m)
      PROVE  CatalogInv'
  <2>1. calls' = calls \cup {Call("toggle", {m}, calls)} /\ busy' = busy
    BY <1>4 DEF Toggle
  <2> QED
    BY <2>1, CallMade
<1>5. ASSUME NEW b \in BOOLEAN, Bulk(b)
      PROVE  CatalogInv'
  <2>1. PICK ms : calls' = calls \cup {Call("bulk", ms, calls)} /\ busy' = TRUE
    BY <1>5 DEF Bulk
  <2> QED
    BY <2>1, CallMade
<1>6. ASSUME NEW kind \in ProviderKinds, ChangeProvider(kind)
      PROVE  CatalogInv'
  <2>1. calls' = calls \cup {Call(kind, {}, calls)} /\ busy' = TRUE /\ kind # "toggle"
    BY <1>6 DEF ChangeProvider, ProviderKinds
  <2> QED
    BY <2>1, CallMade
<1>7. ASSUME NEW c \in calls, ServeLoad(c)
      PROVE  CatalogInv'
  <2> DEFINE d == [c EXCEPT !.served = TRUE, !.got = enabled]
  <2>1. calls' = (calls \ {c}) \cup {d} /\ UNCHANGED busy /\ DOMAIN c = CallFields
    BY <1>7 DEF ServeLoad, CatalogInv
  <2>2. DOMAIN d = CallFields /\ d.kind = c.kind /\ d.gone = c.gone
    BY <2>1 DEF CallFields
  <2> HIDE DEF d
  <2> QED
    BY <2>1, <2>2, CallServed
<1>8. ASSUME NEW c \in calls, ServeToggle(c)
      PROVE  CatalogInv'
  <2> DEFINE d == [c EXCEPT !.served = TRUE, !.ok = c.models \subseteq DOMAIN enabled]
  <2>1. calls' = (calls \ {c}) \cup {d} /\ UNCHANGED busy /\ DOMAIN c = CallFields
    BY <1>8 DEF ServeToggle, CatalogInv
  <2>2. DOMAIN d = CallFields /\ d.kind = c.kind /\ d.gone = c.gone
    BY <2>1 DEF CallFields
  <2> HIDE DEF d
  <2> QED
    BY <2>1, <2>2, CallServed
<1>9. ASSUME NEW c \in calls, ServeBulk(c)
      PROVE  CatalogInv'
  <2>1. PICK m \in c.models :
          calls' = (calls \ {c}) \cup
                     {[c EXCEPT !.models = @ \ {m}, !.served = (@ \/ c.models = {m})]}
    BY <1>9 DEF ServeBulk
  <2> DEFINE d == [c EXCEPT !.models = @ \ {m}, !.served = (@ \/ c.models = {m})]
  <2>2. calls' = (calls \ {c}) \cup {d} /\ UNCHANGED busy /\ DOMAIN c = CallFields
    BY <1>9, <2>1 DEF ServeBulk, CatalogInv
  <2>3. DOMAIN d = CallFields /\ d.kind = c.kind /\ d.gone = c.gone
    BY <2>2 DEF CallFields
  <2> HIDE DEF d
  <2> QED
    BY <2>2, <2>3, CallServed
<1>10. ASSUME NEW c \in calls, StartDiscovery(c)
       PROVE  CatalogInv'
  <2> DEFINE d == [c EXCEPT !.got = enabled]
  <2>1. calls' = (calls \ {c}) \cup {d} /\ UNCHANGED busy /\ DOMAIN c = CallFields
    BY <1>10 DEF StartDiscovery, CatalogInv
  <2>2. DOMAIN d = CallFields /\ d.kind = c.kind /\ d.gone = c.gone
    BY <2>1 DEF CallFields
  <2> HIDE DEF d
  <2> QED
    BY <2>1, <2>2, CallServed
<1>11. ASSUME NEW c \in calls, EndDiscovery(c)
       PROVE  CatalogInv'
  <2> DEFINE d == [c EXCEPT !.served = TRUE]
  <2>1. calls' = (calls \ {c}) \cup {d} /\ UNCHANGED busy /\ DOMAIN c = CallFields
    BY <1>11 DEF EndDiscovery, CatalogInv
  <2>2. DOMAIN d = CallFields /\ d.kind = c.kind /\ d.gone = c.gone
    BY <2>1 DEF CallFields
  <2> HIDE DEF d
  <2> QED
    BY <2>1, <2>2, CallServed
<1>12. ASSUME NEW c \in calls, LoadAnswers(c) \/ LoadFails(c) \/ ProviderFails(c)
       PROVE  CatalogInv'
  <2>1. \A d \in GivenUp(c, {}) : DOMAIN d = CallFields
    BY GivenUpIs DEF CatalogInv
  <2> QED
    BY <1>12, <2>1 DEF LoadAnswers, LoadFails, ProviderFails, CatalogInv
<1>13. ASSUME NEW c \in calls, ToggleAnswers(c) \/ GivenUpEnds(c)
       PROVE  CatalogInv'
  BY <1>13 DEF ToggleAnswers, GivenUpEnds, CatalogInv
<1>14. ASSUME NEW c \in calls, ToggleFails(c) \/ BulkEnds(c) \/ ProviderAnswers(c)
       PROVE  CatalogInv'
  <2>1. \A ms : \A d \in GivenUp(c, ms) : DOMAIN d = CallFields
    BY GivenUpIs
  <2>2. \A d \in calls \ {c} : DOMAIN d = CallFields
    BY DEF CatalogInv
  <2>3. PICK cs : Loading(cs) /\ \A d \in cs : DOMAIN d = CallFields
    BY <1>14, <2>1, <2>2 DEF ToggleFails, BulkEnds, ProviderAnswers
  <2> QED
    BY <2>3, LoadingKeeps
<1> QED
  BY <1>1, <1>2, <1>3, <1>4, <1>5, <1>6, <1>7, <1>8, <1>9, <1>10, <1>11, <1>12, <1>13, <1>14
  DEF CatalogNext

-----------------------------------------------------------------------------
(***************************************************************************)
(* The preview.  A probe that found its address up is the last that did.   *)
(***************************************************************************)
PreviewInv == probe # NoOne /\ probe.up => lastUp = probe.key

LEMMA FrameFollows ==
    ASSUME PreviewInv
    PROVE  FrameIsProbed
  BY DEF PreviewInv, FrameIsProbed, Reachable

LEMMA PreviewStep ==
    ASSUME PreviewInv, DockNext
    PROVE  PreviewInv'
<1>1. ASSUME UNCHANGED <<probe, lastUp>>
      PROVE  PreviewInv'
  BY <1>1 DEF PreviewInv
<1>2. ASSUME probe' = NoOne
      PROVE  PreviewInv'
  BY <1>2 DEF PreviewInv
<1>3. CASE ProbeEnds
  BY <1>3 DEF ProbeEnds, PreviewInv
<1> QED
  BY <1>1, <1>2, <1>3
  DEF DockNext, RestartTerminal, HideDock, ShowDock, WorkspaceAnswers, SpawnShell, ShellStarted,
      ShellExited, ShellEnds, StopSession, StopShell, ReloadWindow, Navigate, ReloadPreview,
      ShellPrints, ServerComesOrGoes, previewVars

-----------------------------------------------------------------------------
(***************************************************************************)
(* The terminal.  A start is announced before the exit of its shell; the   *)
(* exit says that the shell is no more; and of the asks, the answers on    *)
(* their way and the session only one is of the panel's effect, so that an *)
(* answer never takes the place of a session that nobody stops then.       *)
(***************************************************************************)
Message == [type : {"started", "exit"}, id : Shells, effect : Nat]
Ask == [effect : Nat, stage : {"summary", "start"}]
ShellsTyped ==
  /\ shells \subseteq Shells /\ dying \subseteq Shells /\ session \in Shells \cup {NoOne}
  /\ pushes \in Seq(Message) /\ asks \subseteq Ask /\ effect \in Nat \ {0}

Starts(i, id) == i \in DOMAIN pushes /\ pushes[i].type = "started" /\ pushes[i].id = id
Exits(i, id) == i \in DOMAIN pushes /\ pushes[i].type = "exit" /\ pushes[i].id = id

Owned == \A id \in shells : id = session \/ id \in stops \cup orphans \/ \E i \in Nat : Starts(i, id)
Lives == session # NoOne => session \in shells \cup dying \/ \E i \in Nat : Exits(i, session)
StartBeforeExit ==
  \A i \in Nat, id \in Shells :
    Starts(i, id) => id \in shells \cup dying \/ \E j \in Nat : j > i /\ Exits(j, id)
ExitIsLast == \A i \in Nat, id \in Shells : Exits(i, id) => id \notin shells \cup dying

AnswersTo(i, e) == i \in DOMAIN pushes /\ pushes[i].type = "started" /\ pushes[i].effect = e
OneStart ==
  /\ \A a \in asks : a.effect <= effect
  /\ \A i \in DOMAIN pushes : pushes[i].effect <= effect
  /\ \A a, b \in asks : a.effect = effect /\ b.effect = effect => a = b
  /\ \A i, j \in Nat : AnswersTo(i, effect) /\ AnswersTo(j, effect) => i = j
  /\ \A a \in asks, i \in Nat : a.effect = effect => ~AnswersTo(i, effect)
  /\ session # NoOne =>
       mounted /\ (\A a \in asks : a.effect # effect) /\ \A i \in Nat : ~AnswersTo(i, effect)

ShellsInv == ShellsTyped /\ Owned /\ Lives /\ StartBeforeExit /\ ExitIsLast /\ OneStart

LEMMA ShellsFollow ==
    ASSUME ShellsInv
    PROVE  ShellsAreOwned
<1>1. ASSUME NEW id, NEW i \in Nat, Starts(i, id)
      PROVE  id \in Told("started")
  BY <1>1 DEF Starts, Told
<1>2. ASSUME NEW id, NEW i \in Nat, Exits(i, id)
      PROVE  id \in Told("exit")
  BY <1>2 DEF Exits, Told
<1>3. shells \subseteq {session} \cup Told("started") \cup stops \cup orphans
  BY <1>1 DEF ShellsInv, Owned
<1>4. session # NoOne => session \in shells \cup dying \cup Told("exit")
  BY <1>2 DEF ShellsInv, Lives
<1> QED
  BY <1>3, <1>4 DEF ShellsAreOwned

LEMMA ShellsStart ==
    ASSUME DockInit
    PROVE  ShellsInv
<1>1. pushes = <<>> /\ DOMAIN pushes = {} /\ pushes \in Seq(Message)
  BY DEF DockInit
<1>2. ShellsTyped
  BY <1>1 DEF DockInit, ShellsTyped, Ask
<1>3. \A i, id : ~Starts(i, id) /\ ~Exits(i, id) /\ ~AnswersTo(i, id)
  BY <1>1 DEF Starts, Exits, AnswersTo
<1>4. Owned /\ Lives /\ StartBeforeExit /\ ExitIsLast
  BY <1>3 DEF DockInit, Owned, Lives, StartBeforeExit, ExitIsLast
<1>5. OneStart
  BY <1>1, <1>3 DEF DockInit, OneStart
<1> QED
  BY <1>2, <1>4, <1>5 DEF ShellsInv

(***************************************************************************)
(* What a message that is sent, and one that arrives, does to the others.  *)
(***************************************************************************)
LEMMA Sent ==
    ASSUME ShellsTyped, NEW m \in Message, pushes' = Append(pushes, m)
    PROVE  /\ pushes' \in Seq(Message) /\ DOMAIN pushes' = 1..(Len(pushes) + 1)
           /\ DOMAIN pushes = 1..Len(pushes) /\ Len(pushes) \in Nat
           /\ pushes'[Len(pushes) + 1] = m /\ \A i \in DOMAIN pushes : pushes'[i] = pushes[i]
  BY DEF ShellsTyped

LEMMA Arrived ==
    ASSUME ShellsTyped, pushes # <<>>, pushes' = Tail(pushes)
    PROVE  /\ pushes' \in Seq(Message) /\ DOMAIN pushes' = 1..(Len(pushes) - 1)
           /\ DOMAIN pushes = 1..Len(pushes) /\ Len(pushes) \in Nat \ {0}
           /\ Head(pushes) = pushes[1] /\ pushes[1] \in Message
           /\ \A i \in DOMAIN pushes' : pushes'[i] = pushes[i + 1]
  BY DEF ShellsTyped

(***************************************************************************)
(* The session is stopped, and the effect runs again.                      *)
(***************************************************************************)
LEMMA EffectAgain ==
    ASSUME ShellsInv, Cleanup \/ (session = NoOne /\ UNCHANGED <<session, stops>>),
           effect' = effect + 1, asks' = asks \cup {[effect |-> effect + 1, stage |-> "summary"]},
           UNCHANGED <<shells, dying, pushes, orphans>>
    PROVE  ShellsInv'
<1>1. /\ session' = NoOne /\ stops \subseteq stops' /\ (session # NoOne => session \in stops')
  BY DEF Cleanup, CleansUp
<1>2. effect \in Nat /\ effect + 1 \in Nat \ {0} /\ asks \subseteq Ask /\ NoOne \notin Shells
      /\ shells \subseteq Shells
  BY DockAssumption DEF ShellsInv, ShellsTyped, DockAssumption
<1>3. ShellsTyped'
  BY <1>1, <1>2 DEF ShellsInv, ShellsTyped, Ask
<1>4. Owned'
  BY <1>1, <1>2 DEF ShellsInv, Owned, Starts
<1>5. Lives' /\ StartBeforeExit' /\ ExitIsLast'
  BY <1>1 DEF ShellsInv, Lives, StartBeforeExit, ExitIsLast, Starts, Exits
<1>6. OneStart'
  <2>1. \A i \in DOMAIN pushes : pushes[i].effect \in Nat /\ pushes[i].effect <= effect
    <3>1. \A i \in DOMAIN pushes : pushes[i] \in Message
      BY DEF ShellsInv, ShellsTyped
    <3> QED
      BY <3>1 DEF ShellsInv, OneStart, Message
  <2>2. \A a \in asks : a.effect \in Nat /\ a.effect <= effect
    BY <1>2 DEF ShellsInv, OneStart, Ask
  <2>3. \A i \in Nat : ~AnswersTo(i, effect)'
    BY <1>2, <2>1 DEF AnswersTo
  <2> QED
    BY <1>1, <1>2, <2>1, <2>2, <2>3 DEF OneStart
<1> QED
  BY <1>3, <1>4, <1>5, <1>6 DEF ShellsInv

LEMMA HideStep ==
    ASSUME ShellsInv, HideDock
    PROVE  ShellsInv'
<1>1. /\ session' = NoOne /\ stops \subseteq stops' /\ (session # NoOne => session \in stops')
      /\ UNCHANGED <<shells, dying, asks, pushes, effect, orphans>>
  BY DEF HideDock, Cleanup, CleansUp
<1>2. NoOne \notin Shells /\ shells \subseteq Shells
  BY DockAssumption DEF ShellsInv, ShellsTyped, DockAssumption
<1>3. ShellsTyped' /\ Lives' /\ StartBeforeExit' /\ ExitIsLast'
  BY <1>1 DEF ShellsInv, ShellsTyped, Lives, StartBeforeExit, ExitIsLast, Starts, Exits
<1>4. Owned'
  BY <1>1, <1>2 DEF ShellsInv, Owned, Starts
<1>5. OneStart'
  BY <1>1 DEF ShellsInv, OneStart, AnswersTo
<1> QED
  BY <1>3, <1>4, <1>5 DEF ShellsInv

LEMMA WorkspaceStep ==
    ASSUME ShellsInv, NEW a \in asks, WorkspaceAnswers(a)
    PROVE  ShellsInv'
<1>1. UNCHANGED <<shells, dying, stops, pushes, effect, mounted, session, orphans>>
  BY DEF WorkspaceAnswers
<1>2. PICK b \in Ask : b.effect = a.effect /\ asks' \subseteq (asks \ {a}) \cup {b}
  <2> DEFINE b == [a EXCEPT !.stage = "start"]
  <2>1. b \in Ask /\ b.effect = a.effect
    BY DEF ShellsInv, ShellsTyped, Ask
  <2>2. asks' \subseteq (asks \ {a}) \cup {b}
    BY DEF WorkspaceAnswers
  <2> QED
    BY <2>1, <2>2
<1>3. ShellsTyped'
  BY <1>1, <1>2 DEF ShellsInv, ShellsTyped
<1>4. Owned' /\ Lives' /\ StartBeforeExit' /\ ExitIsLast'
  BY <1>1 DEF ShellsInv, Owned, Lives, StartBeforeExit, ExitIsLast, Starts, Exits
<1>5. OneStart'
  BY <1>1, <1>2 DEF ShellsInv, OneStart, AnswersTo
<1> QED
  BY <1>3, <1>4, <1>5 DEF ShellsInv

LEMMA SpawnStep ==
    ASSUME ShellsInv, NEW a \in asks, SpawnShell(a)
    PROVE  ShellsInv'
<1>1. asks' = asks \ {a} /\ UNCHANGED <<dying, stops, effect, mounted, session, orphans>>
  BY DEF SpawnShell
<1>2. CASE UNCHANGED <<shells, pushes>>
  <2>1. ShellsTyped' /\ Owned' /\ Lives' /\ StartBeforeExit' /\ ExitIsLast'
    BY <1>1, <1>2 DEF ShellsInv, ShellsTyped, Owned, Lives, StartBeforeExit, ExitIsLast, Starts, Exits
  <2>2. OneStart'
    BY <1>1, <1>2 DEF ShellsInv, OneStart, AnswersTo
  <2> QED
    BY <2>1, <2>2 DEF ShellsInv
<1>3. ASSUME NEW id \in Shells \ Used, shells' = shells \cup {id},
             pushes' = Append(pushes, [type |-> "started", id |-> id, effect |-> a.effect])
      PROVE  ShellsInv'
  <2> DEFINE m == [type |-> "started", id |-> id, effect |-> a.effect]
             n == Len(pushes) + 1
  <2>1. m \in Message /\ m.type = "started" /\ m.id = id /\ m.effect = a.effect
    BY DEF ShellsInv, ShellsTyped, Ask, Message
  <2>2. pushes' = Append(pushes, m)
    BY <1>3
  <2> HIDE DEF m
  <2>3. /\ pushes' \in Seq(Message) /\ DOMAIN pushes' = 1..n /\ n - 1 \in Nat /\ n \in Nat
        /\ DOMAIN pushes = 1..(n - 1)
        /\ pushes'[n] = m /\ \A i \in DOMAIN pushes : pushes'[i] = pushes[i]
    BY <2>1, <2>2, Sent DEF ShellsInv
  <2> HIDE DEF n
  <2>4. id \notin shells \cup dying /\ id # session /\ \A i \in DOMAIN pushes : pushes[i].id # id
    BY DEF Used
  <2>5. ShellsTyped'
    BY <1>1, <1>3, <2>3 DEF ShellsInv, ShellsTyped
  <2>6. \A i \in Nat : \A x : Starts(i, x)' <=> Starts(i, x) \/ (i = n /\ x = id)
    BY <2>1, <2>3 DEF Starts
  <2>7. \A i \in Nat : \A x : Exits(i, x)' <=> Exits(i, x)
    BY <2>1, <2>3 DEF Exits
  <2>8. \A i \in Nat : \A e : AnswersTo(i, e)' <=> AnswersTo(i, e) \/ (i = n /\ e = a.effect)
    BY <2>1, <2>3 DEF AnswersTo
  <2>9. Owned'
    BY <1>1, <1>3, <2>3, <2>6 DEF ShellsInv, Owned
  <2>10. Lives'
    BY <1>1, <1>3, <2>7 DEF ShellsInv, Lives
  <2>11. StartBeforeExit'
    BY <1>1, <1>3, <2>6, <2>7 DEF ShellsInv, StartBeforeExit
  <2>12. ExitIsLast'
    <3>1. \A i \in Nat : ~Exits(i, id)
      BY <2>4 DEF Exits
    <3> QED
      BY <1>1, <1>3, <2>7, <3>1 DEF ShellsInv, ExitIsLast
  <2>13. OneStart'
    <3>1. \A i \in DOMAIN pushes' : pushes'[i].effect <= effect
      BY <2>1, <2>3 DEF ShellsInv, OneStart
    <3> QED
      BY <1>1, <2>3, <2>8, <3>1 DEF ShellsInv, OneStart
  <2> QED
    BY <2>5, <2>9, <2>10, <2>11, <2>12, <2>13 DEF ShellsInv
<1> QED
  BY <1>2, <1>3 DEF SpawnShell

(***************************************************************************)
(* A message leaves the queue: the others are one place further, and what  *)
(* they say of the shells and of the effect stands.                        *)
(***************************************************************************)
LEMMA Shifted ==
    ASSUME ShellsInv, pushes # <<>>, pushes' = Tail(pushes), UNCHANGED <<shells, dying, effect>>
    PROVE  /\ pushes' \in Seq(Message) /\ pushes[1] \in Message /\ Head(pushes) = pushes[1]
           /\ 1 \in DOMAIN pushes /\ \A i \in DOMAIN pushes' : pushes'[i].effect <= effect
           /\ \A i \in Nat : \A x : Starts(i, x) /\ i # 1 => i - 1 \in Nat /\ Starts(i - 1, x)'
           /\ \A i \in Nat : \A x : Exits(i, x) /\ i # 1 => i - 1 \in Nat /\ Exits(i - 1, x)'
           /\ \A i \in Nat : AnswersTo(i, effect)' => i + 1 \in Nat /\ i # 0 /\ AnswersTo(i + 1, effect)
           /\ StartBeforeExit' /\ ExitIsLast'
<1> DEFINE n == Len(pushes)
<1>1. /\ pushes' \in Seq(Message) /\ DOMAIN pushes' = 1..(n - 1) /\ n \in Nat \ {0}
      /\ DOMAIN pushes = 1..n /\ Head(pushes) = pushes[1] /\ pushes[1] \in Message
      /\ \A i \in DOMAIN pushes' : pushes'[i] = pushes[i + 1]
  BY Arrived DEF ShellsInv
<1> HIDE DEF n
<1>2. 1 \in DOMAIN pushes
  BY <1>1
<1>3. \A i \in DOMAIN pushes' : pushes'[i].effect <= effect
  <2>1. \A i \in DOMAIN pushes' : i + 1 \in DOMAIN pushes
    BY <1>1
  <2>2. \A i \in DOMAIN pushes : pushes[i].effect <= effect
    BY DEF ShellsInv, OneStart
  <2> QED
    BY <1>1, <2>1, <2>2
<1>4. \A i \in Nat : \A x : Starts(i, x)' <=> i # 0 /\ Starts(i + 1, x)
  BY <1>1 DEF Starts
<1>5. \A i \in Nat : \A x : Exits(i, x)' <=> i # 0 /\ Exits(i + 1, x)
  BY <1>1 DEF Exits
<1>6. \A i \in Nat : AnswersTo(i, effect)' => i + 1 \in Nat /\ i # 0 /\ AnswersTo(i + 1, effect)
  BY <1>1 DEF AnswersTo
<1>7. \A i \in Nat : \A x : Starts(i, x) /\ i # 1 => i - 1 \in Nat /\ Starts(i - 1, x)'
  BY <1>1, <1>4 DEF Starts
<1>8. \A i \in Nat : \A x : Exits(i, x) /\ i # 1 => i - 1 \in Nat /\ Exits(i - 1, x)'
  BY <1>1, <1>5 DEF Exits
<1>9. StartBeforeExit'
  <2> SUFFICES ASSUME NEW i \in Nat, NEW id \in Shells, Starts(i, id)'
               PROVE  id \in shells \cup dying \/ \E j \in Nat : j > i /\ Exits(j, id)'
    BY DEF StartBeforeExit
  <2>1. Starts(i + 1, id) /\ i + 1 \in Nat
    BY <1>4
  <2>2. id \in shells \cup dying \/ \E j \in Nat : j > i + 1 /\ Exits(j, id)
    BY <2>1 DEF ShellsInv, StartBeforeExit
  <2>3. ASSUME NEW j \in Nat, j > i + 1, Exits(j, id)
        PROVE  j - 1 \in Nat /\ j - 1 > i /\ Exits(j - 1, id)'
    BY <1>8, <2>3
  <2> QED
    BY <2>2, <2>3
<1>10. ExitIsLast'
  BY <1>5 DEF ShellsInv, ExitIsLast
<1> QED
  BY <1>1, <1>2, <1>3, <1>6, <1>7, <1>8, <1>9, <1>10

LEMMA ShiftedStart ==
    ASSUME ShellsInv, pushes # <<>>, pushes' = Tail(pushes), session' \in {session, NoOne},
           UNCHANGED <<shells, dying, asks, effect, mounted>>
    PROVE  OneStart'
<1>1. /\ \A i \in DOMAIN pushes' : pushes'[i].effect <= effect
      /\ \A i \in Nat : AnswersTo(i, effect)' => i + 1 \in Nat /\ AnswersTo(i + 1, effect)
  BY Shifted
<1>2. ASSUME NEW i \in Nat, NEW j \in Nat, AnswersTo(i, effect)', AnswersTo(j, effect)'
      PROVE  i = j
  <2>1. i + 1 \in Nat /\ j + 1 \in Nat /\ AnswersTo(i + 1, effect) /\ AnswersTo(j + 1, effect)
    BY <1>1, <1>2
  <2>2. i + 1 = j + 1
    BY <2>1 DEF ShellsInv, OneStart
  <2> QED
    BY <2>2
<1>3. \A b \in asks, i \in Nat : b.effect = effect => ~AnswersTo(i, effect)'
  BY <1>1 DEF ShellsInv, OneStart
<1>4. session # NoOne => mounted /\ (\A b \in asks : b.effect # effect)
                         /\ \A i \in Nat : ~AnswersTo(i, effect)'
  BY <1>1 DEF ShellsInv, OneStart
<1>5. /\ \A b \in asks : b.effect <= effect
      /\ \A b, c \in asks : b.effect = effect /\ c.effect = effect => b = c
  BY DEF ShellsInv, OneStart
<1> QED
  BY <1>1, <1>2, <1>3, <1>4, <1>5 DEF OneStart

(***************************************************************************)
(* The answer of a start: it is the panel's, which has no session then, or *)
(* it is stopped.                                                          *)
(***************************************************************************)
LEMMA StartedStep ==
    ASSUME ShellsInv, ShellStarted
    PROVE  ShellsInv'
<1>0. PICK m : m = pushes[1]
  OBVIOUS
<1>1. /\ pushes # <<>> /\ pushes' = Tail(pushes) /\ UNCHANGED <<shells, dying, effect>>
      /\ UNCHANGED <<asks, mounted, orphans>>
  BY DEF ShellStarted
<1>2. /\ pushes' \in Seq(Message) /\ m \in Message /\ Head(pushes) = m /\ 1 \in DOMAIN pushes
      /\ \A i \in DOMAIN pushes' : pushes'[i].effect <= effect
      /\ \A i \in Nat : \A x : Starts(i, x) /\ i # 1 => i - 1 \in Nat /\ Starts(i - 1, x)'
      /\ \A i \in Nat : \A x : Exits(i, x) /\ i # 1 => i - 1 \in Nat /\ Exits(i - 1, x)'
      /\ \A i \in Nat : AnswersTo(i, effect)' => i + 1 \in Nat /\ i # 0 /\ AnswersTo(i + 1, effect)
      /\ StartBeforeExit' /\ ExitIsLast'
  BY <1>0, <1>1, Shifted
<1>3. m.type = "started" /\ m.id \in Shells /\ StartedArrives(m)
  BY <1>0, <1>2 DEF ShellStarted, Message
<1>4. Starts(1, m.id) /\ AnswersTo(1, m.effect) /\ \A x : ~Exits(1, x)
  BY <1>0, <1>2, <1>3 DEF Starts, AnswersTo, Exits
<1>5. ASSUME NEW id \in shells, id # m.id, id = session' => id = session,
             ~(id \in stops \cup orphans), id # session
      PROVE  \E i \in Nat : Starts(i, id)'
  <2>1. PICK i \in Nat : Starts(i, id)
    BY <1>5 DEF ShellsInv, Owned
  <2>2. i # 1
    BY <1>0, <1>3, <1>5, <2>1 DEF Starts
  <2> QED
    BY <1>2, <2>1, <2>2
<1>6. CASE IsLive(m.effect)
  <2>1. session' = m.id /\ UNCHANGED stops /\ m.effect = effect /\ mounted
    BY <1>3, <1>6 DEF StartedArrives, IsLive
  <2>2. session = NoOne /\ NoOne \notin Shells /\ shells \subseteq Shells
    BY <1>4, <2>1, DockAssumption DEF ShellsInv, OneStart, DockAssumption, ShellsTyped
  <2>3. ShellsTyped'
    BY <1>1, <1>2, <1>3, <2>1 DEF ShellsInv, ShellsTyped
  <2>4. Owned'
    BY <1>1, <1>5, <2>1, <2>2 DEF Owned
  <2>5. Lives'
    <3>1. m.id \in shells \cup dying \/ \E j \in Nat : j > 1 /\ Exits(j, m.id)
      BY <1>3, <1>4 DEF ShellsInv, StartBeforeExit
    <3>2. ASSUME NEW j \in Nat, j > 1, Exits(j, m.id)
          PROVE  Lives'
      <4>1. j - 1 \in Nat /\ Exits(j - 1, m.id)'
        BY <1>2, <3>2
      <4> QED
        BY <2>1, <4>1 DEF Lives, Exits
    <3> QED
      BY <1>1, <2>1, <3>1, <3>2 DEF Lives
  <2>6. OneStart'
    <3>1. \A i \in Nat : ~AnswersTo(i, effect)'
      <4> SUFFICES ASSUME NEW i \in Nat, AnswersTo(i, effect)'
                   PROVE  FALSE
        OBVIOUS
      <4>1. i # 0 /\ AnswersTo(i + 1, effect) /\ i + 1 \in Nat
        BY <1>2
      <4> QED
        BY <1>4, <2>1, <4>1 DEF ShellsInv, OneStart
    <3>2. \A b \in asks : b.effect # effect
      BY <1>4, <2>1 DEF ShellsInv, OneStart
    <3> QED
      BY <1>1, <1>2, <2>1, <3>1, <3>2 DEF ShellsInv, OneStart
  <2> QED
    BY <1>2, <2>3, <2>4, <2>5, <2>6 DEF ShellsInv
<1>7. CASE ~IsLive(m.effect)
  <2>1. stops' = stops \cup {m.id} /\ session' = session
    BY <1>3, <1>7 DEF StartedArrives
  <2>2. ShellsTyped'
    BY <1>1, <1>2, <2>1 DEF ShellsInv, ShellsTyped
  <2>3. Owned'
    BY <1>1, <1>5, <2>1 DEF Owned
  <2>4. Lives'
    BY <1>1, <1>2, <1>4, <2>1 DEF ShellsInv, Lives
  <2>5. OneStart'
    BY <1>1, <2>1, ShiftedStart
  <2> QED
    BY <1>2, <2>2, <2>3, <2>4, <2>5 DEF ShellsInv
<1> QED
  BY <1>6, <1>7

(***************************************************************************)
(* The exit of a shell: whoever had the session has none.                  *)
(***************************************************************************)
LEMMA ExitedStep ==
    ASSUME ShellsInv, ShellExited
    PROVE  ShellsInv'
<1>0. PICK m : m = pushes[1]
  OBVIOUS
<1>1. /\ pushes # <<>> /\ pushes' = Tail(pushes) /\ UNCHANGED <<shells, dying, effect>>
      /\ UNCHANGED <<asks, stops, mounted, orphans>>
      /\ session' = IF session = Head(pushes).id THEN NoOne ELSE session
  BY DEF ShellExited
<1>2. /\ pushes' \in Seq(Message) /\ m \in Message /\ Head(pushes) = m /\ 1 \in DOMAIN pushes
      /\ \A i \in Nat : \A x : Starts(i, x) /\ i # 1 => i - 1 \in Nat /\ Starts(i - 1, x)'
      /\ \A i \in Nat : \A x : Exits(i, x) /\ i # 1 => i - 1 \in Nat /\ Exits(i - 1, x)'
      /\ StartBeforeExit' /\ ExitIsLast'
  BY <1>0, <1>1, Shifted
<1>3. m.type = "exit" /\ m.id \in Shells
  BY <1>0, <1>2 DEF ShellExited, Message
<1>4. Exits(1, m.id) /\ \A x : ~Starts(1, x) /\ (Exits(1, x) => x = m.id)
  BY <1>0, <1>2, <1>3 DEF Starts, Exits
<1>5. m.id \notin shells
  BY <1>3, <1>4 DEF ShellsInv, ExitIsLast
<1>6. ShellsTyped'
  BY <1>1, <1>2 DEF ShellsInv, ShellsTyped
<1>7. Owned'
  BY <1>1, <1>2, <1>4, <1>5 DEF ShellsInv, Owned
<1>8. Lives'
  BY <1>1, <1>2, <1>4 DEF ShellsInv, Lives
<1>9. OneStart'
  BY <1>1, ShiftedStart
<1> QED
  BY <1>2, <1>6, <1>7, <1>8, <1>9 DEF ShellsInv

(***************************************************************************)
(* A shell is gone, and says so.                                           *)
(***************************************************************************)
LEMMA EndsStep ==
    ASSUME ShellsInv, NEW id \in Shells, ShellEnds(id)
    PROVE  ShellsInv'
<1> DEFINE m == [type |-> "exit", id |-> id, effect |-> 0]
           n == Len(pushes) + 1
<1>1. /\ id \in shells \cup dying /\ shells' = shells \ {id} /\ dying' = dying \ {id}
      /\ UNCHANGED <<asks, stops, effect, mounted, session, orphans>>
  BY DEF ShellEnds
<1>2. m \in Message /\ m.type = "exit" /\ m.id = id /\ m.effect = 0 /\ pushes' = Append(pushes, m)
  BY DEF Message, ShellEnds
<1> HIDE DEF m
<1>3. /\ pushes' \in Seq(Message) /\ DOMAIN pushes' = 1..n /\ n - 1 \in Nat /\ n \in Nat
      /\ DOMAIN pushes = 1..(n - 1)
      /\ pushes'[n] = m /\ \A i \in DOMAIN pushes : pushes'[i] = pushes[i]
  BY <1>2, Sent DEF ShellsInv
<1> HIDE DEF n
<1>4. effect \in Nat
  BY DEF ShellsInv, ShellsTyped
<1>5. \A i \in Nat : \A x : Starts(i, x)' <=> Starts(i, x)
  BY <1>2, <1>3 DEF Starts
<1>6. \A i \in Nat : \A x : Exits(i, x)' <=> Exits(i, x) \/ (i = n /\ x = id)
  BY <1>2, <1>3 DEF Exits
<1>7. \A i \in Nat : AnswersTo(i, effect)' <=> AnswersTo(i, effect)
  BY <1>1, <1>2, <1>3 DEF AnswersTo
<1>8. \A i \in Nat : \A x : Starts(i, x) => i < n
  BY <1>3 DEF Starts
<1>9. ShellsTyped'
  BY <1>1, <1>3 DEF ShellsInv, ShellsTyped
<1>10. Owned'
  BY <1>1, <1>5 DEF ShellsInv, Owned
<1>11. Lives'
  BY <1>1, <1>3, <1>6 DEF ShellsInv, Lives
<1>12. StartBeforeExit'
  BY <1>1, <1>3, <1>5, <1>6, <1>8 DEF ShellsInv, StartBeforeExit
<1>13. ExitIsLast'
  BY <1>1, <1>6 DEF ShellsInv, ExitIsLast
<1>14. OneStart'
  <2>1. \A i \in DOMAIN pushes' : pushes'[i].effect <= effect
    BY <1>2, <1>3, <1>4 DEF ShellsInv, OneStart
  <2> QED
    BY <1>1, <1>7, <2>1 DEF ShellsInv, OneStart
<1> QED
  BY <1>9, <1>10, <1>11, <1>12, <1>13, <1>14 DEF ShellsInv

LEMMA StopStep ==
    ASSUME ShellsInv, NEW id \in Shells, StopShell(id)
    PROVE  ShellsInv'
<1>1. /\ shells' \cup dying' = shells \cup dying /\ shells' \subseteq shells
      /\ dying' \subseteq shells \cup dying /\ stops' = stops \ {id} /\ id \notin shells'
      /\ UNCHANGED <<asks, pushes, effect, mounted, session, orphans>>
  BY DEF StopShell
<1>2. ShellsTyped'
  BY <1>1 DEF ShellsInv, ShellsTyped
<1>3. Owned'
  BY <1>1 DEF ShellsInv, Owned, Starts
<1>4. Lives' /\ StartBeforeExit' /\ ExitIsLast'
  BY <1>1 DEF ShellsInv, Lives, StartBeforeExit, ExitIsLast, Starts, Exits
<1>5. OneStart'
  BY <1>1 DEF ShellsInv, OneStart, AnswersTo
<1> QED
  BY <1>2, <1>3, <1>4, <1>5 DEF ShellsInv

(***************************************************************************)
(* The reload forgets the answers and the asks, and whatever shells it     *)
(* leaves are nobody's.                                                    *)
(***************************************************************************)
LEMMA ReloadStep ==
    ASSUME ShellsInv, ReloadWindow
    PROVE  ShellsInv'
<1>1. /\ orphans' = orphans \cup shells /\ pushes' = <<>> /\ session' = NoOne /\ mounted'
      /\ effect' = effect + 1 /\ asks' = {[effect |-> effect + 1, stage |-> "summary"]}
      /\ UNCHANGED <<shells, dying, stops>>
  BY DEF ReloadWindow
<1>2. pushes' \in Seq(Message) /\ DOMAIN pushes' = {}
  BY <1>1
<1>3. effect + 1 \in Nat \ {0}
  BY DEF ShellsInv, ShellsTyped
<1>4. \A i, x : ~Starts(i, x)' /\ ~Exits(i, x)'
  BY <1>2 DEF Starts, Exits
<1>5. \A i : ~AnswersTo(i, effect)'
  BY <1>2 DEF AnswersTo
<1>6. ShellsTyped'
  BY <1>1, <1>2, <1>3 DEF ShellsInv, ShellsTyped, Ask
<1>7. Owned' /\ Lives' /\ StartBeforeExit' /\ ExitIsLast'
  BY <1>1, <1>4 DEF Owned, Lives, StartBeforeExit, ExitIsLast
<1>8. OneStart'
  BY <1>1, <1>2, <1>3, <1>5 DEF OneStart
<1> QED
  BY <1>6, <1>7, <1>8 DEF ShellsInv

LEMMA ShellsStep ==
    ASSUME ShellsInv, DockNext
    PROVE  ShellsInv'
<1>1. CASE RestartTerminal
  BY <1>1, EffectAgain DEF RestartTerminal
<1>2. CASE HideDock
  BY <1>2, HideStep
<1>3. CASE ShowDock
  <2>1. session = NoOne
    BY <1>3 DEF ShowDock, ShellsInv, OneStart
  <2> QED
    BY <1>3, <2>1, EffectAgain DEF ShowDock
<1>4. ASSUME NEW a \in asks, WorkspaceAnswers(a)
      PROVE  ShellsInv'
  BY <1>4, WorkspaceStep
<1>5. ASSUME NEW a \in asks, SpawnShell(a)
      PROVE  ShellsInv'
  BY <1>5, SpawnStep
<1>6. CASE ShellStarted
  BY <1>6, StartedStep
<1>7. CASE ShellExited
  BY <1>7, ExitedStep
<1>8. ASSUME NEW id \in Shells, ShellEnds(id)
      PROVE  ShellsInv'
  BY <1>8, EndsStep
<1>9. CASE StopSession
  BY <1>9 DEF StopSession, ShellsInv, ShellsTyped, Owned, Lives, StartBeforeExit, ExitIsLast,
       OneStart, Starts, Exits, AnswersTo
<1>10. ASSUME NEW id \in Shells, StopShell(id)
       PROVE  ShellsInv'
  BY <1>10, StopStep
<1>11. CASE ReloadWindow
  BY <1>11, ReloadStep
<1>12. CASE UNCHANGED terminalVars
  BY <1>12 DEF terminalVars, ShellsInv, ShellsTyped, Owned, Lives, StartBeforeExit, ExitIsLast,
       OneStart, Starts, Exits, AnswersTo
<1> QED
  BY <1>1, <1>2, <1>3, <1>4, <1>5, <1>6, <1>7, <1>8, <1>9, <1>10, <1>11, <1>12
  DEF DockNext, Navigate, ReloadPreview, ShellPrints, ServerComesOrGoes, ProbeEnds

-----------------------------------------------------------------------------
(***************************************************************************)
(* The queue.  A request that has been at work, as the queue, its file,    *)
(* the window or a command on its way know it, never waits again: so that  *)
(* no button takes a place that Pump has not given.  While Pump is in the  *)
(* queue nothing before it could start.                                    *)
(***************************************************************************)
Statuses == {"PENDING", "RUNNING", "PAUSED", "OVER"}
Request == [id : Nat, mode : Modes, status : Statuses]
Queue == {q \in Seq(Request) : \A i, j \in DOMAIN q : q[i].id = q[j].id => i = j}
Command ==
  [do : {"enqueue"}, mode : Modes] \cup [do : {"pause", "resume", "kill", "remove"}, id : Nat]
    \cup [do : {"state"}]
Publication == [type : {"WaitlistUpdated"}, items : Queue] \cup [type : {"RuntimeOverloaded"}]
Counters == {"ids", "pieces", "submits", "clicks", "faults"}

QueueTyped ==
  /\ items \in Queue /\ onDisk \in Queue /\ queueView \in Queue
  /\ toForge \in Seq(Command) /\ toStudio \in Seq(Publication)
  /\ owed \in [{"bus", "rest"} -> Nat] /\ tally \in [Counters -> Nat] /\ pos \in Nat
  /\ vacated \in BOOLEAN

IdsIn(q) == {q[i].id : i \in DOMAIN q}
PendingIn(q) == {q[i].id : i \in {j \in DOMAIN q : q[j].status = "PENDING"}}
Published ==
  UNION {ActiveIn(toStudio[k].items) :
           k \in {j \in DOMAIN toStudio : toStudio[j].type = "WaitlistUpdated"}}
Ordered ==
  {toForge[k].id : k \in {j \in DOMAIN toForge : toForge[j].do \in {"pause", "resume"}}}
Known == ActiveIn(items) \cup ActiveIn(onDisk) \cup ActiveIn(queueView) \cup Published \cup Ordered
Waiting == PendingIn(items) \cup PendingIn(onDisk)

NeverWaitsAgain == Known \cap Waiting = {}
IdsAreCounted ==
  \A id \in Known \cup IdsIn(items) \cup IdsIn(onDisk) : id \in Nat /\ id <= tally.ids
NothingBeforePump ==
  pos > 0 => health = "ok" /\ \A i \in DOMAIN items : i < pos => ~Launchable(i)

QueueInv ==
  /\ QueueTyped /\ NeverWaitsAgain /\ IdsAreCounted /\ NothingBeforePump
  /\ PlacesRespected /\ PlacesAreFilled

LEMMA QueueStarts ==
    ASSUME WaitlistInit
    PROVE  QueueInv
<1>1. /\ items = <<>> /\ onDisk = <<>> /\ queueView = <<>> /\ toForge = <<>> /\ toStudio = <<>>
      /\ DOMAIN <<>> = {} /\ pos = 0 /\ owed = NobodyOwes /\ vacated = FALSE
      /\ tally = [ids |-> 0, pieces |-> 0, submits |-> 0, clicks |-> 0, faults |-> 0]
  BY DEF WaitlistInit
<1>2. QueueTyped
  <2>1. <<>> \in Queue /\ <<>> \in Seq(Command) /\ <<>> \in Seq(Publication)
    BY <1>1 DEF Queue
  <2>2. owed \in [{"bus", "rest"} -> Nat]
    BY <1>1 DEF NobodyOwes
  <2>3. tally \in [Counters -> Nat]
    BY <1>1 DEF Counters
  <2> QED
    BY <1>1, <2>1, <2>2, <2>3 DEF QueueTyped
<1>3. ActiveIn(items) = {} /\ SequentialIn(items) = {} /\ Known = {} /\ IdsIn(items) = {}
      /\ IdsIn(onDisk) = {}
  BY <1>1 DEF ActiveIn, SequentialIn, GroupIn, Known, IdsIn, Published, Ordered
<1>4. NeverWaitsAgain /\ IdsAreCounted /\ NothingBeforePump
  BY <1>1, <1>3 DEF NeverWaitsAgain, IdsAreCounted, NothingBeforePump
<1>5. PlacesRespected
  BY <1>3, FS_EmptySet, WaitlistAssumption DEF PlacesRespected, WaitlistAssumption
<1>6. PlacesAreFilled
  BY <1>1 DEF PlacesAreFilled
<1> QED
  BY <1>2, <1>4, <1>5, <1>6 DEF QueueInv

(***************************************************************************)
(* A queue whose requests have other statuses, of which none is pending    *)
(* that was not.                                                           *)
(***************************************************************************)
Keeps(q, p) ==
  \A i \in DOMAIN p : p[i].status = "PENDING" =>
    \E j \in DOMAIN q : q[j].status = "PENDING" /\ q[j].id = p[i].id /\ q[j].mode = p[i].mode

IsActive(r) == r.status \in Active

LEMMA QueueIs ==
    ASSUME NEW q \in Queue
    PROVE  /\ q \in Seq(Request) /\ Len(q) \in Nat /\ DOMAIN q = 1..Len(q)
           /\ \A i \in DOMAIN q : q[i] \in Request
           /\ \A i, j \in DOMAIN q : q[i].id = q[j].id => i = j
  BY DEF Queue

LEMMA QueueFinite ==
    ASSUME NEW q \in Queue
    PROVE  IsFiniteSet(ActiveIn(q)) /\ IsFiniteSet(SequentialIn(q)) /\ IsFiniteSet(GroupIn(q))
<1>1. DOMAIN q = 1..Len(q) /\ Len(q) \in Nat
  BY QueueIs
<1>2. IsFiniteSet(1..Len(q))
  BY <1>1, FS_Interval
<1>3. IsFiniteSet(IdsIn(q))
  <2> DEFINE f == [i \in DOMAIN q |-> q[i].id]
  <2>1. f \in Surjection(DOMAIN q, IdsIn(q))
    BY DEF Surjection, IdsIn
  <2> QED
    BY <1>1, <1>2, <2>1, FS_Surjection
<1>4. ActiveIn(q) \subseteq IdsIn(q) /\ SequentialIn(q) \subseteq IdsIn(q)
      /\ GroupIn(q) \subseteq IdsIn(q)
  BY DEF ActiveIn, SequentialIn, GroupIn, IdsIn
<1> QED
  BY <1>3, <1>4, FS_Subset

LEMMA Restated ==
    ASSUME NEW q \in Queue, NEW p \in [DOMAIN q -> Request],
           \A i \in DOMAIN q :
             /\ p[i].id = q[i].id /\ p[i].mode = q[i].mode
             /\ p[i].status = "PENDING" => q[i].status = "PENDING"
    PROVE  /\ p \in Queue /\ IdsIn(p) = IdsIn(q) /\ Keeps(q, p) /\ DOMAIN p = DOMAIN q
           /\ (\A i \in DOMAIN q : IsActive(p[i]) => IsActive(q[i])) =>
                ActiveIn(p) \subseteq ActiveIn(q) /\ SequentialIn(p) \subseteq SequentialIn(q)
                /\ GroupIn(p) \subseteq GroupIn(q)
           /\ (\A i \in DOMAIN q : IsActive(p[i]) <=> IsActive(q[i])) =>
                ActiveIn(p) = ActiveIn(q) /\ SequentialIn(p) = SequentialIn(q)
                /\ GroupIn(p) = GroupIn(q)
<1>1. DOMAIN p = DOMAIN q
  OBVIOUS
<1>2. p \in Queue
  <2>1. DOMAIN q = 1..Len(q) /\ Len(q) \in Nat
    BY QueueIs
  <2>2. p \in [1..Len(q) -> Request]
    BY <2>1
  <2>3. p \in Seq(Request)
    BY <2>1, <2>2
  <2> QED
    BY <1>1, <2>3 DEF Queue
<1>3. IdsIn(p) = IdsIn(q)
  BY <1>1 DEF IdsIn
<1>4. Keeps(q, p)
  BY <1>1 DEF Keeps
<1>5. ASSUME \A i \in DOMAIN q : IsActive(p[i]) => IsActive(q[i])
      PROVE  ActiveIn(p) \subseteq ActiveIn(q) /\ SequentialIn(p) \subseteq SequentialIn(q)
             /\ GroupIn(p) \subseteq GroupIn(q)
  <2>1. ActiveIn(p) \subseteq ActiveIn(q)
    BY <1>1, <1>5 DEF ActiveIn, IsActive
  <2> QED
    BY <1>1, <2>1 DEF SequentialIn, GroupIn
<1>6. ASSUME \A i \in DOMAIN q : IsActive(p[i]) <=> IsActive(q[i])
      PROVE  ActiveIn(p) = ActiveIn(q) /\ SequentialIn(p) = SequentialIn(q)
             /\ GroupIn(p) = GroupIn(q)
  <2>1. ActiveIn(p) = ActiveIn(q)
    BY <1>1, <1>6 DEF ActiveIn, IsActive
  <2> QED
    BY <1>1, <2>1 DEF SequentialIn, GroupIn
<1> QED
  BY <1>1, <1>2, <1>3, <1>4, <1>5, <1>6

LEMMA OverInIs ==
    ASSUME NEW q \in Queue, NEW s
    PROVE  /\ OverIn(q, s) \in Queue /\ IdsIn(OverIn(q, s)) = IdsIn(q) /\ Keeps(q, OverIn(q, s))
           /\ ActiveIn(OverIn(q, s)) \subseteq ActiveIn(q)
           /\ SequentialIn(OverIn(q, s)) \subseteq SequentialIn(q)
           /\ GroupIn(OverIn(q, s)) \subseteq GroupIn(q)
<1> DEFINE p == OverIn(q, s)
<1>1. p = [i \in DOMAIN q |-> p[i]]
  BY DEF OverIn
<1>2. \A i \in DOMAIN q :
        /\ p[i] \in Request /\ p[i].id = q[i].id /\ p[i].mode = q[i].mode
        /\ p[i].status = q[i].status \/ p[i].status = "OVER"
  <2> SUFFICES ASSUME NEW i \in DOMAIN q
               PROVE  /\ p[i] \in Request /\ p[i].id = q[i].id /\ p[i].mode = q[i].mode
                      /\ p[i].status = q[i].status \/ p[i].status = "OVER"
    OBVIOUS
  <2>1. q[i] \in Request /\ p[i] = IF q[i].status \in s THEN [q[i] EXCEPT !.status = "OVER"] ELSE q[i]
    BY QueueIs DEF OverIn
  <2> HIDE DEF p
  <2> QED
    BY <2>1 DEF Request, Statuses
<1> HIDE DEF p
<1>3. p \in [DOMAIN q -> Request] /\ \A i \in DOMAIN q : IsActive(p[i]) => IsActive(q[i])
  BY <1>1, <1>2 DEF IsActive, Active
<1>4. \A i \in DOMAIN q :
        /\ p[i].id = q[i].id /\ p[i].mode = q[i].mode
        /\ p[i].status = "PENDING" => q[i].status = "PENDING"
  BY <1>2
<1>5. p \in Queue /\ IdsIn(p) = IdsIn(q) /\ Keeps(q, p) /\ ActiveIn(p) \subseteq ActiveIn(q)
      /\ SequentialIn(p) \subseteq SequentialIn(q) /\ GroupIn(p) \subseteq GroupIn(q)
  BY <1>3, <1>4, Restated
<1> QED
  BY <1>5 DEF p

\* A request that begins, ends, pauses or goes on.
Restate(q, id, s) ==
  [i \in DOMAIN q |-> IF q[i].id = id THEN [q[i] EXCEPT !.status = s] ELSE q[i]]

LEMMA Updated ==
    ASSUME NEW q \in Queue, NEW id, NEW s \in Statuses \ {"PENDING"}, NEW p, p = Restate(q, id, s)
    PROVE  /\ p \in Queue /\ IdsIn(p) = IdsIn(q) /\ Keeps(q, p) /\ DOMAIN p = DOMAIN q
           /\ \A i \in DOMAIN q : p[i].id = q[i].id /\ p[i].mode = q[i].mode
           /\ \A i \in DOMAIN q : p[i].status = IF q[i].id = id THEN s ELSE q[i].status
           /\ s = "OVER" => ActiveIn(p) \subseteq ActiveIn(q) /\ SequentialIn(p) \subseteq SequentialIn(q)
                            /\ GroupIn(p) \subseteq GroupIn(q)
           /\ (\E i \in DOMAIN q : q[i].id = id /\ (IsActive(q[i]) <=> s \in Active)) =>
                ActiveIn(p) = ActiveIn(q) /\ SequentialIn(p) = SequentialIn(q)
                /\ GroupIn(p) = GroupIn(q)
<1>1. p = [i \in DOMAIN q |-> p[i]] /\ DOMAIN p = DOMAIN q
  BY DEF Restate
<1>2. \A i \in DOMAIN q :
        /\ p[i] \in Request /\ p[i].id = q[i].id /\ p[i].mode = q[i].mode
        /\ p[i].status = IF q[i].id = id THEN s ELSE q[i].status
  <2> SUFFICES ASSUME NEW i \in DOMAIN q
               PROVE  /\ p[i] \in Request /\ p[i].id = q[i].id /\ p[i].mode = q[i].mode
                      /\ p[i].status = IF q[i].id = id THEN s ELSE q[i].status
    OBVIOUS
  <2>1. q[i] \in Request /\ p[i] = IF q[i].id = id THEN [q[i] EXCEPT !.status = s] ELSE q[i]
    BY QueueIs DEF Restate
  <2> QED
    BY <2>1 DEF Request
<1>3. s = "OVER" => \A i \in DOMAIN q : IsActive(p[i]) => IsActive(q[i])
  BY <1>2 DEF IsActive, Active
<1>4. ASSUME NEW i \in DOMAIN q, q[i].id = id, IsActive(q[i]) <=> s \in Active
      PROVE  \A j \in DOMAIN q : IsActive(p[j]) <=> IsActive(q[j])
  BY <1>2, <1>4, QueueIs DEF IsActive
<1>5. /\ p \in [DOMAIN q -> Request]
      /\ \A i \in DOMAIN q :
           /\ p[i].id = q[i].id /\ p[i].mode = q[i].mode
           /\ p[i].status = "PENDING" => q[i].status = "PENDING"
  BY <1>1, <1>2
<1>6. /\ p \in Queue /\ IdsIn(p) = IdsIn(q) /\ Keeps(q, p)
      /\ (\A i \in DOMAIN q : IsActive(p[i]) => IsActive(q[i])) =>
           ActiveIn(p) \subseteq ActiveIn(q) /\ SequentialIn(p) \subseteq SequentialIn(q)
           /\ GroupIn(p) \subseteq GroupIn(q)
      /\ (\A i \in DOMAIN q : IsActive(p[i]) <=> IsActive(q[i])) =>
           ActiveIn(p) = ActiveIn(q) /\ SequentialIn(p) = SequentialIn(q)
           /\ GroupIn(p) = GroupIn(q)
  <2> QED
    BY <1>5, Restated
<1>7. s = "OVER" => ActiveIn(p) \subseteq ActiveIn(q) /\ SequentialIn(p) \subseteq SequentialIn(q)
                    /\ GroupIn(p) \subseteq GroupIn(q)
  BY <1>3, <1>6
<1>8. (\E i \in DOMAIN q : q[i].id = id /\ (IsActive(q[i]) <=> s \in Active)) =>
        ActiveIn(p) = ActiveIn(q) /\ SequentialIn(p) = SequentialIn(q)
        /\ GroupIn(p) = GroupIn(q)
  BY <1>4, <1>6
<1> QED
  BY <1>1, <1>2, <1>6, <1>7, <1>8

LEMMA RemovedIs ==
    ASSUME NEW q \in Queue, NEW k \in DOMAIN q
    PROVE  LET p == WithoutItem(q, k)
           IN  /\ p \in Queue /\ IdsIn(p) \subseteq IdsIn(q) /\ Keeps(q, p)
               /\ ActiveIn(p) \subseteq ActiveIn(q) /\ SequentialIn(p) \subseteq SequentialIn(q)
                  /\ GroupIn(p) \subseteq GroupIn(q)
               /\ ~IsActive(q[k]) =>
                    ActiveIn(p) = ActiveIn(q) /\ SequentialIn(p) = SequentialIn(q)
                    /\ GroupIn(p) = GroupIn(q)
<1> DEFINE p == WithoutItem(q, k)
           n == Len(q)
           At(i) == IF i < k THEN i ELSE i + 1
<1>1. /\ q \in Seq(Request) /\ n \in Nat /\ DOMAIN q = 1..n /\ k \in 1..n
      /\ \A i \in DOMAIN q : q[i] \in Request
      /\ \A i, j \in DOMAIN q : q[i].id = q[j].id => i = j
  BY QueueIs
<1>2. p = [i \in 1..(n - 1) |-> q[At(i)]]
  BY DEF WithoutItem
<1> HIDE DEF p, n
<1>3. DOMAIN p = 1..(n - 1) /\ \A i \in DOMAIN p : At(i) \in DOMAIN q /\ At(i) # k /\ p[i] = q[At(i)]
  BY <1>1, <1>2
<1>4. \A i, j \in DOMAIN p : At(i) = At(j) => i = j
  BY <1>1, <1>3
<1>5. \A j \in DOMAIN q : j # k => \E i \in DOMAIN p : At(i) = j
  <2> SUFFICES ASSUME NEW j \in DOMAIN q, j # k
               PROVE  \E i \in DOMAIN p : At(i) = j
    OBVIOUS
  <2>1. CASE j < k
    BY <1>1, <1>3, <2>1
  <2>2. CASE j > k
    <3>1. j - 1 \in DOMAIN p /\ At(j - 1) = j
      BY <1>1, <1>3, <2>2
    <3> QED
      BY <3>1
  <2> QED
    BY <1>1, <2>1, <2>2
<1> HIDE DEF At
<1>6. p \in Queue
  <2>1. p \in [1..(n - 1) -> Request] /\ n - 1 \in Nat
    BY <1>1, <1>2, <1>3
  <2>2. p \in Seq(Request)
    BY <2>1
  <2> QED
    BY <1>1, <1>3, <1>4, <2>2 DEF Queue
<1>7. IdsIn(p) \subseteq IdsIn(q) /\ Keeps(q, p)
  BY <1>3 DEF IdsIn, Keeps
<1>8. ActiveIn(p) \subseteq ActiveIn(q)
  BY <1>3 DEF ActiveIn
<1>9. SequentialIn(p) \subseteq SequentialIn(q) /\ GroupIn(p) \subseteq GroupIn(q)
  BY <1>3, <1>8 DEF SequentialIn, GroupIn
<1>10. ASSUME ~IsActive(q[k])
       PROVE  ActiveIn(p) = ActiveIn(q) /\ SequentialIn(p) = SequentialIn(q)
              /\ GroupIn(p) = GroupIn(q)
  <2>1. ASSUME NEW id \in ActiveIn(q)
        PROVE  id \in ActiveIn(p) /\ \E j \in DOMAIN q : q[j].id = id /\ j # k
    <3>1. PICK j \in DOMAIN q : q[j].status \in Active /\ q[j].id = id
      BY <2>1 DEF ActiveIn
    <3>2. j # k
      BY <1>10, <3>1 DEF IsActive
    <3>3. PICK i \in DOMAIN p : At(i) = j
      BY <1>5, <3>2
    <3>4. p[i] = q[j]
      BY <1>3, <3>3
    <3> QED
      BY <3>1, <3>2, <3>4 DEF ActiveIn
  <2>2. ASSUME NEW j \in DOMAIN q, q[j].id \in ActiveIn(q)
        PROVE  \E i \in DOMAIN p : p[i] = q[j] /\ p[i].id \in ActiveIn(p)
    <3>1. j # k /\ q[j].id \in ActiveIn(p)
      BY <1>1, <2>1, <2>2
    <3>2. PICK i \in DOMAIN p : At(i) = j
      BY <1>5, <3>1
    <3> QED
      BY <1>3, <3>1, <3>2
  <2>3. SequentialIn(q) \subseteq SequentialIn(p) /\ GroupIn(q) \subseteq GroupIn(p)
    BY <2>2 DEF SequentialIn, GroupIn
  <2> QED
    BY <1>8, <1>9, <2>1, <2>3
<1> QED
  BY <1>6, <1>7, <1>8, <1>9, <1>10 DEF p

LEMMA AppendedIs ==
    ASSUME NEW q \in Queue, NEW r \in Request, r.status = "PENDING", r.id \notin IdsIn(q)
    PROVE  LET p == Append(q, r)
           IN  /\ p \in Queue /\ IdsIn(p) = IdsIn(q) \cup {r.id}
               /\ PendingIn(p) \subseteq PendingIn(q) \cup {r.id}
               /\ ActiveIn(p) = ActiveIn(q) /\ SequentialIn(p) = SequentialIn(q)
                  /\ GroupIn(p) = GroupIn(q)
<1> DEFINE p == Append(q, r)
           n == Len(q)
<1>1. /\ q \in Seq(Request) /\ n \in Nat /\ DOMAIN q = 1..n
      /\ \A i \in DOMAIN q : q[i] \in Request
      /\ \A i, j \in DOMAIN q : q[i].id = q[j].id => i = j
  BY QueueIs
<1>2. /\ p \in Seq(Request) /\ DOMAIN p = 1..(n + 1) /\ p[n + 1] = r
      /\ \A i \in DOMAIN q : p[i] = q[i]
  BY <1>1
<1> HIDE DEF p, n
<1>3. /\ DOMAIN p = DOMAIN q \cup {n + 1} /\ n + 1 \notin DOMAIN q
      /\ \A i \in DOMAIN q : p[i] = q[i] /\ q[i].id # r.id
  BY <1>1, <1>2 DEF IdsIn
<1>4. p \in Queue
  <2>1. \A i, j \in DOMAIN p : p[i].id = p[j].id => i = j
    BY <1>1, <1>2, <1>3
  <2> QED
    BY <1>2, <2>1 DEF Queue
<1>5. IdsIn(p) = IdsIn(q) \cup {r.id} /\ PendingIn(p) \subseteq PendingIn(q) \cup {r.id}
  <2>1. \A i \in DOMAIN p : (i \in DOMAIN q /\ p[i] = q[i]) \/ p[i] = r
    BY <1>2, <1>3
  <2>2. IdsIn(p) \subseteq IdsIn(q) \cup {r.id} /\ PendingIn(p) \subseteq PendingIn(q) \cup {r.id}
    BY <2>1 DEF IdsIn, PendingIn
  <2>3. IdsIn(q) \subseteq IdsIn(p) /\ r.id \in IdsIn(p)
    BY <1>2, <1>3 DEF IdsIn
  <2> QED
    BY <2>2, <2>3
<1>6. ActiveIn(p) = ActiveIn(q)
  <2>1. r.status \notin Active
    BY DEF Active
  <2> QED
    BY <1>2, <1>3, <2>1 DEF ActiveIn
<1>7. SequentialIn(p) = SequentialIn(q) /\ GroupIn(p) = GroupIn(q)
  <2>1. r.id \notin ActiveIn(q)
    BY DEF ActiveIn, IdsIn
  <2> QED
    BY <1>2, <1>3, <1>6, <2>1 DEF SequentialIn, GroupIn
<1> QED
  BY <1>4, <1>5, <1>6, <1>7 DEF p

\* What is counted.
LEMMA TallyCounts ==
    ASSUME tally \in [Counters -> Nat], NEW what \in Counters, Noted(what)
    PROVE  /\ tally' \in [Counters -> Nat]
           /\ tally'.ids = IF what = "ids" THEN tally.ids + 1 ELSE tally.ids
<1>1. tally' = [tally EXCEPT ![what] = tally[what] + 1] /\ tally[what] + 1 \in Nat
  BY DEF Noted
<1>2. "ids" \in Counters
  BY DEF Counters
<1> HIDE DEF Counters
<1> QED
  BY <1>1, <1>2

LEMMA SaveIs ==
    ASSUME QueueTyped, Save(items')
    PROVE  /\ onDisk' = onDisk \/ onDisk' = items'
           /\ toStudio' = toStudio \/ toStudio' = <<[type |-> "WaitlistUpdated", items |-> items']>>
           /\ tally' \in [Counters -> Nat] /\ tally'.ids = tally.ids
<1>1. CASE Fault /\ UNCHANGED <<onDisk, toStudio>>
  <2>1. "faults" \in Counters
    BY DEF Counters
  <2> QED
    BY <1>1, <2>1, TallyCounts DEF Fault, QueueTyped
<1>2. CASE onDisk' = items' /\ Publishes(items') /\ UNCHANGED tally
  BY <1>2 DEF Publishes, QueueTyped
<1> QED
  BY <1>1, <1>2 DEF Save

LEMMA PublishedIs ==
    ASSUME toStudio \in Seq(Publication), items' \in Queue,
           \/ toStudio' = toStudio \/ toStudio' = <<[type |-> "WaitlistUpdated", items |-> items']>>
           \/ toStudio' \in Seq(Publication) /\ Published' \subseteq Published
    PROVE  toStudio' \in Seq(Publication) /\ Published' \subseteq Published \cup ActiveIn(items)'
<1>1. CASE toStudio' = toStudio
  BY <1>1 DEF Published
<1>2. CASE toStudio' = <<[type |-> "WaitlistUpdated", items |-> items']>>
  <2> DEFINE m == [type |-> "WaitlistUpdated", items |-> items']
  <2>1. m \in Publication /\ m.items = items'
    BY DEF Publication
  <2> HIDE DEF m
  <2>2. toStudio' = <<m>> /\ toStudio' \in Seq(Publication) /\ DOMAIN toStudio' = {1} /\ toStudio'[1] = m
    BY <1>2, <2>1 DEF m
  <2>3. Published' \subseteq ActiveIn(items)'
    BY <2>1, <2>2 DEF Published
  <2> QED
    BY <2>2, <2>3
<1> QED
  BY <1>1, <1>2

LEMMA PublishesOne ==
    ASSUME toStudio \in Seq(Publication), NEW q \in Queue, Publishes(q)
    PROVE  toStudio' \in Seq(Publication) /\ Published' \subseteq Published \cup ActiveIn(q)
<1>1. CASE toStudio' = toStudio
  BY <1>1 DEF Published
<1>2. CASE toStudio' = <<[type |-> "WaitlistUpdated", items |-> q]>>
  <2> DEFINE m == [type |-> "WaitlistUpdated", items |-> q]
  <2>1. m \in Publication /\ m.items = q
    BY DEF Publication
  <2> HIDE DEF m
  <2>2. toStudio' = <<m>> /\ toStudio' \in Seq(Publication) /\ DOMAIN toStudio' = {1} /\ toStudio'[1] = m
    BY <1>2, <2>1 DEF m
  <2>3. Published' \subseteq ActiveIn(q)
    BY <2>1, <2>2 DEF Published
  <2> QED
    BY <2>2, <2>3
<1> QED
  BY <1>1, <1>2 DEF Publishes

(***************************************************************************)
(* A queue that changes, of which a copy may be saved and published.       *)
(***************************************************************************)
LEMMA QueueSaved ==
    ASSUME QueueTyped, items' \in Queue, onDisk' = onDisk \/ onDisk' = items',
           \/ toStudio' = toStudio \/ toStudio' = <<[type |-> "WaitlistUpdated", items |-> items']>>
           \/ toStudio' \in Seq(Publication) /\ Published' \subseteq Published,
           UNCHANGED queueView, Ordered' \subseteq Ordered
    PROVE  /\ onDisk' \in Queue /\ toStudio' \in Seq(Publication)
           /\ Known' \subseteq Known \cup ActiveIn(items)'
           /\ Waiting' \subseteq PendingIn(onDisk) \cup PendingIn(items)'
           /\ IdsIn(onDisk)' \subseteq IdsIn(onDisk) \cup IdsIn(items)'
<1>1. onDisk' \in Queue
  BY DEF QueueTyped
<1>2. toStudio' \in Seq(Publication) /\ Published' \subseteq Published \cup ActiveIn(items)'
  BY PublishedIs DEF QueueTyped
<1>3. ActiveIn(onDisk)' \subseteq ActiveIn(onDisk) \cup ActiveIn(items)' /\ ActiveIn(queueView)' = ActiveIn(queueView)
  BY DEF ActiveIn
<1>4. Known' \subseteq Known \cup ActiveIn(items)'
  BY <1>2, <1>3 DEF Known
<1>5. Waiting' \subseteq PendingIn(onDisk) \cup PendingIn(items)'
  BY DEF Waiting, PendingIn
<1>6. IdsIn(onDisk)' \subseteq IdsIn(onDisk) \cup IdsIn(items)'
  BY DEF IdsIn
<1> QED
  BY <1>1, <1>2, <1>4, <1>5, <1>6

LEMMA KeepsPending ==
    ASSUME NEW q, NEW p, Keeps(q, p)
    PROVE  PendingIn(p) \subseteq PendingIn(q)
  BY DEF Keeps, PendingIn

LEMMA QueueThinned ==
    ASSUME QueueInv, items' \in Queue, onDisk' = onDisk \/ onDisk' = items',
           \/ toStudio' = toStudio \/ toStudio' = <<[type |-> "WaitlistUpdated", items |-> items']>>
           \/ toStudio' \in Seq(Publication) /\ Published' \subseteq Published,
           UNCHANGED queueView, Ordered' \subseteq Ordered, tally'.ids = tally.ids,
           IdsIn(items') \subseteq IdsIn(items), Keeps(items, items'),
           ActiveIn(items') \subseteq ActiveIn(items),
           SequentialIn(items') \subseteq SequentialIn(items)
           /\ GroupIn(items') \subseteq GroupIn(items)
    PROVE  /\ onDisk' \in Queue /\ toStudio' \in Seq(Publication)
           /\ NeverWaitsAgain' /\ IdsAreCounted' /\ PlacesRespected'
<1>1. QueueTyped /\ items \in Queue /\ tally.ids \in Nat
  BY DEF QueueInv, QueueTyped, Counters
<1>2. /\ onDisk' \in Queue /\ toStudio' \in Seq(Publication)
      /\ Known' \subseteq Known \cup ActiveIn(items)'
      /\ Waiting' \subseteq PendingIn(onDisk) \cup PendingIn(items)'
      /\ IdsIn(onDisk)' \subseteq IdsIn(onDisk) \cup IdsIn(items)'
  BY <1>1, QueueSaved
<1>3. PendingIn(items') \subseteq PendingIn(items)
  BY KeepsPending
<1>4. Known' \subseteq Known /\ Waiting' \subseteq Waiting
      /\ IdsIn(items)' \cup IdsIn(onDisk)' \subseteq IdsIn(items) \cup IdsIn(onDisk)
  <2>1. ActiveIn(items)' = ActiveIn(items') /\ PendingIn(items)' = PendingIn(items')
        /\ IdsIn(items)' = IdsIn(items')
    BY DEF ActiveIn, PendingIn, IdsIn
  <2> QED
    BY <1>2, <1>3, <2>1 DEF Known, Waiting
<1>5. NeverWaitsAgain' /\ IdsAreCounted'
  BY <1>1, <1>4 DEF QueueInv, NeverWaitsAgain, IdsAreCounted
<1>6. PlacesRespected'
  <2>1. /\ IsFiniteSet(ActiveIn(items)) /\ IsFiniteSet(SequentialIn(items))
        /\ Cardinality(ActiveIn(items)) <= Places /\ Cardinality(SequentialIn(items)) <= 1
    BY <1>1, QueueFinite DEF QueueInv, PlacesRespected
  <2>2. Cardinality(ActiveIn(items')) <= Cardinality(ActiveIn(items))
    BY <2>1, FS_Subset
  <2>3. Cardinality(SequentialIn(items')) <= Cardinality(SequentialIn(items))
    BY <2>1, FS_Subset
  <2>4. /\ Cardinality(ActiveIn(items)) \in Nat /\ Cardinality(SequentialIn(items)) \in Nat
        /\ Cardinality(ActiveIn(items')) \in Nat /\ Cardinality(SequentialIn(items')) \in Nat
    BY <2>1, FS_CardinalityType, FS_Subset
  <2>5. Places \in Nat
    BY WaitlistAssumption DEF WaitlistAssumption
  <2>6. Cardinality(ActiveIn(items')) <= Places /\ Cardinality(SequentialIn(items')) <= 1
    BY <2>1, <2>2, <2>3, <2>4, <2>5
  <2> QED
    BY <2>6 DEF PlacesRespected, ActiveIn, SequentialIn, GroupIn
<1> QED
  BY <1>2, <1>5, <1>6

\* The places are as they were: what could not start cannot.
LEMMA StillFilled ==
    ASSUME PlacesAreFilled, ActiveIn(items') = ActiveIn(items),
           SequentialIn(items') = SequentialIn(items)
           /\ GroupIn(items') = GroupIn(items), Keeps(items, items'),
           UNCHANGED <<pos, owed, vacated, health>>
    PROVE  PlacesAreFilled'
<1> SUFFICES ASSUME health = "ok", NEW i \in DOMAIN items', Launchable(i)'
             PROVE  \E j \in DOMAIN items : Launchable(j)
  BY DEF PlacesAreFilled
<1>1. PICK j \in DOMAIN items : items[j].status = "PENDING" /\ items[j].id = items'[i].id
                                /\ items[j].mode = items'[i].mode
  BY DEF Launchable, Keeps
<1>2. /\ Cardinality(ActiveIn(items')) < Places /\ (items'[i].mode = "sequential" => GroupIn(items') = {})
  BY DEF Launchable, ActiveIn, SequentialIn, GroupIn
<1> QED
  BY <1>1, <1>2 DEF Launchable

(***************************************************************************)
(* What is done to a request.                                              *)
(***************************************************************************)
LEMMA UpdateStatusKeeps ==
    ASSUME QueueInv, NEW id, NEW s \in Statuses \ {"PENDING"}, s = "OVER" \/ id \in Known,
           UpdateStatus(id, s), UNCHANGED queueView, Ordered' \subseteq Ordered
    PROVE  /\ items' \in Queue /\ onDisk' \in Queue /\ toStudio' \in Seq(Publication)
           /\ tally' \in [Counters -> Nat]
           /\ NeverWaitsAgain' /\ IdsAreCounted' /\ PlacesRespected' /\ Keeps(items, items')
           /\ (s # "OVER" \/ StatusOf(id) \notin Active) =>
                ActiveIn(items') = ActiveIn(items) /\ SequentialIn(items') = SequentialIn(items)
                /\ GroupIn(items') = GroupIn(items)
<1>1. QueueTyped /\ items \in Queue /\ \A i \in DOMAIN items : items[i] \in Request
  BY QueueIs DEF QueueInv, QueueTyped
<1>2. CASE UNCHANGED <<items, onDisk, toStudio, unsaved, tally>>
  <2>1. IdsIn(items') = IdsIn(items) /\ Keeps(items, items')
        /\ ActiveIn(items') = ActiveIn(items) /\ SequentialIn(items') = SequentialIn(items)
           /\ GroupIn(items') = GroupIn(items)
    BY <1>2 DEF Keeps
  <2>2. tally' \in [Counters -> Nat] /\ tally'.ids = tally.ids
    BY <1>1, <1>2 DEF QueueTyped
  <2> QED
    BY <1>1, <1>2, <2>1, <2>2, QueueThinned
<1>3. ASSUME NEW k \in IndexOf(id), items[k].status # "OVER", Save(items'),
             items' = [i \in DOMAIN items |->
                         IF items[i].id = id THEN [items[i] EXCEPT !.status = s] ELSE items[i]]
      PROVE  /\ items' \in Queue /\ onDisk' \in Queue /\ toStudio' \in Seq(Publication)
             /\ tally' \in [Counters -> Nat]
             /\ NeverWaitsAgain' /\ IdsAreCounted' /\ PlacesRespected' /\ Keeps(items, items')
             /\ (s # "OVER" \/ StatusOf(id) \notin Active) =>
                  ActiveIn(items') = ActiveIn(items) /\ SequentialIn(items') = SequentialIn(items)
                  /\ GroupIn(items') = GroupIn(items)
  <2>1. /\ items' \in Queue /\ IdsIn(items') = IdsIn(items) /\ Keeps(items, items')
        /\ s = "OVER" => ActiveIn(items') \subseteq ActiveIn(items)
                         /\ SequentialIn(items') \subseteq SequentialIn(items)
                            /\ GroupIn(items') \subseteq GroupIn(items)
        /\ (\E i \in DOMAIN items : items[i].id = id /\ (IsActive(items[i]) <=> s \in Active)) =>
             ActiveIn(items') = ActiveIn(items) /\ SequentialIn(items') = SequentialIn(items)
             /\ GroupIn(items') = GroupIn(items)
    <3>1. items' = Restate(items, id, s)
      BY <1>3 DEF Restate
    <3> QED
      BY <1>1, <3>1, Updated
  <2>2. k \in DOMAIN items /\ items[k].id = id /\ items[k].status \in Statuses
    BY <1>1, <1>3 DEF IndexOf, Request
  <2>3. s # "OVER" => s \in Active /\ IsActive(items[k])
    <3>1. ASSUME s # "OVER"
          PROVE  items[k].status # "PENDING"
      BY <2>2, <3>1 DEF QueueInv, NeverWaitsAgain, Waiting, PendingIn
    <3> QED
      BY <1>3, <2>2, <3>1 DEF Statuses, Active, IsActive
  <2>4. StatusOf(id) = items[k].status
    <3>1. \A i \in IndexOf(id) : i = k
      BY <1>1, <2>2, QueueIs DEF IndexOf
    <3> QED
      BY <1>3, <3>1 DEF StatusOf
  <2>5. (s # "OVER" \/ StatusOf(id) \notin Active) =>
          ActiveIn(items') = ActiveIn(items) /\ SequentialIn(items') = SequentialIn(items)
          /\ GroupIn(items') = GroupIn(items)
    BY <2>1, <2>2, <2>3, <2>4 DEF IsActive, Active
  <2>6. ActiveIn(items') \subseteq ActiveIn(items) /\ SequentialIn(items') \subseteq SequentialIn(items)
        /\ GroupIn(items') \subseteq GroupIn(items)
    BY <2>1, <2>5
  <2>7. /\ onDisk' = onDisk \/ onDisk' = items'
        /\ toStudio' = toStudio \/ toStudio' = <<[type |-> "WaitlistUpdated", items |-> items']>>
        /\ tally' \in [Counters -> Nat] /\ tally'.ids = tally.ids
    BY <1>1, <1>3, SaveIs
  <2>8. /\ onDisk' \in Queue /\ toStudio' \in Seq(Publication)
        /\ NeverWaitsAgain' /\ IdsAreCounted' /\ PlacesRespected'
    BY <2>1, <2>6, <2>7, QueueThinned
  <2> QED
    BY <2>1, <2>5, <2>7, <2>8
<1> QED
  BY <1>2, <1>3 DEF UpdateStatus

LEMMA RemoveItemKeeps ==
    ASSUME QueueInv, NEW id, RemoveItem(id), UNCHANGED queueView, Ordered' \subseteq Ordered
    PROVE  /\ items' \in Queue /\ onDisk' \in Queue /\ toStudio' \in Seq(Publication)
           /\ tally' \in [Counters -> Nat]
           /\ NeverWaitsAgain' /\ IdsAreCounted' /\ PlacesRespected' /\ Keeps(items, items')
           /\ ActiveIn(items') = ActiveIn(items) /\ SequentialIn(items') = SequentialIn(items)
              /\ GroupIn(items') = GroupIn(items)
<1>1. QueueTyped /\ items \in Queue
  BY DEF QueueInv, QueueTyped
<1>2. CASE UNCHANGED <<items, onDisk, toStudio, unsaved, tally>>
  <2>1. IdsIn(items') = IdsIn(items) /\ Keeps(items, items')
        /\ ActiveIn(items') = ActiveIn(items) /\ SequentialIn(items') = SequentialIn(items)
           /\ GroupIn(items') = GroupIn(items)
    BY <1>2 DEF Keeps
  <2>2. tally' \in [Counters -> Nat] /\ tally'.ids = tally.ids
    BY <1>1, <1>2 DEF QueueTyped
  <2> QED
    BY <1>1, <1>2, <2>1, <2>2, QueueThinned
<1>3. ASSUME NEW k \in IndexOf(id), items[k].status \notin Active,
             NEW i \in IndexOf(id), items' = WithoutItem(items, i), Save(items')
      PROVE  /\ items' \in Queue /\ onDisk' \in Queue /\ toStudio' \in Seq(Publication)
             /\ tally' \in [Counters -> Nat]
             /\ NeverWaitsAgain' /\ IdsAreCounted' /\ PlacesRespected' /\ Keeps(items, items')
             /\ ActiveIn(items') = ActiveIn(items) /\ SequentialIn(items') = SequentialIn(items)
                /\ GroupIn(items') = GroupIn(items)
  <2>1. k \in DOMAIN items /\ i \in DOMAIN items /\ i = k /\ ~IsActive(items[k])
    BY <1>1, <1>3, QueueIs DEF IndexOf, IsActive
  <2>2. /\ items' \in Queue /\ IdsIn(items') \subseteq IdsIn(items) /\ Keeps(items, items')
        /\ ActiveIn(items') = ActiveIn(items) /\ SequentialIn(items') = SequentialIn(items)
           /\ GroupIn(items') = GroupIn(items)
    BY <1>1, <1>3, <2>1, RemovedIs
  <2>3. /\ onDisk' = onDisk \/ onDisk' = items'
        /\ toStudio' = toStudio \/ toStudio' = <<[type |-> "WaitlistUpdated", items |-> items']>>
        /\ tally' \in [Counters -> Nat] /\ tally'.ids = tally.ids
    BY <1>1, <1>3, SaveIs
  <2>4. /\ onDisk' \in Queue /\ toStudio' \in Seq(Publication)
        /\ NeverWaitsAgain' /\ IdsAreCounted' /\ PlacesRespected'
    BY <2>2, <2>3, QueueThinned
  <2> QED
    BY <2>2, <2>3, <2>4
<1> QED
  BY <1>2, <1>3 DEF RemoveItem

LEMMA Somebody ==
    ASSUME owed \in [{"bus", "rest"} -> Nat], NEW who \in {"bus", "rest"},
           owed' = [owed EXCEPT ![who] = @ + 1]
    PROVE  owed' \in [{"bus", "rest"} -> Nat] /\ owed' # NobodyOwes
<1>1. owed' \in [{"bus", "rest"} -> Nat] /\ owed'[who] = owed[who] + 1
  OBVIOUS
<1>2. \A x \in {"bus", "rest"} : NobodyOwes[x] = 0
  BY DEF NobodyOwes
<1>3. owed'[who] # NobodyOwes[who]
  BY <1>1, <1>2
<1> QED
  BY <1>1, <1>3

LEMMA EnqueueKeeps ==
    ASSUME QueueInv, pos = 0, NEW mode \in Modes, NEW who \in {"bus", "rest"}, Enqueue(mode, who),
           toForge' \in Seq(Command), Ordered' \subseteq Ordered,
           UNCHANGED <<queueView, pos, vacated, health>>
    PROVE  QueueInv'
<1>1. QueueTyped /\ items \in Queue /\ tally.ids \in Nat /\ tally \in [Counters -> Nat]
  BY DEF QueueInv, QueueTyped, Counters
<1>2. NothingBeforePump'
  BY DEF NothingBeforePump
<1>3. ASSUME UNCHANGED <<items, onDisk, toStudio, owed>>, tally' \in [Counters -> Nat],
             tally'.ids = tally.ids
      PROVE  QueueInv'
  <2>1. IdsIn(items') = IdsIn(items) /\ Keeps(items, items')
        /\ ActiveIn(items') = ActiveIn(items) /\ SequentialIn(items') = SequentialIn(items)
           /\ GroupIn(items') = GroupIn(items)
    BY <1>3 DEF Keeps
  <2>2. NeverWaitsAgain' /\ IdsAreCounted' /\ PlacesRespected'
    BY <1>1, <1>3, <2>1, QueueThinned
  <2>3. PlacesAreFilled'
    BY <1>3, <2>1, StillFilled DEF QueueInv
  <2>4. QueueTyped'
    BY <1>1, <1>3 DEF QueueTyped
  <2> QED
    BY <1>2, <2>2, <2>3, <2>4 DEF QueueInv
<1>4. CASE UNCHANGED <<items, onDisk, toStudio, unsaved, owed, tally>>
  BY <1>1, <1>3, <1>4
<1>5. CASE Fault /\ UNCHANGED <<items, onDisk, toStudio, unsaved, owed>>
  <2>1. "faults" \in Counters
    BY DEF Counters
  <2>2. tally' \in [Counters -> Nat] /\ tally'.ids = tally.ids
    BY <1>1, <1>5, <2>1, TallyCounts DEF Fault
  <2> QED
    BY <1>3, <1>5, <2>2
<1>6. ASSUME NEW r, r = [id |-> tally.ids + 1, mode |-> mode, status |-> "PENDING"],
             items' = Append(items, r), onDisk' = items', Publishes(items'),
             Noted("ids"), owed' = [owed EXCEPT ![who] = @ + 1]
      PROVE  QueueInv'
  <2>1. r \in Request /\ r.id = tally.ids + 1 /\ r.status = "PENDING" /\ r.id \in Nat
    BY <1>1, <1>6 DEF Request, Statuses
  <2>2. r.id \notin IdsIn(items) /\ r.id \notin Known
    BY <1>1, <2>1 DEF QueueInv, IdsAreCounted
  <2>3. /\ items' \in Queue /\ IdsIn(items') = IdsIn(items) \cup {r.id}
        /\ PendingIn(items') \subseteq PendingIn(items) \cup {r.id}
        /\ ActiveIn(items') = ActiveIn(items) /\ SequentialIn(items') = SequentialIn(items)
           /\ GroupIn(items') = GroupIn(items)
    BY <1>1, <1>6, <2>1, <2>2, AppendedIs
  <2>4. tally' \in [Counters -> Nat] /\ tally'.ids = tally.ids + 1
    <3>1. "ids" \in Counters
      BY DEF Counters
    <3> QED
      BY <1>1, <1>6, <3>1, TallyCounts
  <2>5. toStudio' = toStudio \/ toStudio' = <<[type |-> "WaitlistUpdated", items |-> items']>>
    BY <1>6 DEF Publishes
  <2>6. /\ onDisk' \in Queue /\ toStudio' \in Seq(Publication)
        /\ Known' \subseteq Known \cup ActiveIn(items)'
        /\ Waiting' \subseteq PendingIn(onDisk) \cup PendingIn(items)'
        /\ IdsIn(onDisk)' \subseteq IdsIn(onDisk) \cup IdsIn(items)'
    BY <1>1, <1>6, <2>3, <2>5, QueueSaved
  <2>7. /\ Known' \subseteq Known /\ Waiting' \subseteq Waiting \cup {r.id}
        /\ IdsIn(items)' \cup IdsIn(onDisk)' \subseteq IdsIn(items) \cup IdsIn(onDisk) \cup {r.id}
    <3>1. ActiveIn(items)' = ActiveIn(items') /\ PendingIn(items)' = PendingIn(items')
          /\ IdsIn(items)' = IdsIn(items')
      BY DEF ActiveIn, PendingIn, IdsIn
    <3> QED
      BY <2>3, <2>6, <3>1 DEF Known, Waiting
  <2>8. NeverWaitsAgain' /\ IdsAreCounted'
    <3>1. NeverWaitsAgain'
      BY <2>2, <2>7 DEF QueueInv, NeverWaitsAgain
    <3>2. IdsAreCounted'
      BY <1>1, <2>1, <2>4, <2>7 DEF QueueInv, IdsAreCounted
    <3> QED
      BY <3>1, <3>2
  <2>9. PlacesRespected'
    <3>1. ActiveIn(items)' = ActiveIn(items) /\ SequentialIn(items)' = SequentialIn(items)
          /\ GroupIn(items)' = GroupIn(items)
      BY <2>3 DEF ActiveIn, SequentialIn, GroupIn
    <3> QED
      BY <3>1 DEF QueueInv, PlacesRespected
  <2>10. owed' \in [{"bus", "rest"} -> Nat] /\ PlacesAreFilled'
    BY <1>1, <1>6, Somebody DEF QueueTyped, PlacesAreFilled
  <2>11. QueueTyped'
    BY <1>1, <2>3, <2>4, <2>6, <2>10 DEF QueueTyped
  <2> QED
    BY <1>2, <2>8, <2>9, <2>10, <2>11 DEF QueueInv
<1> QED
  BY <1>4, <1>5, <1>6 DEF Enqueue

(***************************************************************************)
(* What leaves the queue alone: the window, the socket and what is under   *)
(* way on it.                                                              *)
(***************************************************************************)
LEMMA QueueUntouched ==
    ASSUME QueueInv, UNCHANGED <<items, onDisk, owed, pos, vacated, health>>,
           tally' \in [Counters -> Nat], tally'.ids = tally.ids,
           queueView' \in Queue, toForge' \in Seq(Command), toStudio' \in Seq(Publication),
           ActiveIn(queueView)' \cup Published' \cup Ordered' \subseteq Known
    PROVE  QueueInv'
<1>1. QueueTyped'
  BY DEF QueueInv, QueueTyped
<1>2. Waiting' = Waiting /\ IdsIn(items)' = IdsIn(items) /\ IdsIn(onDisk)' = IdsIn(onDisk)
      /\ ActiveIn(items)' = ActiveIn(items) /\ ActiveIn(onDisk)' = ActiveIn(onDisk)
      /\ SequentialIn(items)' = SequentialIn(items) /\ GroupIn(items)' = GroupIn(items)
  BY DEF Waiting, IdsIn, PendingIn, ActiveIn, SequentialIn, GroupIn
<1>3. Known' \subseteq Known
  BY <1>2 DEF Known
<1>4. NeverWaitsAgain' /\ IdsAreCounted'
  BY <1>2, <1>3 DEF QueueInv, NeverWaitsAgain, IdsAreCounted
<1>5. PlacesRespected'
  BY <1>2 DEF QueueInv, PlacesRespected
<1>6. \A i : Launchable(i)' <=> Launchable(i)
  BY <1>2 DEF Launchable
<1>7. NothingBeforePump' /\ PlacesAreFilled'
  BY <1>6 DEF QueueInv, NothingBeforePump, PlacesAreFilled
<1> QED
  BY <1>1, <1>4, <1>5, <1>7 DEF QueueInv

LEMMA OnTheWay ==
    ASSUME QueueTyped
    PROVE  /\ \A k \in DOMAIN toForge : toForge[k] \in Command
           /\ \A k \in DOMAIN toStudio : toStudio[k] \in Publication
           /\ DOMAIN toForge = 1..Len(toForge) /\ Len(toForge) \in Nat
           /\ DOMAIN toStudio = 1..Len(toStudio) /\ Len(toStudio) \in Nat
  BY DEF QueueTyped

\* The next command is taken.
LEMMA NextCommand ==
    ASSUME QueueTyped, toForge # <<>>, toForge' = Tail(toForge)
    PROVE  /\ toForge' \in Seq(Command) /\ Ordered' \subseteq Ordered
           /\ Head(toForge) \in Command
           /\ Head(toForge).do \in {"pause", "resume"} => Head(toForge).id \in Ordered
<1>1. toForge \in Seq(Command) /\ DOMAIN toForge = 1..Len(toForge) /\ Len(toForge) \in Nat \ {0}
  BY DEF QueueTyped
<1>2. /\ toForge' \in Seq(Command) /\ DOMAIN toForge' = 1..(Len(toForge) - 1)
      /\ \A k \in DOMAIN toForge' : toForge'[k] = toForge[k + 1]
      /\ Head(toForge) = toForge[1] /\ Head(toForge) \in Command
  BY <1>1
<1>3. \A k \in DOMAIN toForge' : k + 1 \in DOMAIN toForge /\ toForge'[k] = toForge[k + 1]
  BY <1>1, <1>2
<1>4. Ordered' \subseteq Ordered
  BY <1>3 DEF Ordered
<1>5. 1 \in DOMAIN toForge
  BY <1>1
<1> QED
  BY <1>2, <1>4, <1>5 DEF Ordered

\* A command more.
LEMMA OneCommandMore ==
    ASSUME QueueTyped, NEW c \in Command, toForge' = Append(toForge, c)
    PROVE  /\ toForge' \in Seq(Command)
           /\ c.do \notin {"pause", "resume"} => Ordered' \subseteq Ordered
           /\ Ordered' \subseteq Ordered \cup {c.id}
<1>1. toForge \in Seq(Command) /\ DOMAIN toForge = 1..Len(toForge) /\ Len(toForge) \in Nat
  BY DEF QueueTyped
<1>2. /\ toForge' \in Seq(Command) /\ DOMAIN toForge' = 1..(Len(toForge) + 1)
      /\ \A k \in DOMAIN toForge : toForge'[k] = toForge[k]
      /\ toForge'[Len(toForge) + 1] = c
  BY <1>1
<1>3. \A k \in DOMAIN toForge' : (k \in DOMAIN toForge /\ toForge'[k] = toForge[k]) \/ toForge'[k] = c
  BY <1>1, <1>2
<1> QED
  BY <1>2, <1>3 DEF Ordered

LEMMA ClickStep ==
    ASSUME QueueInv, Click
    PROVE  QueueInv'
<1>1. QueueTyped /\ queueView \in Queue
  BY DEF QueueInv, QueueTyped
<1>2. PICK i \in DOMAIN queueView : \E b \in Buttons(queueView[i].status) :
        toForge' = Append(toForge, [do |-> b, id |-> queueView[i].id])
  BY DEF Click
<1>3. queueView[i] \in Request
  BY <1>1, QueueIs
<1>4. PICK b \in Buttons(queueView[i].status) :
        toForge' = Append(toForge, [do |-> b, id |-> queueView[i].id])
  BY <1>2
<1>5. b \in {"pause", "resume", "kill", "remove"}
      /\ (b \in {"pause", "resume"} => queueView[i].status \in Active)
  BY <1>4, <1>3 DEF Request, Statuses, Buttons, Active
<1> DEFINE c == [do |-> b, id |-> queueView[i].id]
<1>6. c \in Command /\ c.do = b /\ c.id = queueView[i].id
  BY <1>3, <1>5 DEF Command, Request
<1>7. toForge' = Append(toForge, c)
  BY <1>4
<1> HIDE DEF c
<1>8. /\ toForge' \in Seq(Command)
      /\ c.do \notin {"pause", "resume"} => Ordered' \subseteq Ordered
      /\ Ordered' \subseteq Ordered \cup {c.id}
  BY <1>1, <1>6, <1>7, OneCommandMore
<1>9. b \in {"pause", "resume"} => queueView[i].id \in ActiveIn(queueView)
  BY <1>5 DEF ActiveIn
<1>10. Ordered' \subseteq Ordered \cup ActiveIn(queueView)
  BY <1>6, <1>8, <1>9
<1>11. UNCHANGED <<items, onDisk, owed, pos, vacated, health, queueView, toStudio>> /\ Noted("clicks")
  BY DEF Click, ForgeUnseen, pumpVars
<1>12. tally' \in [Counters -> Nat] /\ tally'.ids = tally.ids
  <2>1. "clicks" \in Counters
    BY DEF Counters
  <2> QED
    BY <1>1, <1>11, <2>1, TallyCounts DEF QueueTyped
<1>13. ActiveIn(queueView)' \cup Published' \cup Ordered' \subseteq Known
  BY <1>10, <1>11 DEF Known, ActiveIn, Published
<1> QED
  BY <1>1, <1>8, <1>11, <1>12, <1>13, QueueUntouched DEF QueueTyped

LEMMA ComposerStep ==
    ASSUME QueueInv, ComposerNext
    PROVE  QueueInv'
<1>1. QueueTyped
  BY DEF QueueInv
<1>2. /\ UNCHANGED <<items, onDisk, owed, pos, vacated, health, queueView, toStudio>>
      /\ UNCHANGED tally \/ Noted("pieces") \/ Noted("submits")
      /\ UNCHANGED toForge \/ \E mode \in Modes :
                                toForge' = Append(toForge, [do |-> "enqueue", mode |-> mode])
  BY DEF ComposerNext, TypePrompt, AttachFiles, UploadEnds, Hears, Submit, Puts, ComposerElse,
         ForgeUnseen, pumpVars, Modes
<1>3. tally' \in [Counters -> Nat] /\ tally'.ids = tally.ids
  <2>1. "pieces" \in Counters /\ "submits" \in Counters
    BY DEF Counters
  <2> QED
    BY <1>1, <1>2, <2>1, TallyCounts DEF QueueTyped
<1>4. toForge' \in Seq(Command) /\ Ordered' \subseteq Ordered
  <2>1. CASE UNCHANGED toForge
    BY <1>1, <2>1 DEF QueueTyped, Ordered
  <2>2. ASSUME NEW mode \in Modes, toForge' = Append(toForge, [do |-> "enqueue", mode |-> mode])
        PROVE  toForge' \in Seq(Command) /\ Ordered' \subseteq Ordered
    <3> DEFINE c == [do |-> "enqueue", mode |-> mode]
    <3>1. c \in Command /\ c.do = "enqueue"
      BY DEF Command
    <3>2. toForge' = Append(toForge, c)
      BY <2>2
    <3> HIDE DEF c
    <3> QED
      BY <1>1, <3>1, <3>2, OneCommandMore
  <2> QED
    BY <1>2, <2>1, <2>2
<1>5. ActiveIn(queueView)' \cup Published' \cup Ordered' \subseteq Known
  BY <1>2, <1>4 DEF Known, ActiveIn, Published
<1> QED
  BY <1>1, <1>2, <1>3, <1>4, <1>5, QueueUntouched DEF QueueTyped

LEMMA LinkStep ==
    ASSUME QueueInv, LinkDrops \/ WindowHears \/ LinkReturns \/ Refused
    PROVE  QueueInv'
<1>1. QueueTyped
  BY DEF QueueInv
<1>2. /\ UNCHANGED <<items, onDisk, owed, pos, vacated, health, queueView>>
      /\ UNCHANGED tally \/ Noted("faults")
      /\ UNCHANGED toStudio \/ toStudio' = <<>>
  BY DEF LinkDrops, WindowHears, LinkReturns, Refused, Fault, LinkElse, ForgeUnseen, pumpVars
<1>3. tally' \in [Counters -> Nat] /\ tally'.ids = tally.ids
  <2>1. "faults" \in Counters
    BY DEF Counters
  <2> QED
    BY <1>1, <1>2, <2>1, TallyCounts DEF QueueTyped
<1>4. toStudio' \in Seq(Publication) /\ Published' \subseteq Published
  <2>1. CASE UNCHANGED toStudio
    BY <1>1, <2>1 DEF QueueTyped, Published
  <2>2. CASE toStudio' = <<>>
    BY <2>2 DEF Published
  <2> QED
    BY <1>2, <2>1, <2>2
<1>5. toForge' \in Seq(Command) /\ Ordered' \subseteq Ordered
  <2>1. CASE UNCHANGED toForge
    BY <1>1, <2>1 DEF QueueTyped, Ordered
  <2>2. CASE LinkReturns
    <3> DEFINE c == [do |-> "state"]
    <3>1. c \in Command /\ c.do = "state"
      BY DEF Command
    <3>2. toForge' = Append(toForge, c)
      BY <2>2 DEF LinkReturns
    <3> HIDE DEF c
    <3> QED
      BY <1>1, <3>1, <3>2, OneCommandMore
  <2>3. CASE Refused
    BY <1>1, <2>3, NextCommand DEF Refused
  <2>4. CASE LinkDrops
    <3>1. PICK k \in 0..Len(toForge) : toForge' = SubSeq(toForge, 1, k)
      BY <2>4 DEF LinkDrops
    <3>2. toForge \in Seq(Command) /\ Len(toForge) \in Nat
      BY <1>1 DEF QueueTyped
    <3>3. /\ toForge' \in Seq(Command)
          /\ \A i \in DOMAIN toForge' : i \in DOMAIN toForge /\ toForge'[i] = toForge[i]
      BY <3>1, <3>2
    <3> QED
      BY <3>3 DEF Ordered
  <2> QED
    BY <2>1, <2>2, <2>3, <2>4 DEF WindowHears
<1>6. ActiveIn(queueView)' \cup Published' \cup Ordered' \subseteq Known
  BY <1>2, <1>4, <1>5 DEF Known, ActiveIn
<1> QED
  BY <1>1, <1>2, <1>3, <1>4, <1>5, <1>6, QueueUntouched DEF QueueTyped

LEMMA ShownStep ==
    ASSUME QueueInv, Shown
    PROVE  QueueInv'
<1>1. QueueTyped /\ queueView \in Queue /\ toStudio \in Seq(Publication) /\ toStudio # <<>>
  BY DEF QueueInv, QueueTyped, Shown
<1>2. /\ UNCHANGED <<items, onDisk, owed, pos, vacated, health, toForge, tally>>
      /\ toStudio' = Tail(toStudio)
      /\ queueView' = IF Head(toStudio).type = "RuntimeOverloaded"
                      THEN OverIn(queueView, {"PENDING", "RUNNING", "PAUSED"})
                      ELSE Head(toStudio).items
  BY DEF Shown, pumpVars
<1>3. /\ DOMAIN toStudio = 1..Len(toStudio) /\ Len(toStudio) \in Nat \ {0}
      /\ toStudio' \in Seq(Publication) /\ DOMAIN toStudio' = 1..(Len(toStudio) - 1)
      /\ \A k \in DOMAIN toStudio' : toStudio'[k] = toStudio[k + 1]
      /\ Head(toStudio) = toStudio[1] /\ Head(toStudio) \in Publication
  BY <1>1, <1>2
<1>4. 1 \in DOMAIN toStudio /\ \A k \in DOMAIN toStudio' : k + 1 \in DOMAIN toStudio /\ toStudio'[k] = toStudio[k + 1]
  BY <1>3
<1>5. Published' \subseteq Published
  BY <1>4 DEF Published
<1>6. queueView' \in Queue /\ ActiveIn(queueView') \subseteq ActiveIn(queueView) \cup Published
  <2>1. CASE Head(toStudio).type = "RuntimeOverloaded"
    BY <1>1, <1>2, <2>1, OverInIs
  <2>2. CASE Head(toStudio).type # "RuntimeOverloaded"
    <3>1. toStudio[1].type = "WaitlistUpdated" /\ toStudio[1].items \in Queue /\ queueView' = toStudio[1].items
      BY <1>2, <1>3, <2>2 DEF Publication
    <3> QED
      BY <1>4, <3>1 DEF Published
  <2> QED
    BY <2>1, <2>2
<1>7. ActiveIn(queueView)' \cup Published' \cup Ordered' \subseteq Known
  <2>1. ActiveIn(queueView)' = ActiveIn(queueView') /\ Ordered' = Ordered
    BY <1>2 DEF ActiveIn, Ordered
  <2> QED
    BY <1>5, <1>6, <2>1 DEF Known
<1> QED
  BY <1>1, <1>2, <1>3, <1>6, <1>7, QueueUntouched DEF QueueTyped

(***************************************************************************)
(* The commands.                                                           *)
(***************************************************************************)
LEMMA CommandedStep ==
    ASSUME QueueInv, Commanded
    PROVE  QueueInv'
<1> DEFINE c == Head(toForge)
<1>1. /\ QueueTyped /\ toForge # <<>> /\ toForge' = Tail(toForge) /\ pos = 0
      /\ UNCHANGED <<queueView, pos, health>>
  BY DEF QueueInv, Commanded
<1>2. /\ toForge' \in Seq(Command) /\ Ordered' \subseteq Ordered /\ c \in Command
      /\ c.do \in {"pause", "resume"} => c.id \in Known
  BY <1>1, NextCommand DEF Known
<1> HIDE DEF c
<1>3. NothingBeforePump'
  BY <1>1 DEF NothingBeforePump
<1>4. ASSUME NEW s \in {"PAUSED", "RUNNING"}, NEW id \in Known, UpdateStatus(id, s),
             UNCHANGED <<stopping, vacated, owed>>
      PROVE  QueueInv'
  <2>1. s \in Statuses \ {"PENDING"} /\ s # "OVER"
    BY DEF Statuses
  <2>2. /\ items' \in Queue /\ onDisk' \in Queue /\ toStudio' \in Seq(Publication)
        /\ tally' \in [Counters -> Nat]
        /\ NeverWaitsAgain' /\ IdsAreCounted' /\ PlacesRespected' /\ Keeps(items, items')
        /\ ActiveIn(items') = ActiveIn(items) /\ SequentialIn(items') = SequentialIn(items)
           /\ GroupIn(items') = GroupIn(items)
    BY <1>1, <1>2, <1>4, <2>1, UpdateStatusKeeps
  <2>3. PlacesAreFilled'
    BY <1>1, <1>4, <2>2, StillFilled DEF QueueInv
  <2>4. QueueTyped'
    BY <1>1, <1>2, <1>4, <2>2 DEF QueueTyped
  <2> QED
    BY <1>3, <2>2, <2>3, <2>4 DEF QueueInv
<1>5. ASSUME NEW id, RemoveItem(id), UNCHANGED <<stopping, vacated, owed>>
      PROVE  QueueInv'
  <2>1. /\ items' \in Queue /\ onDisk' \in Queue /\ toStudio' \in Seq(Publication)
        /\ tally' \in [Counters -> Nat]
        /\ NeverWaitsAgain' /\ IdsAreCounted' /\ PlacesRespected' /\ Keeps(items, items')
        /\ ActiveIn(items') = ActiveIn(items) /\ SequentialIn(items') = SequentialIn(items)
           /\ GroupIn(items') = GroupIn(items)
    BY <1>1, <1>2, <1>5, RemoveItemKeeps
  <2>2. PlacesAreFilled'
    BY <1>1, <1>5, <2>1, StillFilled DEF QueueInv
  <2>3. QueueTyped'
    BY <1>1, <1>2, <1>5, <2>1 DEF QueueTyped
  <2> QED
    BY <1>3, <2>1, <2>2, <2>3 DEF QueueInv
<1>6. ASSUME NEW id, Kill(id), UNCHANGED owed
      PROVE  QueueInv'
  <2>1. UpdateStatus(id, "OVER") /\ vacated' = (vacated \/ StatusOf(id) \in Active)
        /\ "OVER" \in Statuses \ {"PENDING"}
    BY <1>6 DEF Kill, Statuses
  <2>2. /\ items' \in Queue /\ onDisk' \in Queue /\ toStudio' \in Seq(Publication)
        /\ tally' \in [Counters -> Nat]
        /\ NeverWaitsAgain' /\ IdsAreCounted' /\ PlacesRespected' /\ Keeps(items, items')
        /\ StatusOf(id) \notin Active =>
             ActiveIn(items') = ActiveIn(items) /\ SequentialIn(items') = SequentialIn(items)
             /\ GroupIn(items') = GroupIn(items)
    BY <1>1, <1>2, <2>1, UpdateStatusKeeps
  <2>3. PlacesAreFilled'
    <3>1. CASE StatusOf(id) \in Active
      BY <2>1, <3>1 DEF PlacesAreFilled
    <3>2. CASE StatusOf(id) \notin Active
      <4>1. vacated' = vacated
        BY <1>1, <2>1, <3>2 DEF QueueTyped
      <4> QED
        BY <1>1, <1>6, <2>2, <3>2, <4>1, StillFilled DEF QueueInv
    <3> QED
      BY <3>1, <3>2
  <2>4. QueueTyped'
    BY <1>1, <1>2, <1>6, <2>1, <2>2 DEF QueueTyped
  <2> QED
    BY <1>3, <2>2, <2>3, <2>4 DEF QueueInv
<1>7. ASSUME Publishes(items), UNCHANGED <<items, onDisk, stopping, vacated, owed, tally>>
      PROVE  QueueInv'
  <2>1. toStudio' = toStudio \/ toStudio' = <<[type |-> "WaitlistUpdated", items |-> items']>>
    BY <1>7 DEF Publishes
  <2>2. toStudio' \in Seq(Publication) /\ Published' \subseteq Published \cup ActiveIn(items)'
    BY <1>1, <1>7, <2>1, PublishedIs DEF QueueTyped
  <2>3. ActiveIn(queueView)' \cup Published' \cup Ordered' \subseteq Known
    <3>1. ActiveIn(items)' = ActiveIn(items) /\ ActiveIn(queueView)' = ActiveIn(queueView)
      BY <1>1, <1>7 DEF ActiveIn
    <3> QED
      BY <1>2, <2>2, <3>1 DEF Known
  <2> QED
    BY <1>1, <1>2, <1>7, <2>2, <2>3, QueueUntouched DEF QueueTyped
<1>8. ASSUME c.do = "enqueue", Enqueue(c.mode, "bus"), UNCHANGED <<stopping, vacated>>
      PROVE  QueueInv'
  <2>1. c.mode \in Modes
    BY <1>2, <1>8 DEF Command
  <2> QED
    BY <1>1, <1>2, <1>8, <2>1, EnqueueKeeps
<1>9. \/ c.do = "enqueue" /\ Enqueue(c.mode, "bus") /\ UNCHANGED <<stopping, vacated>>
      \/ c.do = "remove" /\ RemoveItem(c.id) /\ UNCHANGED <<stopping, vacated, owed>>
      \/ c.do = "kill" /\ Kill(c.id) /\ UNCHANGED owed
      \/ c.do = "pause" /\ UpdateStatus(c.id, "PAUSED") /\ UNCHANGED <<stopping, vacated, owed>>
      \/ c.do = "resume" /\ UpdateStatus(c.id, "RUNNING") /\ UNCHANGED <<stopping, vacated, owed>>
      \/ Publishes(items) /\ UNCHANGED <<items, onDisk, stopping, vacated, owed, tally>>
  BY DEF Commanded, c
<1> QED
  BY <1>2, <1>4, <1>5, <1>6, <1>7, <1>8, <1>9

LEMMA OthersStep ==
    ASSUME QueueInv, (\E mode \in Modes : TerminalEnqueues(mode)) \/ DashboardEnqueues
    PROVE  QueueInv'
<1>1. PICK mode \in Modes, who \in {"bus", "rest"} :
        /\ pos = 0 /\ Enqueue(mode, who) /\ UNCHANGED <<queueView, toForge, pos, vacated, health>>
  BY DEF TerminalEnqueues, DashboardEnqueues, Modes
<1>2. toForge' \in Seq(Command) /\ Ordered' \subseteq Ordered
  BY <1>1 DEF QueueInv, QueueTyped, Ordered
<1> QED
  BY <1>1, <1>2, EnqueueKeeps

(***************************************************************************)
(* The engine.  A request that is over has somebody who pumps.             *)
(***************************************************************************)
LEMMA RequestEnds ==
    ASSUME QueueInv, pos = 0, NEW id, UpdateStatus(id, "OVER"),
           UNCHANGED <<queueView, toForge, pos, vacated, health>>,
           owed' \in [{"bus", "rest"} -> Nat], owed' # NobodyOwes
    PROVE  QueueInv'
<1>1. QueueTyped /\ "OVER" \in Statuses \ {"PENDING"} /\ Ordered' \subseteq Ordered
  BY DEF QueueInv, Statuses, Ordered
<1>2. /\ items' \in Queue /\ onDisk' \in Queue /\ toStudio' \in Seq(Publication)
      /\ tally' \in [Counters -> Nat]
      /\ NeverWaitsAgain' /\ IdsAreCounted' /\ PlacesRespected'
  BY <1>1, UpdateStatusKeeps
<1>3. NothingBeforePump' /\ PlacesAreFilled'
  BY DEF NothingBeforePump, PlacesAreFilled
<1>4. QueueTyped'
  BY <1>1, <1>2 DEF QueueTyped
<1> QED
  BY <1>2, <1>3, <1>4 DEF QueueInv

LEMMA EngineQuiet ==
    ASSUME QueueInv, UNCHANGED <<items, onDisk, toStudio, owed, tally>>,
           UNCHANGED <<toForge, queueView, pos, vacated, health>>
    PROVE  QueueInv'
<1>1. ActiveIn(queueView)' \cup Published' \cup Ordered' \subseteq Known
  BY DEF Known, ActiveIn, Published, Ordered
<1> QED
  BY <1>1, QueueUntouched DEF QueueInv, QueueTyped

LEMMA EngineStep ==
    ASSUME QueueInv, NEW id,
           \/ Submitted(id) \/ Compiled(id) \/ Provisioned(id) \/ WorkflowEnds(id) \/ EngineKills(id)
    PROVE  QueueInv'
<1>1. UNCHANGED <<toForge, queueView, pos, vacated, health>>
  BY DEF Submitted, Compiled, Provisioned, WorkflowEnds, EngineKills, EngineElse
<1>2. \/ UNCHANGED <<items, onDisk, toStudio, owed, tally>>
      \/ /\ pos = 0 /\ UpdateStatus(id, "OVER")
         /\ owed' = [owed EXCEPT !.rest = @ + 1] \/ owed' = [owed EXCEPT !.bus = 1]
  BY DEF Submitted, Compiled, Provisioned, WorkflowEnds, EngineKills, EngineElse
<1>3. owed \in [{"bus", "rest"} -> Nat]
  BY DEF QueueInv, QueueTyped
<1>4. ASSUME owed' = [owed EXCEPT !.rest = @ + 1] \/ owed' = [owed EXCEPT !.bus = 1]
      PROVE  owed' \in [{"bus", "rest"} -> Nat] /\ owed' # NobodyOwes
  <2>1. CASE owed' = [owed EXCEPT !.rest = @ + 1]
    BY <1>3, <2>1, Somebody
  <2>2. CASE owed' = [owed EXCEPT !.bus = 1]
    <3>1. owed' \in [{"bus", "rest"} -> Nat] /\ owed'["bus"] = 1
      BY <1>3, <2>2
    <3>2. NobodyOwes["bus"] = 0
      BY DEF NobodyOwes
    <3> QED
      BY <3>1, <3>2
  <2> QED
    BY <1>4, <2>1, <2>2
<1> QED
  BY <1>1, <1>2, <1>4, RequestEnds, EngineQuiet

(***************************************************************************)
(* Pump.  What could not start before the place it has reached cannot      *)
(* after it has taken another: the places are fewer.                       *)
(***************************************************************************)
LEMMA KnownUnchanged ==
    ASSUME NeverWaitsAgain, IdsAreCounted, PlacesRespected, tally'.ids = tally.ids,
           UNCHANGED <<items, onDisk, toForge, toStudio, queueView>>
    PROVE  NeverWaitsAgain' /\ IdsAreCounted' /\ PlacesRespected'
<1>1. ActiveIn(items)' = ActiveIn(items) /\ ActiveIn(onDisk)' = ActiveIn(onDisk)
      /\ ActiveIn(queueView)' = ActiveIn(queueView) /\ SequentialIn(items)' = SequentialIn(items)
         /\ GroupIn(items)' = GroupIn(items)
  BY DEF ActiveIn, SequentialIn, GroupIn
<1>2. Published' = Published /\ Ordered' = Ordered
  BY DEF Published, Ordered, ActiveIn
<1>3. Waiting' = Waiting /\ IdsIn(items)' = IdsIn(items) /\ IdsIn(onDisk)' = IdsIn(onDisk)
  BY DEF Waiting, PendingIn, IdsIn
<1>4. Known' = Known
  BY <1>1, <1>2 DEF Known
<1> QED
  BY <1>1, <1>3, <1>4 DEF NeverWaitsAgain, IdsAreCounted, PlacesRespected

LEMMA PumpStartsStep ==
    ASSUME QueueInv, PumpStarts
    PROVE  QueueInv'
<1>1. /\ pos = 0 /\ pos' = IF health = "ok" THEN 1 ELSE 0
      /\ UNCHANGED <<items, onDisk, toForge, toStudio, queueView, vacated, health, tally>>
  BY DEF PumpStarts
<1>2. owed' \in [{"bus", "rest"} -> Nat]
  <2>1. PICK who \in {"bus", "rest"} : owed[who] > 0 /\ owed' = [owed EXCEPT ![who] = @ - 1]
    BY DEF PumpStarts
  <2>2. owed \in [{"bus", "rest"} -> Nat]
    BY DEF QueueInv, QueueTyped
  <2> QED
    BY <2>1, <2>2
<1>3. QueueTyped'
  BY <1>1, <1>2 DEF QueueInv, QueueTyped
<1>4. NeverWaitsAgain' /\ IdsAreCounted' /\ PlacesRespected'
  BY <1>1, KnownUnchanged DEF QueueInv
<1>5. \A i \in DOMAIN items : i \in Nat /\ i >= 1
  BY QueueIs DEF QueueInv, QueueTyped
<1>6. NothingBeforePump' /\ PlacesAreFilled'
  BY <1>1, <1>5 DEF NothingBeforePump, PlacesAreFilled
<1> QED
  BY <1>3, <1>4, <1>6 DEF QueueInv

LEMMA LeastOf ==
    ASSUME NEW S \in SUBSET Nat, S # {}
    PROVE  Min(S) \in S /\ \A y \in S : Min(S) <= y
<1>1. IsWellFoundedOn(OpToRel(<, Nat), Nat)
  BY NatLessThanWellFounded
<1>2. \E n \in S : \A m \in S : ~ (<<m, n>> \in OpToRel(<, Nat))
  BY <1>1, WFMin
<1>3. \E n \in S : \A m \in S : ~ (m < n)
  BY <1>2 DEF OpToRel
<1>4. \E n \in S : \A m \in S : n <= m
  BY <1>3
<1> QED
  BY <1>4 DEF Min

\* One place is taken.
LEMMA OneMore ==
    ASSUME NEW S, IsFiniteSet(S), NEW T \in SUBSET S, NEW n \in Nat, Cardinality(S) <= n
    PROVE  IsFiniteSet(T) /\ Cardinality(T) \in Nat /\ Cardinality(T) <= n
  BY FS_Subset, FS_CardinalityType

LEMMA FaultCounts ==
    ASSUME QueueInv, Fault
    PROVE  tally' \in [Counters -> Nat] /\ tally'.ids = tally.ids
<1>1. "faults" \in Counters
  BY DEF Counters
<1> QED
  BY <1>1, TallyCounts DEF Fault, QueueInv, QueueTyped

LEMMA PumpTakes ==
    ASSUME QueueInv, NEW i \in DOMAIN items, Launchable(i), NEW s \in {"RUNNING", "OVER"},
           NEW p, p = WithStatus(i, s)
    PROVE  /\ p \in Queue /\ IdsIn(p) = IdsIn(items) /\ Keeps(items, p)
           /\ DOMAIN p = DOMAIN items
           /\ \A j \in DOMAIN items : p[j].mode = items[j].mode
           /\ \A j \in DOMAIN items : p[j].status = IF j = i THEN s ELSE items[j].status
           /\ s = "OVER" => ActiveIn(p) = ActiveIn(items)
                            /\ SequentialIn(p) = SequentialIn(items)
                               /\ GroupIn(p) = GroupIn(items)
           /\ items[i].id \notin PendingIn(p)
           /\ s = "RUNNING" =>
                /\ ActiveIn(p) = ActiveIn(items) \cup {items[i].id}
                /\ SequentialIn(items) \subseteq SequentialIn(p)
                   /\ GroupIn(items) \subseteq GroupIn(p)
                /\ Cardinality(ActiveIn(p)) <= Places /\ Cardinality(SequentialIn(p)) <= 1
<1>1. /\ items \in Queue /\ \A j \in DOMAIN items : items[j] \in Request
      /\ \A j, k \in DOMAIN items : items[j].id = items[k].id => j = k
  BY QueueIs DEF QueueInv, QueueTyped
<1>2. items[i].status = "PENDING" /\ Cardinality(ActiveIn(items)) < Places
      /\ (items[i].mode = "sequential" => GroupIn(items) = {})
  BY DEF Launchable
<1> PICK x : x = items[i].id
  OBVIOUS
<1>3. p = Restate(items, x, s)
  <2>1. \A j \in DOMAIN items : items[j].id = x <=> j = i
    BY <1>1
  <2>2. p = [j \in DOMAIN items |->
                    IF j = i THEN [items[j] EXCEPT !.status = s] ELSE items[j]]
    BY DEF WithStatus
  <2> QED
    BY <2>1, <2>2 DEF Restate
<1>4. s \in Statuses \ {"PENDING"}
  BY DEF Statuses
<1>5. /\ p \in Queue /\ IdsIn(p) = IdsIn(items) /\ Keeps(items, p)
      /\ DOMAIN p = DOMAIN items
      /\ \A j \in DOMAIN items : p[j].id = items[j].id /\ p[j].mode = items[j].mode
      /\ \A j \in DOMAIN items : p[j].status = IF items[j].id = x THEN s ELSE items[j].status
      /\ (\E j \in DOMAIN items : items[j].id = x /\ (IsActive(items[j]) <=> s \in Active)) =>
           ActiveIn(p) = ActiveIn(items) /\ SequentialIn(p) = SequentialIn(items)
           /\ GroupIn(p) = GroupIn(items)
  BY <1>1, <1>3, <1>4, Updated
<1>6. \A j \in DOMAIN items : p[j].status = IF j = i THEN s ELSE items[j].status
  BY <1>1, <1>5
<1>7. s = "OVER" => ActiveIn(p) = ActiveIn(items) /\ SequentialIn(p) = SequentialIn(items)
                    /\ GroupIn(p) = GroupIn(items)
  BY <1>2, <1>5 DEF IsActive, Active
<1>8. ASSUME s = "RUNNING"
      PROVE  /\ ActiveIn(p) = ActiveIn(items) \cup {items[i].id}
             /\ SequentialIn(items) \subseteq SequentialIn(p)
                /\ GroupIn(items) \subseteq GroupIn(p)
             /\ Cardinality(ActiveIn(p)) <= Places /\ Cardinality(SequentialIn(p)) <= 1
  <2>1. ActiveIn(p) = ActiveIn(items) \cup {x}
    <3>1. \A j \in DOMAIN items : p[j].status \in Active <=> j = i \/ items[j].status \in Active
      BY <1>6, <1>8 DEF Active
    <3> QED
      BY <1>5, <3>1 DEF ActiveIn
  <2>2. SequentialIn(items) \subseteq SequentialIn(p)
        /\ GroupIn(items) \subseteq GroupIn(p)
    BY <1>5, <2>1 DEF SequentialIn, GroupIn
  <2>4. /\ IsFiniteSet(ActiveIn(items)) /\ IsFiniteSet(SequentialIn(items))
        /\ Places \in Nat /\ Cardinality(SequentialIn(items)) <= 1
    BY <1>1, QueueFinite, WaitlistAssumption DEF QueueInv, PlacesRespected, WaitlistAssumption
  <2>5. Cardinality(ActiveIn(p)) <= Places
    <3>1. /\ Cardinality(ActiveIn(items)) \in Nat
          /\ Cardinality(ActiveIn(items) \cup {x}) \in {Cardinality(ActiveIn(items)), Cardinality(ActiveIn(items)) + 1}
      BY <2>4, FS_AddElement, FS_CardinalityType
    <3> QED
      BY <1>2, <2>1, <2>4, <3>1
  <2>6. Cardinality(SequentialIn(p)) <= 1
    <3>1. CASE items[i].mode = "sequential"
      <4>1. SequentialIn(items) = {}
        BY <1>2, <3>1 DEF SequentialIn, GroupIn
      <4>2. SequentialIn(p) \subseteq {x}
        BY <1>5, <2>1, <4>1 DEF SequentialIn, GroupIn
      <4>3. IsFiniteSet({x}) /\ Cardinality({x}) = 1
        BY FS_Singleton
      <4> QED
        BY <4>2, <4>3, OneMore
    <3>2. CASE items[i].mode # "sequential"
      <4>1. SequentialIn(p) \subseteq SequentialIn(items)
        BY <1>1, <1>5, <2>1, <3>2 DEF SequentialIn, GroupIn
      <4> QED
        BY <2>4, <4>1, OneMore
    <3> QED
      BY <3>1, <3>2
  <2> QED
    BY <2>1, <2>2, <2>5, <2>6
<1>9. x \notin PendingIn(p)
  BY <1>1, <1>4, <1>5 DEF PendingIn
<1> QED
  BY <1>5, <1>6, <1>7, <1>8, <1>9

LEMMA PumpGoesOnStep ==
    ASSUME QueueInv, PumpGoesOn
    PROVE  QueueInv'
<1> DEFINE next == {k \in pos..Len(items) : Launchable(k)}
           i == Min(next)
<1>1. /\ QueueTyped /\ pos \in Nat \ {0} /\ UNCHANGED <<queueView, toForge, owed, health>>
      /\ items \in Queue /\ DOMAIN items = 1..Len(items) /\ Len(items) \in Nat /\ health = "ok"
  BY QueueIs DEF QueueInv, QueueTyped, PumpGoesOn, NothingBeforePump
<1>2. Ordered' \subseteq Ordered
  BY <1>1 DEF Ordered
<1>3. CASE next = {}
  <2>1. pos' = 0 /\ vacated' = FALSE /\ UNCHANGED <<items, onDisk, toStudio, tally>>
    BY <1>3 DEF PumpGoesOn
  <2>2. \A j \in DOMAIN items : ~Launchable(j)
    <3> SUFFICES ASSUME NEW j \in DOMAIN items, Launchable(j)
                 PROVE  FALSE
      OBVIOUS
    <3>1. j < pos \/ j \in pos..Len(items)
      BY <1>1
    <3> QED
      BY <1>1, <1>3, <3>1 DEF QueueInv, NothingBeforePump
  <2>3. \A j : Launchable(j)' <=> Launchable(j)
    BY <2>1 DEF Launchable, ActiveIn, SequentialIn, GroupIn
  <2>4. NothingBeforePump' /\ PlacesAreFilled'
    BY <2>1, <2>2, <2>3 DEF NothingBeforePump, PlacesAreFilled
  <2>5. NeverWaitsAgain' /\ IdsAreCounted' /\ PlacesRespected'
    BY <1>1, <2>1, KnownUnchanged DEF QueueInv
  <2>6. QueueTyped'
    BY <1>1, <2>1 DEF QueueTyped
  <2> QED
    BY <2>4, <2>5, <2>6 DEF QueueInv
<1>4. CASE next # {}
  <2>1. i \in next /\ \A y \in next : i <= y
    <3>1. next \in SUBSET Nat
      BY <1>1
    <3> HIDE DEF next
    <3> QED
      BY <1>4, <3>1, LeastOf
  <2>2. \/ /\ items' = WithStatus(i, "RUNNING") /\ onDisk' = items' /\ Publishes(items')
           /\ pos' = i + 1 /\ UNCHANGED <<vacated, tally>>
        \/ /\ Fault
           /\ pos' = 0 /\ vacated' = TRUE
           /\ UNCHANGED <<items, onDisk, toStudio>>
        \/ items' = WithStatus(i, "OVER") /\ StartFails(i) /\ pos' = i + 1 /\ UNCHANGED vacated
    BY <1>4 DEF PumpGoesOn
  <2> HIDE DEF i
  <2>3. i \in DOMAIN items /\ Launchable(i) /\ i + 1 \in Nat /\ i + 1 > 0
    BY <1>1, <2>1
  <2>4. \A j \in DOMAIN items : j < i => ~Launchable(j)
    <3> SUFFICES ASSUME NEW j \in DOMAIN items, j < i, Launchable(j)
                 PROVE  FALSE
      OBVIOUS
    <3>1. j < pos \/ j \in next
      BY <1>1
    <3> QED
      BY <1>1, <2>1, <2>3, <3>1 DEF QueueInv, NothingBeforePump
  <2> HIDE DEF next
  <2>5. ASSUME NEW s \in {"RUNNING", "OVER"}, items' = WithStatus(i, s), pos' = i + 1
        PROVE  NothingBeforePump' /\ PlacesAreFilled'
    <3>1. /\ DOMAIN items' = DOMAIN items
          /\ \A j \in DOMAIN items : items'[j].mode = items[j].mode
          /\ \A j \in DOMAIN items : items'[j].status = IF j = i THEN s ELSE items[j].status
          /\ ActiveIn(items) \subseteq ActiveIn(items') /\ SequentialIn(items) \subseteq SequentialIn(items')
             /\ GroupIn(items) \subseteq GroupIn(items')
      BY <2>3, <2>5, PumpTakes
    <3>2. \A j \in DOMAIN items : Launchable(j)' => Launchable(j) /\ j # i
      <4> SUFFICES ASSUME NEW j \in DOMAIN items, Launchable(j)'
                   PROVE  Launchable(j) /\ j # i
        OBVIOUS
      <4>1. /\ items'[j].status = "PENDING" /\ Cardinality(ActiveIn(items')) < Places
            /\ items'[j].mode = "sequential" => GroupIn(items') = {}
        BY DEF Launchable, ActiveIn, SequentialIn, GroupIn
      <4>2. j # i /\ items[j].status = "PENDING" /\ (items[j].mode = "sequential" => GroupIn(items) = {})
        BY <3>1, <4>1
      <4>3. items' \in Queue
        BY <2>3, <2>5, PumpTakes
      <4>4. IsFiniteSet(ActiveIn(items'))
        BY <4>3, QueueFinite
      <4>5. Cardinality(ActiveIn(items)) <= Cardinality(ActiveIn(items'))
        BY <3>1, <4>4, FS_Subset
      <4>6. Cardinality(ActiveIn(items)) \in Nat /\ Cardinality(ActiveIn(items')) \in Nat /\ Places \in Nat
        BY <1>1, <4>4, QueueFinite, FS_CardinalityType, WaitlistAssumption DEF WaitlistAssumption
      <4> QED
        BY <4>1, <4>2, <4>5, <4>6 DEF Launchable
    <3>3. \A j \in DOMAIN items' : j < pos' => ~Launchable(j)'
      <4> SUFFICES ASSUME NEW j \in DOMAIN items, j < i + 1, Launchable(j)'
                   PROVE  FALSE
        BY <2>5, <3>1
      <4>1. Launchable(j) /\ j # i
        BY <3>2
      <4>2. j < i
        BY <1>1, <2>3, <4>1
      <4> QED
        BY <2>4, <4>1, <4>2
    <3> QED
      BY <1>1, <2>3, <2>5, <3>3 DEF NothingBeforePump, PlacesAreFilled
  <2>6. CASE /\ items' = WithStatus(i, "RUNNING") /\ onDisk' = items' /\ Publishes(items')
             /\ pos' = i + 1 /\ UNCHANGED <<vacated, tally>>
    <3> DEFINE x == items[i].id
    <3>1. /\ items' \in Queue /\ IdsIn(items') = IdsIn(items) /\ Keeps(items, items')
          /\ ActiveIn(items') = ActiveIn(items) \cup {x} /\ x \notin PendingIn(items')
          /\ Cardinality(ActiveIn(items')) <= Places /\ Cardinality(SequentialIn(items')) <= 1
      BY <2>3, <2>6, PumpTakes
    <3>2. toStudio' = toStudio \/ toStudio' = <<[type |-> "WaitlistUpdated", items |-> items']>>
      BY <2>6 DEF Publishes
    <3>3. /\ toStudio' \in Seq(Publication) /\ Known' \subseteq Known \cup ActiveIn(items)'
      BY <1>1, <1>2, <2>6, <3>1, <3>2, QueueSaved
    <3>4. ActiveIn(items)' = ActiveIn(items') /\ PendingIn(items)' = PendingIn(items')
          /\ IdsIn(items)' = IdsIn(items') /\ IdsIn(onDisk)' = IdsIn(items')
          /\ SequentialIn(items)' = SequentialIn(items')
             /\ GroupIn(items)' = GroupIn(items') /\ PendingIn(onDisk)' = PendingIn(items')
      BY <2>6 DEF ActiveIn, PendingIn, IdsIn, SequentialIn, GroupIn
    <3>5. PendingIn(items') \subseteq PendingIn(items)
      BY <3>1, KeepsPending
    <3>6. x \in IdsIn(items) /\ Known' \subseteq Known \cup {x} /\ Waiting' \subseteq Waiting \ {x}
      BY <2>3, <3>1, <3>3, <3>4, <3>5 DEF Known, Waiting, IdsIn
    <3> HIDE DEF x
    <3>7. NeverWaitsAgain' /\ IdsAreCounted'
      BY <2>6, <3>1, <3>4, <3>6 DEF QueueInv, NeverWaitsAgain, IdsAreCounted
    <3>8. PlacesRespected'
      BY <3>1, <3>4 DEF PlacesRespected
    <3>9. QueueTyped'
      BY <1>1, <2>3, <2>6, <3>1, <3>3 DEF QueueTyped
    <3> QED
      BY <2>5, <2>6, <3>7, <3>8, <3>9 DEF QueueInv
  <2>7. CASE Fault /\ pos' = 0 /\ vacated' = TRUE /\ UNCHANGED <<items, onDisk, toStudio>>
    <3>1. tally' \in [Counters -> Nat] /\ tally'.ids = tally.ids
      <4>1. "faults" \in Counters
        BY DEF Counters
      <4> QED
        BY <1>1, <2>7, <4>1, TallyCounts DEF Fault, QueueTyped
    <3>2. IdsIn(items') = IdsIn(items) /\ Keeps(items, items')
          /\ ActiveIn(items') = ActiveIn(items) /\ SequentialIn(items') = SequentialIn(items)
             /\ GroupIn(items') = GroupIn(items)
      BY <2>7 DEF Keeps
    <3>3. NeverWaitsAgain' /\ IdsAreCounted' /\ PlacesRespected'
      BY <1>1, <1>2, <2>7, <3>1, <3>2, QueueThinned
    <3>4. NothingBeforePump' /\ PlacesAreFilled'
      BY <2>7 DEF NothingBeforePump, PlacesAreFilled
    <3>5. QueueTyped'
      BY <1>1, <2>7, <3>1 DEF QueueTyped
    <3> QED
      BY <3>3, <3>4, <3>5 DEF QueueInv
  <2>8. CASE items' = WithStatus(i, "OVER") /\ StartFails(i) /\ pos' = i + 1 /\ UNCHANGED vacated
    <3>1. /\ items' \in Queue /\ IdsIn(items') = IdsIn(items) /\ Keeps(items, items')
          /\ ActiveIn(items') = ActiveIn(items) /\ SequentialIn(items') = SequentialIn(items)
          /\ GroupIn(items') = GroupIn(items) /\ items[i].id \notin PendingIn(items')
      BY <2>3, <2>8, PumpTakes
    <3>2. CASE onDisk' = WithStatus(i, "OVER") /\ Publishes(onDisk') /\ UNCHANGED tally
      <4>1. /\ onDisk' = items'
            /\ toStudio' = toStudio \/ toStudio' = <<[type |-> "WaitlistUpdated", items |-> items']>>
            /\ tally' \in [Counters -> Nat] /\ tally'.ids = tally.ids
        BY <1>1, <2>8, <3>2 DEF Publishes, QueueTyped
      <4>2. /\ onDisk' \in Queue /\ toStudio' \in Seq(Publication)
            /\ NeverWaitsAgain' /\ IdsAreCounted' /\ PlacesRespected'
        BY <1>1, <1>2, <3>1, <4>1, QueueThinned
      <4>3. QueueTyped'
        BY <1>1, <2>3, <2>8, <3>1, <4>1, <4>2 DEF QueueTyped
      <4> QED
        BY <2>5, <2>8, <4>2, <4>3 DEF QueueInv
    <3>3. CASE Fault /\ onDisk' = WithStatus(i, "RUNNING") /\ Publishes(onDisk')
      <4> DEFINE x == items[i].id
      <4>1. /\ onDisk' \in Queue /\ IdsIn(onDisk') = IdsIn(items) /\ Keeps(items, onDisk')
            /\ ActiveIn(onDisk') = ActiveIn(items) \cup {x} /\ x \notin PendingIn(onDisk')
        BY <2>3, <3>3, PumpTakes
      <4>2. tally' \in [Counters -> Nat] /\ tally'.ids = tally.ids
        BY <3>3, FaultCounts
      <4>3. toStudio' \in Seq(Publication) /\ Published' \subseteq Published \cup ActiveIn(onDisk')
        BY <1>1, <3>3, <4>1, PublishesOne DEF QueueTyped
      <4>4. PendingIn(items') \subseteq PendingIn(items) /\ PendingIn(onDisk') \subseteq PendingIn(items)
        BY <3>1, <4>1, KeepsPending
      <4>5. /\ ActiveIn(items)' = ActiveIn(items') /\ PendingIn(items)' = PendingIn(items')
            /\ ActiveIn(onDisk)' = ActiveIn(onDisk') /\ PendingIn(onDisk)' = PendingIn(onDisk')
            /\ IdsIn(items)' = IdsIn(items') /\ IdsIn(onDisk)' = IdsIn(onDisk')
            /\ SequentialIn(items)' = SequentialIn(items') /\ ActiveIn(queueView)' = ActiveIn(queueView)
        BY <1>1 DEF ActiveIn, PendingIn, IdsIn, SequentialIn
      <4>6. x \in IdsIn(items)
        BY <2>3 DEF IdsIn
      <4> HIDE DEF x
      <4>7. Known' \subseteq Known \cup {x}
        BY <1>2, <3>1, <4>1, <4>3, <4>5 DEF Known
      <4>8. Waiting' \subseteq Waiting \ {x}
        BY <3>1, <4>1, <4>4, <4>5 DEF Waiting, x
      <4>9. NeverWaitsAgain' /\ IdsAreCounted'
        BY <3>1, <4>1, <4>2, <4>5, <4>6, <4>7, <4>8 DEF QueueInv, NeverWaitsAgain, IdsAreCounted
      <4>10. PlacesRespected'
        BY <3>1, <4>5 DEF QueueInv, PlacesRespected
      <4>11. QueueTyped'
        BY <1>1, <2>3, <2>8, <3>1, <4>1, <4>2, <4>3 DEF QueueTyped
      <4> QED
        BY <2>5, <2>8, <4>9, <4>10, <4>11 DEF QueueInv
    <3> QED
      BY <2>8, <3>2, <3>3 DEF StartFails
  <2> QED
    BY <2>2, <2>6, <2>7, <2>8
<1> QED
  BY <1>3, <1>4

(***************************************************************************)
(* The faults.                                                             *)
(***************************************************************************)
LEMMA PersistenceFailsStep ==
    ASSUME QueueInv, PersistenceFails
    PROVE  QueueInv'
<1>1. /\ QueueTyped /\ items \in Queue /\ pos = 0 /\ health' = "failed" /\ Fault
      /\ UNCHANGED <<queueView, toForge, owed, pos, vacated>>
      /\ onDisk' = onDisk \/ onDisk' = items'
      /\ toStudio' = toStudio \/ toStudio' = <<[type |-> "WaitlistUpdated", items |-> items']>>
  BY DEF QueueInv, QueueTyped, PersistenceFails, pumpVars, Publishes
<1>2. tally' \in [Counters -> Nat] /\ tally'.ids = tally.ids
  BY <1>1, FaultCounts
<1>3. PICK named : items' = [i \in DOMAIN items |-> IF items[i].id \in named
                                                  THEN [items[i] EXCEPT !.status = "OVER"]
                                                  ELSE items[i]]
  BY DEF PersistenceFails
<1>4. \A i \in DOMAIN items :
        /\ items'[i] \in Request /\ items'[i].id = items[i].id /\ items'[i].mode = items[i].mode
        /\ items'[i].status = items[i].status \/ items'[i].status = "OVER"
  <2> SUFFICES ASSUME NEW i \in DOMAIN items
               PROVE  /\ items'[i] \in Request /\ items'[i].id = items[i].id
                      /\ items'[i].mode = items[i].mode
                      /\ items'[i].status = items[i].status \/ items'[i].status = "OVER"
    OBVIOUS
  <2>1. items[i] \in Request
    BY <1>1, QueueIs
  <2>2. items'[i] = IF items[i].id \in named THEN [items[i] EXCEPT !.status = "OVER"] ELSE items[i]
    BY <1>3
  <2> QED
    BY <2>1, <2>2 DEF Request, Statuses
<1>5. items' \in [DOMAIN items -> Request]
  <2>1. DOMAIN items' = DOMAIN items /\ items' = [i \in DOMAIN items |-> items'[i]]
    BY <1>3
  <2> QED
    BY <1>4, <2>1
<1>6. \A i \in DOMAIN items : IsActive(items'[i]) => IsActive(items[i])
  BY <1>4 DEF IsActive, Active
<1>7. \A i \in DOMAIN items :
        /\ items'[i].id = items[i].id /\ items'[i].mode = items[i].mode
        /\ items'[i].status = "PENDING" => items[i].status = "PENDING"
  BY <1>4
<1>8. /\ items' \in Queue /\ IdsIn(items') = IdsIn(items) /\ Keeps(items, items')
      /\ ActiveIn(items') \subseteq ActiveIn(items)
      /\ SequentialIn(items') \subseteq SequentialIn(items)
         /\ GroupIn(items') \subseteq GroupIn(items)
  BY <1>1, <1>5, <1>6, <1>7, Restated
<1>9. Ordered' \subseteq Ordered
  BY <1>1 DEF Ordered
<1>10. /\ onDisk' \in Queue /\ toStudio' \in Seq(Publication)
       /\ NeverWaitsAgain' /\ IdsAreCounted' /\ PlacesRespected'
  BY <1>1, <1>2, <1>8, <1>9, QueueThinned
<1>11. NothingBeforePump' /\ PlacesAreFilled'
  BY <1>1 DEF NothingBeforePump, PlacesAreFilled
<1>12. QueueTyped'
  BY <1>1, <1>2, <1>8, <1>10 DEF QueueTyped
<1> QED
  BY <1>10, <1>11, <1>12 DEF QueueInv

LEMMA OverloadsStep ==
    ASSUME QueueInv, Overloads
    PROVE  QueueInv'
<1>1. /\ QueueTyped /\ items \in Queue /\ pos = 0 /\ health' = "overloaded" /\ Fault
      /\ UNCHANGED <<queueView, owed, pos, vacated>> /\ toForge' = <<>>
      /\ items' = OverIn(items, {"PENDING", "RUNNING", "PAUSED"})
      /\ onDisk' = onDisk \/ onDisk' = items'
  BY DEF QueueInv, QueueTyped, Overloads, pumpVars
<1>2. tally' \in [Counters -> Nat] /\ tally'.ids = tally.ids
  BY <1>1, FaultCounts
<1>3. toForge' \in Seq(Command) /\ Ordered' \subseteq Ordered
  BY <1>1 DEF Ordered
<1>4. toStudio' \in Seq(Publication) /\ Published' \subseteq Published
  <2>1. CASE toStudio' = toStudio
    BY <1>1, <2>1 DEF QueueTyped, Published
  <2>2. ASSUME NEW k \in 0..Len(toStudio),
               toStudio' = Append(SubSeq(toStudio, 1, k), [type |-> "RuntimeOverloaded"])
        PROVE  toStudio' \in Seq(Publication) /\ Published' \subseteq Published
    <3> DEFINE m == [type |-> "RuntimeOverloaded"]
               t == SubSeq(toStudio, 1, k)
    <3>1. m \in Publication /\ m.type = "RuntimeOverloaded"
      BY DEF Publication
    <3>2. toStudio \in Seq(Publication) /\ Len(toStudio) \in Nat
      BY <1>1 DEF QueueTyped
    <3>3. /\ t \in Seq(Publication) /\ DOMAIN t = 1..k /\ Len(t) = k
          /\ \A j \in 1..k : j \in DOMAIN toStudio /\ t[j] = toStudio[j]
      BY <3>2
    <3>4. toStudio' = Append(t, m)
      BY <2>2
    <3> HIDE DEF m, t
    <3>5. /\ toStudio' \in Seq(Publication) /\ DOMAIN toStudio' = 1..(k + 1) /\ toStudio'[k + 1] = m
          /\ \A j \in 1..k : toStudio'[j] = t[j]
      BY <3>1, <3>3, <3>4
    <3>6. \A j \in DOMAIN toStudio' :
            toStudio'[j] = m \/ (j \in DOMAIN toStudio /\ toStudio'[j] = toStudio[j])
      BY <3>3, <3>5
    <3>7. Published' \subseteq Published
      BY <3>1, <3>6 DEF Published
    <3> QED
      BY <3>5, <3>7
  <2> QED
    BY <2>1, <2>2 DEF Overloads
<1>5. /\ items' \in Queue /\ IdsIn(items') = IdsIn(items) /\ Keeps(items, items')
      /\ ActiveIn(items') \subseteq ActiveIn(items)
      /\ SequentialIn(items') \subseteq SequentialIn(items)
         /\ GroupIn(items') \subseteq GroupIn(items)
  BY <1>1, OverInIs
<1>6. onDisk' \in Queue /\ NeverWaitsAgain' /\ IdsAreCounted' /\ PlacesRespected'
  BY <1>1, <1>2, <1>3, <1>4, <1>5, QueueThinned
<1>7. NothingBeforePump' /\ PlacesAreFilled'
  BY <1>1 DEF NothingBeforePump, PlacesAreFilled
<1>8. QueueTyped'
  BY <1>1, <1>2, <1>3, <1>4, <1>5, <1>6 DEF QueueTyped
<1> QED
  BY <1>6, <1>7, <1>8 DEF QueueInv

LEMMA ForgeRestartsStep ==
    ASSUME QueueInv, ForgeRestarts
    PROVE  QueueInv'
<1>1. /\ QueueTyped /\ onDisk \in Queue /\ Fault /\ queueView' = queueView
      /\ toForge' = <<>> /\ toStudio' = <<>> /\ pos' = 0 /\ vacated' = FALSE
      /\ owed' = [bus |-> 0, rest |-> 1]
      /\ items' = OverIn(onDisk, Active) /\ onDisk' = items'
  BY DEF QueueInv, QueueTyped, ForgeRestarts
<1>2. tally' \in [Counters -> Nat] /\ tally'.ids = tally.ids
  BY <1>1, FaultCounts
<1>3. /\ items' \in Queue /\ IdsIn(items') = IdsIn(onDisk) /\ Keeps(onDisk, items')
  BY <1>1, OverInIs
<1>4. ActiveIn(items') = {} /\ SequentialIn(items') = {}
  <2>1. \A i \in DOMAIN onDisk : items'[i].status \notin Active
    <3> SUFFICES ASSUME NEW i \in DOMAIN onDisk
                 PROVE  items'[i].status \notin Active
      OBVIOUS
    <3>1. /\ onDisk[i] \in Request
          /\ items'[i] = IF onDisk[i].status \in Active THEN [onDisk[i] EXCEPT !.status = "OVER"]
                         ELSE onDisk[i]
      BY <1>1, QueueIs DEF OverIn
    <3> QED
      BY <3>1 DEF Request, Active
  <2>2. DOMAIN items' = DOMAIN onDisk
    BY <1>1 DEF OverIn
  <2>3. ActiveIn(items') = {}
    BY <2>1, <2>2 DEF ActiveIn
  <2> QED
    BY <2>3 DEF SequentialIn, GroupIn
<1>5. ActiveIn(items)' = {} /\ ActiveIn(onDisk)' = {} /\ SequentialIn(items)' = {}
      /\ IdsIn(items)' = IdsIn(onDisk) /\ IdsIn(onDisk)' = IdsIn(onDisk)
      /\ PendingIn(items)' \subseteq PendingIn(onDisk) /\ PendingIn(onDisk)' \subseteq PendingIn(onDisk)
      /\ ActiveIn(queueView)' = ActiveIn(queueView)
  <2>1. PendingIn(items') \subseteq PendingIn(onDisk)
    BY <1>3, KeepsPending
  <2>2. ActiveIn(items)' = ActiveIn(items') /\ SequentialIn(items)' = SequentialIn(items')
        /\ GroupIn(items)' = GroupIn(items')
        /\ IdsIn(items)' = IdsIn(items') /\ PendingIn(items)' = PendingIn(items')
    BY DEF ActiveIn, SequentialIn, GroupIn, IdsIn, PendingIn
  <2>3. ActiveIn(onDisk)' = ActiveIn(items') /\ IdsIn(onDisk)' = IdsIn(items')
        /\ PendingIn(onDisk)' = PendingIn(items')
    BY <1>1 DEF ActiveIn, IdsIn, PendingIn
  <2>4. ActiveIn(queueView)' = ActiveIn(queueView)
    BY <1>1 DEF ActiveIn
  <2> QED
    BY <1>3, <1>4, <2>1, <2>2, <2>3, <2>4
<1>6. Published' = {} /\ Ordered' = {}
  BY <1>1 DEF Published, Ordered
<1>7. Known' \subseteq Known /\ Waiting' \subseteq Waiting
  BY <1>5, <1>6 DEF Known, Waiting
<1>8. NeverWaitsAgain' /\ IdsAreCounted'
  BY <1>2, <1>5, <1>7 DEF QueueInv, NeverWaitsAgain, IdsAreCounted
<1>9. PlacesRespected'
  <2>1. Cardinality({}) = 0
    BY FS_EmptySet
  <2> QED
    BY <1>5, <2>1, WaitlistAssumption DEF PlacesRespected, WaitlistAssumption
<1>10. owed' \in [{"bus", "rest"} -> Nat] /\ owed' # NobodyOwes
  <2>1. owed' \in [{"bus", "rest"} -> Nat] /\ owed'["rest"] = 1
    BY <1>1
  <2>2. NobodyOwes["rest"] = 0
    BY DEF NobodyOwes
  <2> QED
    BY <2>1, <2>2
<1>11. NothingBeforePump' /\ PlacesAreFilled'
  BY <1>1, <1>10 DEF NothingBeforePump, PlacesAreFilled
<1>12. QueueTyped'
  <2>1. <<>> \in Seq(Command) /\ <<>> \in Seq(Publication) /\ queueView \in Queue
    BY <1>1 DEF QueueTyped
  <2> QED
    BY <1>1, <1>2, <1>3, <1>10, <2>1 DEF QueueTyped
<1> QED
  BY <1>8, <1>9, <1>11, <1>12 DEF QueueInv

LEMMA QueueStep ==
    ASSUME QueueInv, SubmitNext \/ QueueNext \/ Shown
    PROVE  QueueInv'
<1>1. CASE ComposerNext
  BY <1>1, ComposerStep
<1>2. CASE Commanded
  BY <1>2, CommandedStep
<1>3. CASE PumpStarts
  BY <1>3, PumpStartsStep
<1>4. CASE PumpGoesOn
  BY <1>4, PumpGoesOnStep
<1>5. CASE LinkDrops \/ WindowHears \/ LinkReturns \/ Refused
  BY <1>5, LinkStep
<1>6. CASE Shown
  BY <1>6, ShownStep
<1>7. CASE Click
  BY <1>7, ClickStep
<1>8. CASE (\E mode \in {"parallel", "sequential"} : TerminalEnqueues(mode)) \/ DashboardEnqueues
  BY <1>8, OthersStep DEF Modes
<1>9. ASSUME NEW id \in Ids,
             \/ Submitted(id) \/ Compiled(id) \/ Provisioned(id) \/ WorkflowEnds(id)
             \/ EngineKills(id)
      PROVE  QueueInv'
  BY <1>9, EngineStep
<1>10. CASE PersistenceFails
  BY <1>10, PersistenceFailsStep
<1>11. CASE Overloads
  BY <1>11, OverloadsStep
<1>12. CASE ForgeRestarts
  BY <1>12, ForgeRestartsStep
<1> QED
  BY <1>1, <1>2, <1>3, <1>4, <1>5, <1>6, <1>7, <1>8, <1>9, <1>10, <1>11, <1>12
  DEF SubmitNext, QueueNext, LinkNext, ForgeWorks

-----------------------------------------------------------------------------
(***************************************************************************)
(* The workbench: the panel that is used keeps what makes it right, and    *)
(* the others stay as they are.                                            *)
(***************************************************************************)
WorkbenchInv ==
  /\ panel = "explorer" => SidebarInv
  /\ panel = "viewer" => ViewerInv
  /\ panel = "graph" => GraphInv
  /\ panel = "models" => CatalogInv
  /\ panel = "dock" => PreviewInv /\ ShellsInv
  /\ panel \in {"composer", "queue", "buttons"} => QueueInv

LEMMA WorkbenchStarts ==
    ASSUME WorkbenchInit
    PROVE  WorkbenchInv
<1>1. ExplorerInit /\ GraphInit /\ CatalogInit /\ DockInit /\ WaitlistInit
  BY DEF WorkbenchInit
<1>2. PreviewInv
  BY <1>1 DEF DockInit, PreviewInv
<1> QED
  BY <1>1, <1>2, SidebarInit, ViewerInit, GraphStarts, CatalogStarts, ShellsStart, QueueStarts
  DEF WorkbenchInv

LEMMA Stays ==
    ASSUME WorkbenchInv, UNCHANGED panel
    PROVE  /\ panel = "explorer" /\ SidebarInv' => WorkbenchInv'
           /\ panel = "viewer" /\ ViewerInv' => WorkbenchInv'
           /\ panel = "graph" /\ GraphInv' => WorkbenchInv'
           /\ panel = "models" /\ CatalogInv' => WorkbenchInv'
           /\ panel = "dock" /\ PreviewInv' /\ ShellsInv' => WorkbenchInv'
           /\ panel \in {"composer", "queue", "buttons"} /\ QueueInv' => WorkbenchInv'
           /\ panel \in {"keys", "plan", "plan view", "logs", "tools"} => WorkbenchInv'
  BY DEF WorkbenchInv

LEMMA WorkbenchStep ==
    ASSUME WorkbenchInv, WorkbenchNext
    PROVE  WorkbenchInv'
<1>1. CASE UseSidebar
  BY <1>1, SidebarStep, Stays DEF UseSidebar, WorkbenchInv
<1>2. CASE UseViewer
  BY <1>2, ViewerStep, Stays DEF UseViewer, WorkbenchInv
<1>3. CASE UseGraph
  BY <1>3, GraphStep, Stays DEF UseGraph, WorkbenchInv
<1>4. CASE UseModels
  BY <1>4, CatalogStep, Stays DEF UseModels, WorkbenchInv
<1>5. CASE UseDock
  BY <1>5, PreviewStep, ShellsStep, Stays DEF UseDock, WorkbenchInv
<1>6. CASE UseQueue
  <2>1. QueueInv /\ UNCHANGED panel /\ panel \in {"composer", "queue", "buttons"}
    BY <1>6 DEF UseQueue, WorkbenchInv
  <2>2. SubmitNext \/ QueueNext \/ Shown
    BY <1>6 DEF UseQueue, ManyRequests, ManyButtons
  <2> QED
    BY <2>1, <2>2, QueueStep, Stays
<1>7. CASE UseKeys \/ UsePlan \/ UseLogs
  BY <1>7, Stays DEF UseKeys, UsePlan, UseLogs
<1> QED
  BY <1>1, <1>2, <1>3, <1>4, <1>5, <1>6, <1>7 DEF WorkbenchNext

LEMMA WorkbenchIdles ==
    ASSUME WorkbenchInv, UNCHANGED workbenchVars
    PROVE  WorkbenchInv'
<1>1. UNCHANGED panel
  BY DEF workbenchVars
<1>2. SidebarInv => SidebarInv'
  BY DEF workbenchVars, explorerVars, SidebarInv, SidebarTyped, LoadsApart, NewestIsTheRuns,
         NewestReads, LoadIsAwaited, TreeIsTheRuns
<1>3. ViewerInv => ViewerInv'
  BY DEF workbenchVars, explorerVars, ViewerInv, ViewerIsTheFiles, Content
<1>4. GraphInv => GraphInv'
  BY DEF workbenchVars, otherVars, graphVars, GraphInv, GraphTyped, Layout, LayoutKey
<1>5. CatalogInv => CatalogInv'
  BY DEF workbenchVars, catalogVars, CatalogInv
<1>6. PreviewInv => PreviewInv'
  BY DEF workbenchVars, previewVars, PreviewInv
<1>7. ShellsInv => ShellsInv'
  BY DEF workbenchVars, terminalVars, ShellsInv, ShellsTyped, Owned, Lives, StartBeforeExit,
         ExitIsLast, OneStart, Starts, Exits, AnswersTo
<1>8. QueueInv => QueueInv'
  BY EngineQuiet DEF workbenchVars, otherVars, queueVars, pumpVars
<1> QED
  BY <1>1, <1>2, <1>3, <1>4, <1>5, <1>6, <1>7, <1>8 DEF WorkbenchInv

\* What makes every panel right holds in every state of the workbench.
THEOREM WorkbenchInvariant == WorkbenchSpec => []WorkbenchInv
<1>1. WorkbenchInit => WorkbenchInv
  BY WorkbenchStarts
<1>2. WorkbenchInv /\ [WorkbenchNext]_workbenchVars => WorkbenchInv'
  BY WorkbenchStep, WorkbenchIdles
<1> QED
  BY <1>1, <1>2, PTL DEF WorkbenchSpec

\* ExplorerSidebar.tsx:33-73, FileViewer.tsx:137-175, PreviewPanel.tsx:18-45,
\* GraphCanvas.tsx:63-79: whatever answers late, and whatever a panel keeps, it shows
\* what is selected now.
THEOREM NothingStaleIsEverShown == WorkbenchSpec => []NothingStaleIsShown
<1>1. WorkbenchInv => NothingStaleIsShown
  BY LayoutIsTheRuns, FrameFollows DEF WorkbenchInv, SidebarInv, ViewerInv, NothingStaleIsShown
<1> QED
  BY <1>1, WorkbenchInvariant, PTL

\* ModelsSection.tsx:68-97, ExplorerSidebar.tsx:75-92, waitlist.go:542-577: whoever
\* waits has somebody who will answer: a call, a load or a timer, a Pump.
THEOREM NothingIsEverStuck == WorkbenchSpec => []NothingIsStuck
<1>1. CatalogInv => BusyHasAReason
  BY DEF CatalogInv, BusyHasAReason, Awaited
<1>2. SidebarInv => RefreshIsAlwaysDue
  BY DEF SidebarInv, LoadIsAwaited, NewestReads, RefreshIsAlwaysDue
<1>3. WorkbenchInv => NothingIsStuck
  BY <1>1, <1>2 DEF WorkbenchInv, QueueInv, NothingIsStuck
<1> QED
  BY <1>3, WorkbenchInvariant, PTL

\* TerminalPanel.tsx:33-147, waitlist.go:542-577: no shell runs behind the panel's
\* back, and no more requests than places are at work, one of the sequential group.
THEOREM ResourcesAreAlwaysOwned == WorkbenchSpec => []ResourcesAreOwned
<1>1. WorkbenchInv => ResourcesAreOwned
  BY ShellsFollow DEF WorkbenchInv, QueueInv, ResourcesAreOwned
<1> QED
  BY <1>1, WorkbenchInvariant, PTL
=============================================================================
