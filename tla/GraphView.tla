------------------------------ MODULE GraphView ------------------------------
(***************************************************************************)
(* The graph canvas (features/graph/GraphCanvas.tsx, layout.ts).  The      *)
(* layout is kept until the topology changes, which the canvas tells from  *)
(* the run's id, the identity of its edge list and the number of its       *)
(* nodes; a node the user dragged is pinned until the layout is asked for  *)
(* again or another run is shown.  A change of the run is rendered at      *)
(* once; the effect that drops the pins follows.                           *)
(***************************************************************************)
EXTENDS Naturals, FiniteSets

CONSTANTS
  GraphRuns,     \* the runs that may be shown
  GraphNodes,    \* the nodes a run may have: two runs share their names
  NoRun,         \* no run is shown
  MaxChanges,    \* changes of the run and of what is shown
  MaxDrags       \* actions of the user on the canvas

ASSUME GraphAssumption ==
  NoRun \notin GraphRuns /\ IsFiniteSet(GraphNodes) /\ {MaxChanges, MaxDrags} \subseteq Nat

VARIABLES
  live,        \* the runs: nodes, edges and the edge list's identity
  canvas,      \* the run on the canvas, or NoRun
  memo,        \* the layout: what it was computed from, places and edges
  pins,        \* [a set of nodes -> the run each was dragged in]
  lastExecId,  \* the run the pins were last dropped for
  look,        \* orientation and node style
  changes, drags

graphVars == <<live, canvas, memo, pins, lastExecId, look, changes, drags>>

-----------------------------------------------------------------------------
\* The edges that are drawn: those between nodes of the run.
EdgesOf(run) == {e \in run.edges : e[1] \in run.nodes /\ e[2] \in run.nodes}

\* The key of the layout without the number of nodes.
KeyOfEdges(r, l, p) ==
  IF r = NoRun THEN <<NoRun>> ELSE <<r, live'[r].ref, 0, l, p>>

\* useMemo's dependencies.
Key(r, l, p) ==
  IF r = NoRun THEN <<NoRun>> ELSE <<r, live'[r].ref, Cardinality(live'[r].nodes), l, p>>

\* A render: the layout is computed anew if what it depends on changed.  A node
\* is where it was pinned, or where the layout places it.
Render ==
  LET key == Key(canvas', look', pins') IN
  memo' = IF key = memo.key THEN memo
          ELSE IF canvas' = NoRun THEN [key |-> key, places |-> <<>>, drawn |-> {}]
          ELSE [key |-> key, drawn |-> EdgesOf(live'[canvas']),
                places |-> [n \in live'[canvas'].nodes |->
                              IF n \in DOMAIN pins' THEN pins'[n] ELSE canvas']]

GraphInit ==
  /\ live = [r \in GraphRuns |-> [nodes |-> {}, edges |-> {}, ref |-> 0]]
  /\ canvas = NoRun /\ memo = [key |-> <<NoRun>>, places |-> <<>>, drawn |-> {}]
  /\ pins = <<>> /\ lastExecId = NoRun /\ look = 0 /\ changes = 0 /\ drags = 0

Change == changes < MaxChanges /\ changes' = changes + 1
Drags == drags < MaxDrags /\ drags' = drags + 1

\* projection.ts:209-228: an event names a node, and the edge list stays.
NodeArrives(r, n) ==
  /\ Change /\ n \notin live[r].nodes
  /\ live' = [live EXCEPT ![r].nodes = @ \cup {n}]
  /\ UNCHANGED <<canvas, pins, lastExecId, look, drags>>
  /\ Render

\* projection.ts:291-303: the edges are announced: a new list, and its nodes.
EdgesArrive(r, es) ==
  /\ Change /\ es # {}
  /\ live' = [live EXCEPT ![r] = [nodes |-> @.nodes \cup {e[1] : e \in es} \cup {e[2] : e \in es},
                                  edges |-> es, ref |-> @.ref + 1]]
  /\ UNCHANGED <<canvas, pins, lastExecId, look, drags>>
  /\ Render

\* useScrubbedRun: the playhead shows the run as it was, rebuilt from the events.
Replay(ns) ==
  /\ canvas # NoRun /\ Change
  /\ ns \subseteq live[canvas].nodes
  /\ live' = [live EXCEPT ![canvas] =
                [nodes |-> ns, edges |-> {e \in @.edges : {e[1], e[2]} \subseteq ns}, ref |-> @.ref + 1]]
  /\ UNCHANGED <<canvas, pins, lastExecId, look, drags>>
  /\ Render

\* Another run is selected, or none while a replay is on its way.
Show(r) ==
  /\ Change /\ r # canvas /\ canvas' = r
  /\ UNCHANGED <<live, pins, lastExecId, look, drags>>
  /\ Render

\* The effect of the render: another run starts without pins.
DropPins == lastExecId' = canvas /\ pins' = <<>>

EffectRuns ==
  /\ canvas # lastExecId
  /\ DropPins
  /\ UNCHANGED <<live, canvas, look, changes, drags>>
  /\ Render

\* The user drags a node.
Drag(n) ==
  /\ canvas # NoRun /\ n \in live[canvas].nodes /\ Drags
  /\ pins' = [m \in DOMAIN pins \cup {n} |-> IF m = n THEN canvas ELSE pins[m]]
  /\ UNCHANGED <<live, canvas, lastExecId, look, changes>>
  /\ Render

\* Re-layout, another orientation or another style: the pins are dropped.
Relayout(l) ==
  /\ canvas # NoRun /\ Drags
  /\ look' = l /\ pins' = <<>>
  /\ UNCHANGED <<live, canvas, lastExecId, changes>>
  /\ Render

\* React runs the effects of a render before it renders again.
GraphNext ==
  \/ EffectRuns
  \/ /\ canvas = lastExecId
     /\ \/ \E r \in GraphRuns, n \in GraphNodes : NodeArrives(r, n)
        \/ \E r \in GraphRuns, es \in SUBSET (GraphNodes \X GraphNodes) : EdgesArrive(r, es)
        \/ \E ns \in SUBSET GraphNodes : Replay(ns)
        \/ \E r \in GraphRuns \cup {NoRun} : Show(r)
        \/ \E n \in GraphNodes : Drag(n)
        \/ \E l \in {0, 1} : Relayout(l)

-----------------------------------------------------------------------------
(***************************************************************************)
(* Properties.                                                             *)
(***************************************************************************)
\* GraphCanvas.tsx:63-79: although the layout is not recomputed when the run
\* changes, every node of the run on the canvas has its place, every edge of it
\* is drawn and nothing of another run is; and once the effects have run no node
\* is where a node of its name was dragged in another run.
GraphIsTheRuns ==
  IF canvas = NoRun THEN memo.places = <<>>
  ELSE /\ DOMAIN memo.places = live[canvas].nodes
       /\ memo.drawn = EdgesOf(live[canvas])
       /\ canvas = lastExecId => \A n \in DOMAIN memo.places : memo.places[n] = canvas
=============================================================================
