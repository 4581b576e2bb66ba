------------------------------ MODULE PlanModel ------------------------------
(***************************************************************************)
(* The plan behind an approval request: what fed the checkpoint, and what  *)
(* runs after it in waves that can run in parallel                         *)
(* (features/hitl/planModel.ts), over a run that grows while it is under   *)
(* review.  PlanView.tsx adds the agents and the outputs of the run, which *)
(* it asks for when the run under review changes.                          *)
(***************************************************************************)
EXTENDS Naturals, Sequences, FiniteSets, SequencesExt

CONSTANTS
  Steps,         \* the nodes a run may have; their order is that of the labels
  Here,          \* the checkpoint
  MaxPlanSteps,  \* MAX_PLAN_STEPS
  PlanRuns,      \* the runs under review
  NoAnswer,      \* nothing was answered
  MaxReviews     \* how often another run is reviewed

ASSUME PlanAssumption ==
  /\ Steps \subseteq Nat /\ Here \in Steps
  /\ {MaxPlanSteps, MaxReviews} \subseteq Nat

VARIABLES
  planNodes, planEdges,   \* the run: its nodes, and its edges as announced
  planRun,                \* the run under review
  planAsks,               \* the questions under way and not cancelled
  planCards, planOutputs, \* the runs whose agents and outputs are shown
  cardsDenied,            \* history: the agents could not be read
  reviews                 \* counter for the bound

planVars == <<planNodes, planEdges, planRun, planAsks, planCards, planOutputs,
              cardsDenied, reviews>>

-----------------------------------------------------------------------------
\* The edges between nodes of the run.
Drawn == {e \in planEdges : e[1] \in planNodes /\ e[2] \in planNodes}

\* depths, one pass: a child is at least one past each of its parents.  A node
\* that has its depth keeps it.
PassOnce(depth, limit) ==
  LET found == {c \in planNodes \ DOMAIN depth : \E p \in DOMAIN depth : <<p, c>> \in Drawn}
  IN [c \in DOMAIN depth \cup found |->
        IF c \in DOMAIN depth THEN depth[c]
        ELSE 1 + Min({depth[p] : p \in {q \in DOMAIN depth : <<q, c>> \in Drawn}})]

Pass(depth, limit) ==
  LET levels(c) == {depth[p] + 1 :
                      p \in {q \in DOMAIN depth : <<q, c>> \in Drawn /\ depth[q] < limit}}
      had(c) == IF c \in DOMAIN depth THEN {depth[c]} ELSE {}
  IN [c \in {n \in planNodes : levels(n) \cup had(n) # {}} |-> Max(levels(c) \cup had(c))]

\* As many passes as there are nodes, which also ends on a cycle.
Depths(starts) ==
  LET limit == Cardinality(planNodes)
      after[n \in 0..limit] ==
        IF n = 0 THEN [s \in starts |-> 0] ELSE Pass(after[n - 1], limit)
  IN after[limit]

\* By depth, then by label.
InOrder(S, depth) ==
  SetToSortSeq(S, LAMBDA a, b : depth[a] < depth[b] \/ (depth[a] = depth[b] /\ a < b))

\* buildPlan.
After == LET depth == Depths({Here}) IN [n \in DOMAIN depth \ {Here} |-> depth[n]]
ListedSteps == LET after == After
              order == InOrder(DOMAIN after, after)
          IN SubSeq(order, 1, Min({MaxPlanSteps, Len(order)}))
Hidden == Cardinality(DOMAIN After) - Len(ListedSteps)
Outline ==
  LET depth == Depths({n \in planNodes : \A p \in planNodes : <<p, n>> \notin Drawn})
  IN InOrder(planNodes, [n \in planNodes |-> IF n \in DOMAIN depth THEN depth[n] ELSE 0])

-----------------------------------------------------------------------------
PlanInit ==
  /\ planNodes = {Here} /\ planEdges = {}
  /\ planRun \in PlanRuns /\ planAsks = {<<"cards", planRun>>, <<"outputs", planRun>>}
  /\ planCards = NoAnswer /\ planOutputs = NoAnswer /\ cardsDenied = FALSE /\ reviews = 0

\* The run grows by a node, or by an edge, which brings its nodes
\* (projection.ts:296-303).
AddStep(n) ==
  /\ n \notin planNodes /\ planNodes' = planNodes \cup {n}
  /\ UNCHANGED <<planEdges, planRun, planAsks, planCards, planOutputs, cardsDenied, reviews>>

AddEdge(a, b) ==
  /\ <<a, b>> \notin planEdges /\ planEdges' = planEdges \cup {<<a, b>>}
  /\ planNodes' = planNodes \cup {a, b}
  /\ UNCHANGED <<planRun, planAsks, planCards, planOutputs, cardsDenied, reviews>>

\* The sheet turns to another run: the questions under way are cancelled, and
\* what they answered before stays on display.
ReviewOther(r) ==
  /\ r # planRun /\ reviews < MaxReviews /\ reviews' = reviews + 1
  /\ planRun' = r /\ planAsks' = {<<"cards", r>>, <<"outputs", r>>}
  /\ cardsDenied' = FALSE
  /\ UNCHANGED <<planNodes, planEdges, planCards, planOutputs>>

\* workspace.agents answers; an error changes nothing.
CardsArrive(a) ==
  /\ a \in planAsks /\ a[1] = "cards" /\ planAsks' = planAsks \ {a}
  /\ \/ planCards' = a[2] /\ UNCHANGED cardsDenied
     \/ cardsDenied' = TRUE /\ UNCHANGED planCards
  /\ UNCHANGED <<planNodes, planEdges, planRun, planOutputs, reviews>>

\* api.outputs answers; an error is shown as no outputs.
PlanOutputsArrive(a) ==
  /\ a \in planAsks /\ a[1] = "outputs" /\ planAsks' = planAsks \ {a}
  /\ planOutputs' = a[2]
  /\ UNCHANGED <<planNodes, planEdges, planRun, planCards, cardsDenied, reviews>>

GrowPlan ==
  \/ \E n \in Steps : AddStep(n)
  \/ \E a, b \in Steps : a # b /\ AddEdge(a, b)

LoadPlan ==
  \/ \E r \in PlanRuns : ReviewOther(r)
  \/ \E a \in planAsks : CardsArrive(a)
  \/ \E a \in planAsks : PlanOutputsArrive(a)

-----------------------------------------------------------------------------
(***************************************************************************)
(* Properties.                                                             *)
(***************************************************************************)
\* The ways through the run that visit no node twice.
Ways == {w \in UNION {[1..k -> planNodes] : k \in 1..Cardinality(planNodes)} :
           /\ \A i \in 1..(Len(w) - 1) : <<w[i], w[i + 1]>> \in Drawn
           /\ \A i, j \in DOMAIN w : w[i] = w[j] => i = j}

\* planModel.ts:79-125: whatever the run, every step that can come after the
\* checkpoint is listed or counted once, and the outline has every node once.
\* In a run without cycles a step's wave is the longest way to it, so that it
\* comes after all it waits for and as early as it can, nothing is listed while
\* an earlier wave is cut, and the outline is in the order of the work.
PlanIsInOrder ==
  LET ways == Ways
      reached == {w[Len(w)] : w \in {v \in ways : v[1] = Here}} \ {Here}
      cyclic == \E w \in ways : <<w[Len(w)], w[1]>> \in Drawn
      listed == ListedSteps
      after == After
      outline == Outline
  IN
  /\ Len(listed) + Hidden = Cardinality(reached) /\ ToSet(listed) \subseteq reached
  /\ Len(outline) = Cardinality(planNodes) /\ ToSet(outline) = planNodes
  /\ ~cyclic =>
       /\ \A n \in reached :
            after[n] = Max({Len(w) - 1 : w \in {v \in ways : v[1] = Here /\ v[Len(v)] = n}})
       /\ \A n \in reached, m \in ToSet(listed) : after[n] < after[m] => n \in ToSet(listed)
       /\ \A i, j \in DOMAIN outline : <<outline[i], outline[j]>> \in Drawn => i < j

\* PlanView.tsx:160-178: when nothing is under way, the outputs on display are
\* those of the run under review, and so are the agents unless they could not be
\* read, however late the answers for another run came.
PlanSettles ==
  planAsks = {} => planOutputs = planRun /\ (cardsDenied \/ planCards = planRun)
=============================================================================
