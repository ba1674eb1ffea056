------------------------------- MODULE Extract -------------------------------
(***************************************************************************)
(* runExtract (lib/EGraph/Extract.cpp), called again and again on a clean  *)
(* graph: a backend selects candidates for the roots.                      *)
(***************************************************************************)
EXTENDS GreedyExtract, LpExtract

CONSTANTS
  ExtractGraphs,   \* the clean graphs extraction may be asked for
  Backends         \* among "greedy", "z3-lp" and "or-tools-lp"

ASSUME GraphsClean == \A g \in ExtractGraphs : IsCleanGraph(g)
ASSUME BackendsKnown == Backends \subseteq {"greedy", "z3-lp", "or-tools-lp"}
ASSUME MaxSolverCostOK == MaxSolverCost \in Nat

extractVars == <<callVars, memo, lpVars>>

ExtractInit ==
  /\ graph \in ExtractGraphs
  /\ mode = "none"
  /\ pc = "idle"
  /\ root = 1
  /\ stack = <<>>
  /\ info = NoInfo
  /\ overflowed = FALSE
  /\ memo = <<>>
  /\ nodes = <<>>
  /\ todo = <<>>
  /\ assignment = NoAssignment
  /\ subtreeCosts = <<>>

\* The backends start from nothing.
RunExtract(m) ==
  /\ pc = "idle"
  /\ mode' = m
  /\ pc' = IF m = "greedy" THEN "search" ELSE "populate"
  /\ root' = 1
  /\ stack' = <<>>
  /\ info' = NoInfo
  /\ overflowed' = FALSE
  /\ memo' = <<>>
  /\ nodes' = <<>>
  /\ todo' = <<graph.roots>>
  /\ assignment' = NoAssignment
  /\ subtreeCosts' = <<>>
  /\ UNCHANGED graph

GreedyStep == GreedyNext /\ UNCHANGED lpVars
LpStep == LpNext /\ UNCHANGED memo

ExtractNext ==
  \/ \E m \in Backends : RunExtract(m)
  \/ GreedyStep
  \/ LpStep

\* A call is sequential code: it takes its next step.
ExtractSpec ==
  /\ ExtractInit
  /\ [][ExtractNext]_extractVars
  /\ WF_extractVars(GreedyStep \/ LpStep)

-----------------------------------------------------------------------------
HasSelected(m) == mode = m /\ pc = "idle" /\ info.ok
HasSelectedLp == HasSelected("z3-lp") \/ HasSelected("or-tools-lp")

(***************************************************************************)
(* A successful selection is an extraction of the roots, for every         *)
(* backend, also for graphs with cycles.                                   *)
(***************************************************************************)
SelectsExtraction ==
  pc = "idle" /\ info.ok /\ IsSelectionMap(info) =>
    SelectionMap(info) \in Extractions(graph, Roots(graph))

RootCostsAreOfTerms ==
  /\ IsSelectionMap(info)
  /\ \E cost \in Costings(graph, SelectionMap(info)) :
       \A i \in DOMAIN graph.roots : info.rootCosts[i] = CostOf(cost, graph.roots[i])

(***************************************************************************)
(* The reported cost of a root is the cost of its selected term and did    *)
(* not overflow.  Greedy extraction reports another one when an alias of   *)
(* an e-class was searched while its leader was.                           *)
(***************************************************************************)
RootCostsExact ==
  HasSelectedLp \/ (HasSelected("greedy") /\ AliasesOfInputs(graph)) => RootCostsAreOfTerms

\* "Total extraction cost for `roots[i]`." (Extract.h)
RootCostsTotal == HasSelected("greedy") => RootCostsAreOfTerms

(***************************************************************************)
(* Greedy extraction finds a selection when the roots have terms, though   *)
(* it cuts cycles where it meets them and remembers what it found on the   *)
(* way: no order of visits hides the only acyclic choice of an e-class,    *)
(* unless an e-class has an alias of another or a sum does not fit.        *)
(***************************************************************************)
GreedyComplete ==
  mode = "greedy" /\ pc = "idle" /\ ~overflowed /\ AliasesOfInputs(graph) =>
    (info.ok /\ IsSelectionMap(info) <=> Roots(graph) \subseteq Solvable(graph))

\* Without cycles the greedy term of every root is the cheapest there is.
GreedyCheapest ==
  HasSelected("greedy") /\ IsAcyclic(graph) =>
    \A i \in DOMAIN graph.roots : \A sel \in Extractions(graph, {graph.roots[i]}) :
      \A cost \in Costings(graph, sel) : info.rootCosts[i] <= CostOf(cost, graph.roots[i])

(***************************************************************************)
(* Integer programming succeeds exactly when the roots have terms: ranks   *)
(* rule out cycles and nothing else.  CP-SAT also needs the sum of all     *)
(* costs to fit, and either needs the cost of each root's term to, in      *)
(* which operations that the program counts once may count repeatedly.     *)
(***************************************************************************)
LpComplete ==
  mode \in {"z3-lp", "or-tools-lp"} /\ pc = "idle" =>
    (info.ok <=> Roots(graph) \subseteq Solvable(graph) /\ ~SolverOverflows /\ ~overflowed)

\* The block has one operation per selected e-class, and no block would cost less.
LpCheapest ==
  HasSelectedLp =>
    /\ DOMAIN SelectionMap(info) \subseteq RangeOf(nodes)
    /\ \A sel \in Extractions(graph, Roots(graph)) :
         DagCost(graph, nodes, SelectionMap(info)) <= DagCost(graph, nodes, sel)

(***************************************************************************)
(* The objectives after the cost leave one assignment, and it selects      *)
(* nothing that the roots do not need: "Keep equal-cost models stable and  *)
(* avoid detached zero-cost selections" (Z3Extract.cpp).                   *)
(***************************************************************************)
LpStable ==
  HasSelectedLp =>
    LET all == BestAssignments(graph, nodes)
    IN  \E best \in all : all = {best} /\ best.sel = SelectionMap(info)

\* Every call returns: cycles are cut, and a candidate is tried once per search of its e-class.
ExtractReturns == pc # "idle" ~> pc = "idle"
=============================================================================
