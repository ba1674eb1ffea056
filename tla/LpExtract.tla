------------------------------ MODULE LpExtract ------------------------------
(***************************************************************************)
(* The extractors that solve an integer program: Z3Extract.cpp and         *)
(* OrToolsExtract.cpp.  The solver is taken at its word: what it returns   *)
(* is a best assignment of the program it was given.                       *)
(***************************************************************************)
EXTENDS ExtractCall

CONSTANT MaxSolverCost   \* largest int64_t, which bounds the sums of CP-SAT

VARIABLES
  nodes,        \* names the program is about, in the order in which they are met
  todo,         \* what populateNode has still to visit, one sequence per loop
  assignment,   \* what the solver returned
  subtreeCosts

lpVars == <<nodes, todo, assignment, subtreeCosts>>

NoAssignment == [active |-> {}, sel |-> <<>>]

RangeOf(s) == {s[i] : i \in DOMAIN s}

(***************************************************************************)
(* getOrCreateNode and populateNode: a new name is a node, and the         *)
(* children of its choices come before what was to be visited after it.    *)
(***************************************************************************)
ChildrenOfChoices(g, s) ==
  [i \in DOMAIN g.choices[s] |->
     IF IsUsable(g.choices[s][i]) THEN Children(g.choices[s][i]) ELSE <<>>]

PopulateNode ==
  /\ pc = "populate" /\ todo # <<>> /\ Head(todo) # <<>>
  /\ LET s == Head(Head(todo))
         rest == <<Tail(Head(todo))>> \o Tail(todo)
     IN  IF s \in RangeOf(nodes)
         THEN todo' = rest /\ UNCHANGED nodes
         ELSE /\ nodes' = Append(nodes, s)
              /\ todo' = IF s \in Input THEN rest ELSE ChildrenOfChoices(graph, s) \o rest
  /\ UNCHANGED <<callVars, assignment, subtreeCosts>>

PopulatedNode ==
  /\ pc = "populate" /\ todo # <<>> /\ Head(todo) = <<>>
  /\ todo' = Tail(todo)
  /\ UNCHANGED <<callVars, nodes, assignment, subtreeCosts>>

-----------------------------------------------------------------------------
\* Mutation of HasRanks: the rank constraints are not emitted.
HasRanksNone(g, names, sel) == TRUE

\* Ranks that fall from a selected choice to its children, 0 for inputs, rule out cycles.
HasRanks(g, names, sel) ==
  \E rank \in [DOMAIN sel -> 0..Cardinality(names)] :
    \A s \in DOMAIN sel : \A t \in Needs(g.choices[s][sel[s]]) :
      (IF t \in Input THEN 0 ELSE rank[t]) < rank[s]

(***************************************************************************)
(* The assignments that satisfy the constraints: one selected choice for   *)
(* each active e-class, and active are the roots and the children of       *)
(* selected choices, and whatever else the solver likes.                   *)
(***************************************************************************)
Assignments(g, names) ==
  UNION {{[active |-> S, sel |-> f] : f \in Selections(g, S \cap EClass)} : S \in SUBSET names}

IsFeasible(g, names, a) ==
  /\ Roots(g) \subseteq a.active
  /\ \A s \in DOMAIN a.sel : Needs(g.choices[s][a.sel[s]]) \subseteq a.active
  /\ HasRanks(g, names, a.sel)

(***************************************************************************)
(* The objectives, in lexicographic order of their indices: the cost, the  *)
(* number of active nodes and of selected choices, and then, for each      *)
(* choice i of the n-th node, to select it.                                *)
(***************************************************************************)
Objective(g, order) ==
  {<<0, 1>>, <<0, 2>>, <<0, 3>>} \cup
  UNION {{<<n, i>> : i \in UsableChoices(g, order[n])} : n \in {k \in DOMAIN order : order[k] \in EClass}}

IsChosen(sel, s, i) == s \in DOMAIN sel /\ sel[s] = i

\* Mutations of Objectives: the cost alone, and the number of nodes before the cost.
ObjectivesCostOnly(g, order, a) == [p \in {<<0, 1>>} |-> DagCost(g, order, a.sel)]
ObjectivesCountFirst(g, order, a) ==
  [p \in {<<0, 1>>, <<0, 2>>} |->
     IF p = <<0, 1>> THEN Cardinality(a.active) ELSE DagCost(g, order, a.sel)]

Objectives(g, order, a) ==
  [p \in Objective(g, order) |->
     IF p = <<0, 1>> THEN DagCost(g, order, a.sel)
     ELSE IF p = <<0, 2>> THEN Cardinality(a.active)
     ELSE IF p = <<0, 3>> THEN Cardinality(DOMAIN a.sel)
     ELSE IF IsChosen(a.sel, order[p[1]], p[2]) THEN 0 ELSE 1]

IsBefore(p, q) == p[1] < q[1] \/ (p[1] = q[1] /\ p[2] < q[2])

IsLexLess(x, y) ==
  \E p \in DOMAIN x : x[p] < y[p] /\ \A q \in DOMAIN x : IsBefore(q, p) => x[q] = y[q]

FeasibleAssignments(g, order) ==
  {a \in Assignments(g, RangeOf(order)) : IsFeasible(g, RangeOf(order), a)}

BestOf(g, order, feasible) ==
  {a \in feasible : \A b \in feasible : ~IsLexLess(Objectives(g, order, b), Objectives(g, order, a))}

\* (The set is bound by a quantifier so that TLC evaluates it once.)
BestAssignments(g, order) ==
  UNION {BestOf(g, order, feasible) : feasible \in {FeasibleAssignments(g, order)}}

\* The upper bound of the total cost, which OrToolsExtract.cpp computes first.
CostOfChoices(g, s) ==
  SumTo(0, [i \in DOMAIN g.choices[s] |->
              IF IsUsable(g.choices[s][i]) THEN g.choices[s][i].cost ELSE 0], Len(g.choices[s]))

CostUpperBound(g, order) ==
  SumTo(0, [n \in DOMAIN order |-> IF order[n] \in EClass THEN CostOfChoices(g, order[n]) ELSE 0],
        Len(order))

SolverOverflows == mode = "or-tools-lp" /\ CostUpperBound(graph, nodes) > MaxSolverCost

Solve ==
  /\ pc = "populate" /\ todo = <<>>
  /\ ~SolverOverflows
  /\ assignment' \in BestAssignments(graph, nodes)
  /\ pc' = "assemble"
  /\ UNCHANGED <<graph, mode, root, stack, info, overflowed, nodes, todo, subtreeCosts>>

SolveFails ==
  /\ pc = "populate" /\ todo = <<>>
  /\ SolverOverflows \/ BestAssignments(graph, nodes) = {}
  /\ Fail
  /\ UNCHANGED <<graph, mode, root, stack, overflowed, lpVars>>

-----------------------------------------------------------------------------
(***************************************************************************)
(* collectSelected: the selected e-classes, children first, with the cost  *)
(* of the term of each, in which a shared operation counts once per use.   *)
(***************************************************************************)
Selected(s) == graph.choices[s][assignment.sel[s]]

\* The names that the frame on top, or the loop over the roots, goes through.
Operands == IF stack = <<>> THEN graph.roots ELSE Children(Selected(Top.symbol))
IsAsking == At \in DOMAIN Operands
Operand == Operands[At]

AssembleInput ==
  /\ pc = "assemble" /\ IsAsking
  /\ Operand \in Input \ DOMAIN subtreeCosts
  /\ subtreeCosts' = Extend(subtreeCosts, Operand, 0)
  /\ UNCHANGED <<callVars, nodes, todo, assignment>>

Assemble ==
  /\ pc = "assemble" /\ IsAsking
  /\ Operand \in EClass \ DOMAIN subtreeCosts
  /\ IF Operand \in {stack[n].symbol : n \in DOMAIN stack} \/ Operand \notin DOMAIN assignment.sel
     THEN Fail /\ stack' = <<>>
     ELSE /\ stack' = Append(stack, [symbol |-> Operand, child |-> FirstChild,
                                     cost |-> Selected(Operand).cost])
          /\ UNCHANGED <<pc, info>>
  /\ UNCHANGED <<graph, mode, root, overflowed, lpVars>>

AddCost ==
  /\ pc = "assemble" /\ stack # <<>> /\ IsAsking
  /\ Operand \in DOMAIN subtreeCosts
  /\ LET cost == subtreeCosts[Operand]
     IN  IF Fits(Top.cost, cost)
         THEN /\ stack' = WithTop([Top EXCEPT !.child = @ + 1, !.cost = @ + cost])
              /\ UNCHANGED <<pc, info, overflowed>>
         ELSE Fail /\ stack' = <<>> /\ overflowed' = TRUE
  /\ UNCHANGED <<graph, mode, root, lpVars>>

Assembled ==
  /\ pc = "assemble" /\ stack # <<>> /\ ~IsAsking
  /\ subtreeCosts' = Extend(subtreeCosts, Top.symbol, Top.cost)
  /\ Emit(Top.symbol, assignment.sel[Top.symbol])
  /\ stack' = Pop(stack)
  /\ UNCHANGED <<graph, mode, pc, root, overflowed, nodes, todo, assignment>>

AssembledRoot ==
  /\ pc = "assemble" /\ stack = <<>> /\ IsAsking
  /\ Operand \in DOMAIN subtreeCosts
  /\ root' = root + 1
  /\ UNCHANGED <<graph, mode, pc, stack, info, overflowed, lpVars>>

EndAssemble ==
  /\ pc = "assemble" /\ stack = <<>> /\ ~IsAsking
  /\ info' = [info EXCEPT !.ok = TRUE, !.rootCosts = [i \in DOMAIN Operands |-> subtreeCosts[Operands[i]]]]
  /\ pc' = "idle"
  /\ UNCHANGED <<graph, mode, root, stack, overflowed, lpVars>>

LpNext ==
  \/ PopulateNode \/ PopulatedNode \/ Solve \/ SolveFails
  \/ AssembleInput \/ Assemble \/ AddCost \/ Assembled \/ AssembledRoot \/ EndAssemble
=============================================================================
