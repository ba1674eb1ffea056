---------------------------- MODULE ExtractGraph ----------------------------
(***************************************************************************)
(* What an extractor sees of a clean e-graph, and what extracting from it  *)
(* means.  On a clean graph the references of operation candidates and the *)
(* roots are leaders; an alias candidate may refer to any name.            *)
(*                                                                         *)
(* A graph is a record of the leader of each name, the choices of each     *)
(* e-class, in region order, and the roots.  A choice is an alias of       *)
(* refs[1], or an operation whose operand i is the block argument args[i], *)
(* which stands for the payload refs[args[i]].                             *)
(***************************************************************************)
EXTENDS Integers, Sequences, FiniteSets

CONSTANTS
  Symbol,
  Input,    \* names of egraph.input ops
  MaxCost   \* largest EGraphExtractCost, 2^64 - 1 in the code

ASSUME NamesFinite == IsFiniteSet(Symbol) /\ Input \subseteq Symbol
ASSUME MaxCostOK == MaxCost \in Nat

EClass == Symbol \ Input

\* The cost model failed on the operation.
NoCost == -1

IsUsable(c) == c.cost # NoCost

\* Mutation of Fits: no check.
FitsAlways(a, b) == TRUE

\* addExtractCosts refuses to overflow.
Fits(a, b) == b <= MaxCost - a

\* childLeaderSymbols of the structural key, or the target of the alias.
Children(c) ==
  IF c.alias THEN c.refs ELSE [i \in DOMAIN c.args |-> c.refs[c.args[i]]]

Needs(c) == {Children(c)[i] : i \in DOMAIN Children(c)}

UsableChoices(g, s) == {i \in DOMAIN g.choices[s] : IsUsable(g.choices[s][i])}

Roots(g) == {g.roots[i] : i \in DOMAIN g.roots}

Choice == [alias : BOOLEAN, cost : NoCost..MaxCost, refs : Seq(Symbol), args : Seq(Nat)]

IsCleanGraph(g) ==
  /\ g.leader \in [Symbol -> Symbol]
  /\ g.choices \in [EClass -> Seq(Choice)]
  /\ g.roots \in Seq(Symbol)
  /\ \A r \in Roots(g) : g.leader[r] = r
  /\ \A s \in EClass : \A i \in DOMAIN g.choices[s] :
       LET c == g.choices[s][i]
       IN  IF c.alias
           THEN c.cost = 0 /\ Len(c.refs) = 1
           ELSE /\ \A a \in DOMAIN c.args : c.args[a] \in DOMAIN c.refs
                /\ \A t \in Needs(c) : g.leader[t] = t

-----------------------------------------------------------------------------
(***************************************************************************)
(* The reference: what the extractors are compared with.  An extraction    *)
(* takes one choice for some e-classes, closed under what the choices need *)
(* and without a cycle.                                                    *)
(***************************************************************************)
\* The names that have a finite term: the least set closed under the choices.
IsClosed(g, S) ==
  /\ Input \subseteq S
  /\ \A s \in EClass : \A i \in UsableChoices(g, s) : Needs(g.choices[s][i]) \subseteq S => s \in S

Solvable(g) == {s \in Symbol : \A S \in SUBSET Symbol : IsClosed(g, S) => s \in S}

\* The names a selection gives a finite term.
IsClosedUnder(g, sel, S) ==
  /\ Input \subseteq S
  /\ \A s \in DOMAIN sel : Needs(g.choices[s][sel[s]]) \subseteq S => s \in S

Grounded(g, sel) == {s \in Symbol : \A S \in SUBSET Symbol : IsClosedUnder(g, sel, S) => s \in S}

Selections(g, S) ==
  {sel \in [S -> UNION {UsableChoices(g, s) : s \in S}] :
     \A s \in S : sel[s] \in UsableChoices(g, s)}

\* The extractions that give the names R a term.
Extractions(g, R) ==
  {sel \in UNION {Selections(g, S) : S \in SUBSET EClass} :
     DOMAIN sel \cup R \subseteq Grounded(g, sel)}

(***************************************************************************)
(* The cost of a term counts an operation once for every path to it, the   *)
(* cost of a block counts every selected operation once.                   *)
(***************************************************************************)
\* first + number[1] + ... + number[n]
SumTo(first, number, n) ==
  LET sum[k \in 0..n] == IF k = 0 THEN first ELSE sum[k-1] + number[k]
  IN  sum[n]

CostOf(cost, s) == IF s \in Input THEN 0 ELSE cost[s]

ChildCosts(c, cost) == [i \in DOMAIN Children(c) |-> CostOf(cost, Children(c)[i])]

TermCost(c, cost) == SumTo(c.cost, ChildCosts(c, cost), Len(Children(c)))

IsCosting(g, sel, cost) == \A s \in DOMAIN sel : cost[s] = TermCost(g.choices[s][sel[s]], cost)

Costings(g, sel) == {cost \in [DOMAIN sel -> 0..MaxCost] : IsCosting(g, sel, cost)}

SelectedCost(g, sel, s) == IF s \in DOMAIN sel THEN g.choices[s][sel[s]].cost ELSE 0

\* Summed over the names in order.
DagCost(g, order, sel) ==
  SumTo(0, [n \in DOMAIN order |-> SelectedCost(g, sel, order[n])], Len(order))

\* No name needs itself, whatever is selected.
IsAcyclic(g) ==
  \A S \in SUBSET EClass : S # {} =>
    \E s \in S : \A i \in DOMAIN g.choices[s] : Needs(g.choices[s][i]) \cap S = {}

\* The only aliases that rebuild makes: a leader has taken the place of an input.
AliasesOfInputs(g) ==
  \A s \in EClass : \A i \in DOMAIN g.choices[s] :
    g.choices[s][i].alias => Needs(g.choices[s][i]) \subseteq Input
=============================================================================
