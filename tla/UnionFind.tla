----------------------------- MODULE UnionFind -----------------------------
(***************************************************************************)
(* The disjoint-set forest of an e-graph: EGraph::symbolicUnionParents,    *)
(* which maps the name of an input or e-class to the name it was united    *)
(* into.  The code keeps a DenseMap and treats a missing entry as "its own *)
(* parent"; here the map is total and a missing entry is a self-loop.  The *)
(* forest is never compressed and never re-rooted.                         *)
(***************************************************************************)
CONSTANT Symbol   \* names of payload symbols: inputs and e-classes

ASSUME SymbolNotEmpty == Symbol # {}

(***************************************************************************)
(* EGraph::findLeaderSymbol: follow the parents until a name is its own    *)
(* parent.  The value is the map of all answers, so that a step evaluates  *)
(* it once.                                                                *)
(***************************************************************************)
FindLeader(parent) ==
  LET leader[s \in Symbol] == IF parent[s] = s THEN s ELSE leader[parent[s]]
  IN  leader

\* No union has happened: every name is its own parent.
NoUnions == [s \in Symbol |-> s]

(***************************************************************************)
(* The assignment at the heart of EGraph::unionLeaderSymbols, for one pair *)
(* of names whose leaders were looked up just before.                      *)
(***************************************************************************)
Link(parent, leader, member) == [parent EXCEPT ![member] = leader]

(***************************************************************************)
(* Following the parents from s reaches r: every set of names that holds s *)
(* and is closed under parents holds r.  IsForest says findLeaderSymbol    *)
(* terminates for every name, because every path ends in a root.           *)
(***************************************************************************)
ClosedUnder(parent, T) == \A x \in T : parent[x] \in T

Reaches(parent, s, r) ==
  \A T \in SUBSET Symbol : s \in T /\ ClosedUnder(parent, T) => r \in T

IsForest(parent) ==
  \A s \in Symbol : \E r \in Symbol : parent[r] = r /\ Reaches(parent, s, r)
=============================================================================
