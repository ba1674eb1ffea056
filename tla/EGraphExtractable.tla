-------------------------- MODULE EGraphExtractable --------------------------
(***************************************************************************)
(* What the facade leaves for the extractors to find.                      *)
(***************************************************************************)
EXTENDS EGraph

(***************************************************************************)
(* The names that have a finite term for an extractor: it follows operands *)
(* to their leaders and aliases to the name they hold (computeBest and     *)
(* computeBestPreservingSymbol of GreedyExtract.cpp).  They are the names  *)
(* in every set that has the inputs and is closed under candidates.        *)
(***************************************************************************)
IsClosed(C) ==
  LET L == Leader IN
  /\ Input \cap defined \subseteq C
  /\ \A s \in EClass \ C :
       /\ \A t \in terms[s] : \E u \in Uses(t) : L[u] \notin C
       /\ aliases[s] \cap C = {}

HasTerm(s) == \A C \in SUBSET Symbol : IsClosed(C) => s \in C

\* Aliases of an e-class whose candidates went to another one.
StaleAliases == {m \in UNION {aliases[s] : s \in Symbol} : m \in EClass /\ Leader[m] # m}

(***************************************************************************)
(* Uniting and rebuilding lose no target: if all of them could be          *)
(* extracted from the body, they can be extracted from every graph rebuilt *)
(* from it, although classes become their own operands (x united with f(x) *)
(* and the like).  The exception is a target that depends on an alias of   *)
(* an absorbed e-class, which rebuild leaves empty but does not resolve.   *)
(***************************************************************************)
TargetsExtractable ==
  pc = "idle" /\ touched = {} /\ StaleAliases = {} => \A i \in Slot : HasTerm(Leader[targets[i]])
=============================================================================
