--------------------------- MODULE EGraphRefinement ---------------------------
(***************************************************************************)
(* EGraph implements CongruenceGraph.  A class is the set of names with    *)
(* one leader, a node is a candidate up to that equality, and an alias     *)
(* candidate for a name of its own class says nothing.                     *)
(***************************************************************************)
EXTENDS EGraph

ClassOf == LET L == Leader IN [s \in Symbol |-> {x \in Symbol : L[x] = L[s]}]

NodesOf ==
  LET class == ClassOf IN
  UNION {{[class    |-> class[s],
           op       |-> t.op,
           children |-> [i \in 1..Arity[t.op] |-> class[t.args[i]]]] :
          t \in terms[s]} : s \in Symbol}

AliasesOf ==
  LET class == ClassOf IN
  UNION {{<<class[s], class[m]>> : m \in {n \in aliases[s] : class[n] # class[s]}} :
         s \in Symbol}

Abstract == INSTANCE CongruenceGraph
  WITH Name    <- Symbol,
       class   <- ClassOf,
       nodes   <- NodesOf,
       aliases <- AliasesOf,
       results <- [i \in Slot |-> ClassOf[targets[i]]],
       phase   <- IF pc = "collide" THEN "rebuild" ELSE "client"

(***************************************************************************)
(* Unions of clients and congruence are the only reasons two names ever    *)
(* become equal; canonicalising, absorbing and erasing change no class, no *)
(* node and no result; a rebuild returns only when congruence is closed.   *)
(***************************************************************************)
ImplementsCongruenceGraph == Abstract!Spec
=============================================================================
