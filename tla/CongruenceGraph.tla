--------------------------- MODULE CongruenceGraph ---------------------------
(***************************************************************************)
(* What an e-graph promises its clients, without names, tables or IR: a    *)
(* partition of the names into classes and a set of nodes between classes. *)
(* Clients add nodes and assert that two classes are equal; nothing else   *)
(* changes the meaning of a class.  A rebuild may only unite classes that  *)
(* hold congruent nodes, must not lose or invent a node, and returns no    *)
(* sooner than the partition is closed under congruence.                   *)
(***************************************************************************)
CONSTANTS Name, Slot

VARIABLES
  class,    \* the class of each name, as the set of its names
  nodes,    \* records [class, op, children]: classes and their operations
  aliases,  \* pairs of classes <<c, d>>, c # d: c may be computed as d
  results,  \* the class each position of the return denotes
  phase     \* "client" or "rebuild"

vars == <<class, nodes, aliases, results, phase>>

Classes == {class[n] : n \in Name}

Congruent(x, y) == x.op = y.op /\ x.children = y.children

Init ==
  /\ class = [n \in Name |-> {n}]
  /\ \A x \in nodes : x.class \in Classes
  /\ \A i \in Slot : results[i] \in Classes
  /\ phase = "client"

\* What uniting the classes c and d makes of a class and of a node.
Merged(c, d, e) == IF e \in {c, d} THEN c \cup d ELSE e

MergedNode(c, d, x) ==
  [class    |-> Merged(c, d, x.class),
   op       |-> x.op,
   children |-> [i \in DOMAIN x.children |-> Merged(c, d, x.children[i])]]

Merge(c, d) ==
  /\ class' = [n \in Name |-> Merged(c, d, class[n])]
  /\ nodes' = {MergedNode(c, d, x) : x \in nodes}
  /\ aliases' = {<<Merged(c, d, a[1]), Merged(c, d, a[2])>> :
                 a \in {b \in aliases : Merged(c, d, b[1]) # Merged(c, d, b[2])}}
  /\ results' = [i \in Slot |-> Merged(c, d, results[i])]

\* A client states that two classes are equal; then they are classes no more.
Assert ==
  /\ phase = "client"
  /\ \E c, d \in Classes \ Classes' : Merge(c, d)
  /\ UNCHANGED phase

\* A client adds an operation; a name nobody has used stands for it.
Add ==
  /\ phase = "client"
  /\ \E x \in nodes' \ nodes : \E n \in x.class :
       /\ class[n] = {n} /\ x.class = {n}
       /\ \A y \in nodes : y.class # {n} /\ \A i \in DOMAIN y.children : y.children[i] # {n}
       /\ nodes' = nodes \cup {x}
  /\ UNCHANGED <<class, aliases, results, phase>>

BeginRebuild ==
  /\ phase = "client"
  /\ phase' = "rebuild"
  /\ UNCHANGED <<class, nodes, aliases, results>>

Propagate ==
  /\ phase = "rebuild"
  /\ \E x, y \in nodes : /\ Congruent(x, y) /\ x.class # y.class
                         /\ Merge(x.class, y.class)
  /\ UNCHANGED phase

EndRebuild ==
  /\ phase = "rebuild" /\ phase' = "client"
  /\ \A x, y \in nodes : Congruent(x, y) => x.class = y.class
  /\ UNCHANGED <<class, nodes, aliases, results>>

Next ==
  \/ Assert
  \/ Add
  \/ BeginRebuild
  \/ Propagate
  \/ EndRebuild

Spec == Init /\ [][Next]_vars
=============================================================================
