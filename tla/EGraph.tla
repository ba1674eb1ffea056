------------------------------- MODULE EGraph -------------------------------
(***************************************************************************)
(* The EGraph facade (lib/EGraph/EGraph.cpp) over the symbolic e-graph IR: *)
(* unions of values, interning of operations, and rebuild.                 *)
(*                                                                         *)
(* The IR is a block of inputs and e-classes, closed by a return.  An      *)
(* e-class lists candidates: an operation candidate applies one operation  *)
(* to the payloads it references, an alias candidate yields the payload it *)
(* references.  A row that an e-class lists twice is one member of its     *)
(* set, because isDuplicateCandidate makes the second one redundant.       *)
(***************************************************************************)
EXTENDS UnionFind, Integers, FiniteSets

CONSTANTS
  Input,        \* the names that belong to egraph.input ops
  Type,         \* payload types
  TypeOf,       \* the payload type of a name
  Op,           \* an operation name with its attributes and result type
  Arity,        \* number of operands of an operation
  OperandType,  \* type of operand i of an operation
  ResultType,   \* result type of an operation
  Slot,         \* positions of the egraph.return targets
  Graphs,       \* the verified IR bodies an EGraph may be asked to index
  First(_),     \* the e-class of a set that comes first in the block
  MaxPairs      \* bound: pairs in one call of unionValueTuples

EClass == Symbol \ Input

\* An operation candidate, or its structural key when the operands are leaders.
Term == UNION {[op : {o}, args : [1..Arity[o] -> Symbol]] : o \in Op}

\* EClassOp::verify and verifySymbolUses, the typing half.
WellTyped(t) ==
  \A i \in 1..Arity[t.op] : TypeOf[t.args[i]] = OperandType[t.op][i]

Uses(t) == {t.args[i] : i \in 1..Arity[t.op]}

HasCandidates(candidates, yields, s) == candidates[s] # {} \/ yields[s] # {}

(***************************************************************************)
(* A body the verifiers accept, in which every e-class has a candidate.    *)
(***************************************************************************)
IsBody(g) ==
  /\ g.defined \in SUBSET Symbol
  /\ g.terms   \in [Symbol -> SUBSET Term]
  /\ g.aliases \in [Symbol -> SUBSET Symbol]
  /\ g.targets \in [Slot -> g.defined]
  /\ \A s \in Symbol :
       /\ s \in Input \/ s \notin g.defined => g.terms[s] = {} /\ g.aliases[s] = {}
       /\ s \in EClass /\ s \in g.defined => HasCandidates(g.terms, g.aliases, s)
       /\ \A t \in g.terms[s] : /\ Uses(t) \subseteq g.defined
                                /\ WellTyped(t)
                                /\ ResultType[t.op] = TypeOf[s]
       /\ \A m \in g.aliases[s] : m \in g.defined /\ TypeOf[m] = TypeOf[s]

ASSUME ConstantsOK ==
  /\ Input \subseteq Symbol
  /\ TypeOf \in [Symbol -> Type]
  /\ \A o \in Op : Arity[o] \in Nat /\ ResultType[o] \in Type
  /\ \A g \in Graphs : IsBody(g)
  /\ MaxPairs \in Nat \ {0}

ASSUME FirstOK == \A S \in SUBSET Symbol : S # {} => First(S) \in S

VARIABLES
  defined,    \* names with an op in the block (payloadSymbols, SymbolTable)
  terms,      \* operation candidates of each e-class
  aliases,    \* alias candidates of each e-class: the names they yield
  targets,    \* egraph.return targets
  parent,     \* symbolicUnionParents
  hashcons,   \* EGraphIndex::structuralHashCons: key -> e-class of the entry
  touched,    \* touchedSymbolNames
  pc,         \* what the facade is in the middle of
  work,       \* pairs unionLeaderSymbols has still to process
  changed     \* EGraphUnionResult::changed of the collision round

ir    == <<defined, terms, aliases, targets>>
vars  == <<defined, terms, aliases, targets, parent, hashcons, touched, pc, work, changed>>

Leader == FindLeader(parent)

(***************************************************************************)
(* A term with every reference replaced by its leader: buildStructuralKey, *)
(* and one row of rewriteSymbolicCandidateRefsToLeaders.                   *)
(***************************************************************************)
Canon(leader, t) ==
  [op |-> t.op, args |-> [i \in 1..Arity[t.op] |-> leader[t.args[i]]]]

(***************************************************************************)
(* indexEGraph, as far as hash-consing goes: addStructuralEntry keeps the  *)
(* entry of the first occurrence of a key and ignores the later ones.      *)
(***************************************************************************)
Owners(leader, candidates, k) ==
  {s \in Symbol : \E t \in candidates[s] : Canon(leader, t) = k}

Index(leader, candidates) ==
  [k \in UNION {{Canon(leader, t) : t \in candidates[s]} : s \in Symbol} |->
     First(Owners(leader, candidates, k))]

-----------------------------------------------------------------------------
Init ==
  \E g \in Graphs :
    /\ defined = g.defined
    /\ terms = g.terms
    /\ aliases = g.aliases
    /\ targets = g.targets
    /\ parent = NoUnions
    /\ hashcons = Index(FindLeader(NoUnions), g.terms)
    /\ touched = {}
    /\ pc = "idle"
    /\ work = {}
    /\ changed = FALSE

\* Mutation of UnionPair: the left value always leads.
UnionPairUnoriented(leader, l, r) == <<leader[l], leader[r]>>

(***************************************************************************)
(* getUnionSymbolPair: both values must name ops of the block whose        *)
(* leaders are ops of the block with one payload type.  The pair holds the *)
(* leader to be and the member to be; an e-class goes before an input.     *)
(***************************************************************************)
CanUnite(leader, l, r) ==
  /\ {l, r, leader[l], leader[r]} \subseteq defined
  /\ TypeOf[leader[l]] = TypeOf[leader[r]]

UnionPair(leader, l, r) ==
  IF leader[l] \in Input /\ leader[r] \in EClass
  THEN <<leader[r], leader[l]>>
  ELSE <<leader[l], leader[r]>>

(***************************************************************************)
(* unionValueTuples (and unionValues, which passes one pair): every pair   *)
(* is validated and oriented before the first one is united.  A call with  *)
(* an invalid pair fails and changes nothing.                              *)
(***************************************************************************)
UnionValueTuples(P) ==
  /\ pc = "idle"
  /\ \A p \in P : CanUnite(Leader, p[1], p[2])
  /\ work' = {UnionPair(Leader, p[1], p[2]) : p \in P}
  /\ pc' = "union"
  /\ UNCHANGED <<ir, parent, hashcons, touched, changed>>

\* Mutation of UnionLeaderSymbols: the names of the pair are linked as they are.
UnionLeaderSymbolsStale(p) ==
  /\ pc \in {"union", "collide"}
  /\ work' = work \ {p}
  /\ pc' = IF pc = "union" /\ work' = {} THEN "idle" ELSE pc
  /\ IF p[1] = p[2]
     THEN UNCHANGED <<parent, touched, changed>>
     ELSE /\ parent' = Link(parent, p[1], p[2])
          /\ touched' = touched \cup {p[1], p[2]}
          /\ changed' = (pc = "collide")
  /\ UNCHANGED <<ir, hashcons>>

\* Mutation of UnionLeaderSymbols: a pair already united counts as a change.
UnionLeaderSymbolsAlwaysChanged(p) ==
  LET l == Leader[p[1]]
      m == Leader[p[2]]
  IN  /\ pc \in {"union", "collide"}
      /\ work' = work \ {p}
      /\ pc' = IF pc = "union" /\ work' = {} THEN "idle" ELSE pc
      /\ changed' = (pc = "collide")
      /\ IF l = m
         THEN UNCHANGED <<parent, touched>>
         ELSE parent' = Link(parent, l, m) /\ touched' = touched \cup {l, m}
      /\ UNCHANGED <<ir, hashcons>>

(***************************************************************************)
(* One iteration of unionLeaderSymbols, called for the pairs of a client   *)
(* or for the collisions of a rebuild round.  The leaders are looked up    *)
(* again, since an earlier pair of the same call may have moved them.      *)
(***************************************************************************)
UnionLeaderSymbols(p) ==
  LET l == Leader[p[1]]
      m == Leader[p[2]]
  IN  /\ pc \in {"union", "collide"}
      /\ work' = work \ {p}
      /\ pc' = IF pc = "union" /\ work' = {} THEN "idle" ELSE pc
      /\ IF l = m
         THEN UNCHANGED <<parent, touched, changed>>
         ELSE /\ parent' = Link(parent, l, m)
              /\ touched' = touched \cup {l, m}
              /\ changed' = (pc = "collide")
      /\ UNCHANGED <<ir, hashcons>>

\* Mutation of IsFresh: the union map is not consulted.
IsFreshInBlock(s) == s \in EClass /\ s \notin defined

(***************************************************************************)
(* intern, when the hash-cons table misses: a fresh name is given to a new *)
(* e-class whose only candidate is the structural key itself.  A name is   *)
(* fresh when neither the block nor the union map knows it.  On a hit the  *)
(* entry's e-class is returned and nothing changes.                        *)
(***************************************************************************)
IsFresh(s) ==
  /\ s \in EClass
  /\ s \notin defined
  /\ parent[s] = s

\* Mutation of Intern: every argument of the clone references the first operand.
InternFirstOperand(t, s) ==
  LET key == Canon(Leader, t)
  IN  /\ pc = "idle"
      /\ Uses(t) \subseteq defined
      /\ WellTyped(t)
      /\ key \notin DOMAIN hashcons
      /\ IsFresh(s)
      /\ TypeOf[s] = ResultType[t.op]
      /\ defined' = defined \cup {s}
      /\ terms' = [terms EXCEPT ![s] = {[key EXCEPT !.args = [i \in 1..Arity[t.op] |-> @[1]]]}]
      /\ hashcons' = [k \in DOMAIN hashcons \cup {key} |->
                        IF k = key THEN s ELSE hashcons[k]]
      /\ UNCHANGED <<aliases, targets, parent, touched, pc, work, changed>>

Intern(t, s) ==
  LET key == Canon(Leader, t)
  IN  /\ pc = "idle"
      /\ Uses(t) \subseteq defined
      /\ WellTyped(t)
      /\ key \notin DOMAIN hashcons
      /\ IsFresh(s)
      /\ TypeOf[s] = ResultType[t.op]
      /\ defined' = defined \cup {s}
      /\ terms' = [terms EXCEPT ![s] = {key}]
      /\ hashcons' = [k \in DOMAIN hashcons \cup {key} |->
                        IF k = key THEN s ELSE hashcons[k]]
      /\ UNCHANGED <<aliases, targets, parent, touched, pc, work, changed>>

(***************************************************************************)
(* The head of the loop of rebuild: rewriteSymbolicCandidateRefsToLeaders  *)
(* (alias candidates keep their references), rewriteReturnTargetsToLeaders *)
(* and indexEGraph, and the pairs unionSymbolicStructuralCollisions finds: *)
(* the entry of a key with every other e-class that has the key.           *)
(***************************************************************************)
Collisions(leader, table, candidates) ==
  UNION {{UnionPair(leader, table[Canon(leader, t)], s) :
            t \in {u \in candidates[s] : table[Canon(leader, u)] # s}} :
         s \in Symbol}

RebuildRound ==
  LET L == Leader
      rewritten == [s \in Symbol |-> {Canon(L, t) : t \in terms[s]}]
      table == Index(L, rewritten)
  IN  /\ \/ pc = "idle"
         \/ pc = "collide" /\ work = {} /\ changed
      /\ terms' = rewritten
      /\ targets' = [i \in Slot |-> L[targets[i]]]
      /\ hashcons' = table
      /\ work' = Collisions(L, table, rewritten)
      /\ changed' = FALSE
      /\ pc' = "collide"
      /\ UNCHANGED <<defined, aliases, parent, touched>>

(***************************************************************************)
(* materializeSymbolicUnions: the e-class that leads a class absorbs the   *)
(* candidates of the members and gets an alias candidate for each input    *)
(* among them; absorbed members are left empty.  A class that an input     *)
(* leads is skipped.                                                       *)
(***************************************************************************)
Members(leader, s) == {m \in defined : leader[m] = s}

IsAbsorbed(leader, s) == leader[s] # s /\ leader[s] \in EClass \cap defined

AbsorbedTerms(leader) ==
  [s \in Symbol |->
     IF IsAbsorbed(leader, s) THEN {}
     ELSE IF s \in EClass THEN UNION {terms[m] : m \in Members(leader, s) \cup {s}}
     ELSE terms[s]]

\* Mutation of AbsorbedAliases: an input of the class gets no alias.
AbsorbedAliasesInputsLost(leader) ==
  [s \in Symbol |->
     IF IsAbsorbed(leader, s) THEN {}
     ELSE IF s \in EClass THEN UNION {aliases[m] : m \in Members(leader, s) \cup {s}}
     ELSE aliases[s]]

AbsorbedAliases(leader) ==
  [s \in Symbol |->
     IF IsAbsorbed(leader, s) THEN {}
     ELSE IF s \in EClass
          THEN (UNION {aliases[m] : m \in Members(leader, s) \cup {s}})
                 \cup (Members(leader, s) \cap Input)
     ELSE aliases[s]]

(***************************************************************************)
(* removeDeadSymbolicEClasses erases an e-class without candidates, unless *)
(* some candidate or the return still uses its name.                       *)
(***************************************************************************)
IsDead(s, candidates, yields, returned) ==
  /\ s \in EClass \cap defined
  /\ ~HasCandidates(candidates, yields, s)
  /\ \A d \in defined : /\ s \notin yields[d]
                        /\ \A t \in candidates[d] : s \notin Uses(t)
  /\ \A i \in Slot : returned[i] # s

\* Mutation of RebuildFinish: one round is enough.
RebuildFinishOneRound ==
  LET L == Leader
      absorbed == AbsorbedTerms(L)
      yields   == AbsorbedAliases(L)
      returned == [i \in Slot |-> L[targets[i]]]
  IN  /\ pc = "collide" /\ work = {}
      /\ terms' = absorbed
      /\ aliases' = yields
      /\ targets' = returned
      /\ defined' = defined \ {s \in Symbol : IsDead(s, absorbed, yields, returned)}
      /\ hashcons' = Index(L, absorbed)
      /\ touched' = {}
      /\ pc' = "idle"
      /\ UNCHANGED <<parent, work, changed>>

(***************************************************************************)
(* The tail of rebuild, once a round finds nothing to unite.               *)
(***************************************************************************)
RebuildFinish ==
  LET L == Leader
      absorbed == AbsorbedTerms(L)
      yields   == AbsorbedAliases(L)
      returned == [i \in Slot |-> L[targets[i]]]
  IN  /\ pc = "collide" /\ work = {} /\ ~changed
      /\ terms' = absorbed
      /\ aliases' = yields
      /\ targets' = returned
      /\ defined' = defined \ {s \in Symbol : IsDead(s, absorbed, yields, returned)}
      /\ hashcons' = Index(L, absorbed)
      /\ touched' = {}
      /\ pc' = "idle"
      /\ UNCHANGED <<parent, work, changed>>

-----------------------------------------------------------------------------
\* Clients hold values of ops of the block; one call unites up to MaxPairs pairs.
ClientUnion ==
  \E calls \in [1..MaxPairs -> defined \X defined] :
    UnionValueTuples({calls[i] : i \in 1..MaxPairs})

Next ==
  \/ ClientUnion
  \/ \E p \in work : UnionLeaderSymbols(p)
  \/ \E t \in Term, s \in Symbol : Intern(t, s)
  \/ RebuildRound
  \/ RebuildFinish

Spec == Init /\ [][Next]_vars

(***************************************************************************)
(* The facade is called from one thread and every call returns: a call     *)
(* that has begun keeps taking steps.  Nothing obliges a client to call.   *)
(***************************************************************************)
Running ==
  \/ \E p \in work : UnionLeaderSymbols(p)
  \/ pc = "collide" /\ RebuildRound
  \/ RebuildFinish

FairSpec == Spec /\ WF_vars(Running)

-----------------------------------------------------------------------------
TypeOK ==
  /\ defined \in SUBSET Symbol
  /\ terms \in [Symbol -> SUBSET Term]
  /\ aliases \in [Symbol -> SUBSET Symbol]
  /\ targets \in [Slot -> Symbol]
  /\ parent \in [Symbol -> Symbol]
  /\ DOMAIN hashcons \subseteq Term
  /\ \A k \in DOMAIN hashcons : hashcons[k] \in Symbol
  /\ touched \in SUBSET Symbol
  /\ pc \in {"idle", "union", "collide"}
  /\ work \in SUBSET (Symbol \X Symbol)
  /\ changed \in BOOLEAN

(***************************************************************************)
(* The union map stays a forest, so that findLeaderSymbol terminates: no   *)
(* order of unions, of clients or of a rebuild, closes a cycle of parents. *)
(***************************************************************************)
UnionForest == IsForest(parent)

(***************************************************************************)
(* A class that has been united has a leader in the block, of the payload  *)
(* type of every name of the class: unionValues and rebuild look the       *)
(* leader's op and type up again and fail without them.  A leading e-class *)
(* is never left without candidates, which would make it dead.             *)
(***************************************************************************)
LeadersSound ==
  LET L == Leader IN
  \A s \in Symbol :
    /\ parent[s] # s => L[s] \in defined
    /\ TypeOf[L[s]] = TypeOf[s]
    /\ L[s] = s /\ s \in EClass \cap defined => HasCandidates(terms, aliases, s)

(***************************************************************************)
(* A pair that waits in unionLeaderSymbols would pass getUnionSymbolPair   *)
(* when its turn comes, though earlier pairs moved the leaders.  For the   *)
(* pairs of a rebuild round it means that the failure return of            *)
(* unionSymbolicStructuralCollisions is dead code.                         *)
(***************************************************************************)
PendingPairsValid == \A p \in work : CanUnite(Leader, p[1], p[2])

(***************************************************************************)
(* EClassOp::verifySymbolUses and ReturnOp::verifySymbolUses accept the IR *)
(* at every point, in the middle of a rebuild too: no reference names an   *)
(* e-class that removeDeadSymbolicEClasses erased, and rewriting to        *)
(* leaders keeps every argument at its type.                               *)
(***************************************************************************)
IRVerifies ==
  /\ \A s \in Symbol :
       /\ HasCandidates(terms, aliases, s) => s \in EClass \cap defined
       /\ \A t \in terms[s] : /\ Uses(t) \subseteq defined /\ WellTyped(t)
                              /\ ResultType[t.op] = TypeOf[s]
       /\ \A m \in aliases[s] : m \in defined /\ TypeOf[m] = TypeOf[s]
  /\ \A i \in Slot : targets[i] \in defined

(***************************************************************************)
(* The invariant of the facade, between calls and in the middle of them.   *)
(* It is inductive, and none of its parts is alone: a leader is never      *)
(* erased because it has candidates, references resolve because they are   *)
(* rewritten to leaders, and valid pairs carry the types from one union of *)
(* a call or of a rebuild to the next.                                     *)
(***************************************************************************)
Inv == TypeOK /\ UnionForest /\ LeadersSound /\ PendingPairsValid /\ IRVerifies

(***************************************************************************)
(* A hit of the hash-cons table is sound even between a union and the      *)
(* rebuild, when keys and entries are stale: the class of the entry has a  *)
(* candidate that is congruent to the key.  intern returns that entry.     *)
(***************************************************************************)
HashConsSound ==
  LET L == Leader IN
  \A k \in DOMAIN hashcons :
    \E s \in defined : /\ L[s] = L[hashcons[k]]
                       /\ \E t \in terms[s] : Canon(L, t) = Canon(L, k)

(***************************************************************************)
(* What a rebuild restores: references are canonical, congruent candidates *)
(* are in one class, the table finds every candidate in its class, and a   *)
(* class an e-class leads has all candidates in the leader, each united    *)
(* input among them.                                                       *)
(***************************************************************************)
Settled ==
  LET L == Leader IN
  /\ \A i \in Slot : L[targets[i]] = targets[i]
  /\ \A s \in Symbol : \A t \in terms[s] :
       /\ Canon(L, t) = t
       /\ t \in DOMAIN hashcons
       /\ L[hashcons[t]] = L[s]
  /\ \A s \in defined : IsAbsorbed(L, s) =>
       /\ terms[s] = {} /\ aliases[s] = {}
       /\ s \in Input => s \in aliases[L[s]]

(***************************************************************************)
(* Every rebuild ends settled, and a settled graph stays settled as long   *)
(* as no class is touched: interning on it adds no congruent twin.  (A     *)
(* graph just indexed need not be settled: an imported block may repeat an *)
(* operation.)                                                             *)
(***************************************************************************)
RebuildSettles ==
  [][\/ pc = "collide" /\ pc' = "idle"
     \/ touched = {} /\ touched' = {} /\ Settled
     => Settled']_vars

\* Each round unites at least two classes, so a rebuild comes to an end.
CallsReturn == pc # "idle" ~> pc = "idle"

(***************************************************************************)
(* An e-class is never led by an input: materializeSymbolicUnions skips a  *)
(* class whose leader is not an e-class, and its candidates would be lost  *)
(* to whoever queries the leader.  It holds for calls that unite one pair. *)
(***************************************************************************)
EClassLeads == \A s \in EClass : Leader[s] \in EClass
=============================================================================
