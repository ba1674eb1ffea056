--------------------------- MODULE EGraphTheorems ---------------------------
(***************************************************************************)
(* Safety of the e-graph facade, for any names, operations, bodies and any *)
(* number of unions, interned operations and rebuilds.                     *)
(***************************************************************************)
EXTENDS EGraph, TLAPS

USE DEF HasCandidates

-----------------------------------------------------------------------------
\* What findLeaderSymbol returns on a forest, and how one union changes it.

\* A root of the forest to which the parents of s lead.
IsRootOf(up, s, r) == r \in Symbol /\ up[r] = r /\ Reaches(up, s, r)

\* One parent step does not change which roots are reached.
LEMMA ReachesStep ==
  ASSUME NEW up \in [Symbol -> Symbol], NEW s \in Symbol, NEW r \in Symbol,
         up[s] # s, up[r] = r, Reaches(up, s, r)
  PROVE  Reaches(up, up[s], r)
PROOF
  <1> SUFFICES ASSUME NEW T \in SUBSET Symbol, up[s] \in T, ClosedUnder(up, T)
               PROVE  r \in T
    BY DEF Reaches
  <1>1. ClosedUnder(up, T \cup {s})
    BY DEF ClosedUnder
  <1>2. r \in T \cup {s}
    BY <1>1 DEF Reaches
  <1> QED
    BY <1>2

\* A name reaches at most one root.
LEMMA RootUnique ==
  ASSUME NEW up \in [Symbol -> Symbol], NEW s \in Symbol,
         NEW q, NEW r, IsRootOf(up, s, q), IsRootOf(up, s, r)
  PROVE  q = r
PROOF
  <1> DEFINE T == {x \in Symbol : Reaches(up, x, r)}
  <1>1. ClosedUnder(up, T)
    <2> SUFFICES ASSUME NEW x \in T PROVE up[x] \in T
      BY DEF ClosedUnder
    <2>1. CASE up[x] = x
      BY <2>1
    <2>2. CASE up[x] # x
      BY <2>2, ReachesStep DEF IsRootOf
    <2> QED
      BY <2>1, <2>2
  <1>2. Reaches(up, q, r)
    BY <1>1 DEF IsRootOf, Reaches
  <1>3. ClosedUnder(up, {q})
    BY DEF ClosedUnder, IsRootOf
  <1> QED
    BY <1>2, <1>3 DEF Reaches, IsRootOf

(***************************************************************************)
(* findLeaderSymbol on a forest: a total function whose value is the one   *)
(* root reached.                                                           *)
(***************************************************************************)
LEMMA LeaderEquation ==
  ASSUME NEW up \in [Symbol -> Symbol], IsForest(up)
  PROVE  /\ FindLeader(up) = [s \in Symbol |->
              IF up[s] = s THEN s ELSE FindLeader(up)[up[s]]]
PROOF
  <1> DEFINE g == [s \in Symbol |-> CHOOSE r \in Symbol : IsRootOf(up, s, r)]
             body(f) == [s \in Symbol |-> IF up[s] = s THEN s ELSE f[up[s]]]
  <1>1. \A s \in Symbol : IsRootOf(up, s, g[s])
    BY DEF IsForest, IsRootOf
  <1>2. ASSUME NEW s \in Symbol
        PROVE  g[s] = IF up[s] = s THEN s ELSE g[up[s]]
    <2>1. CASE up[s] = s
      <3>1. IsRootOf(up, s, s)
        BY <2>1 DEF IsRootOf, Reaches
      <3> QED
        BY <3>1, <1>1, <2>1, RootUnique
    <2>2. CASE up[s] # s
      <3>1. IsRootOf(up, up[s], g[s])
        BY <1>1, <2>2, ReachesStep DEF IsRootOf
      <3> QED
        BY <3>1, <1>1, <2>2, RootUnique
    <2> QED
      BY <2>1, <2>2
  <1>3. g = body(g)
    BY <1>2
  <1> HIDE DEF g
  <1>4. FindLeader(up) = CHOOSE f : f = body(f)
    BY DEF FindLeader
  <1>5. (CHOOSE f : f = body(f)) = body(CHOOSE f : f = body(f))
    BY <1>3
  <1> QED
    BY <1>4, <1>5

\* findLeaderSymbol returns the root of the tree a name is in, for every
\* forest.
THEOREM LeaderIsRoot ==
  ASSUME NEW up \in [Symbol -> Symbol], IsForest(up), NEW s \in Symbol
  PROVE  IsRootOf(up, s, FindLeader(up)[s])
PROOF
  <1> DEFINE L == FindLeader(up)
  <1>1. \A x \in Symbol : L[x] = IF up[x] = x THEN x ELSE L[up[x]]
    BY LeaderEquation
  <1> HIDE DEF L
  <1>2. PICK r \in Symbol : up[r] = r /\ Reaches(up, s, r)
    BY DEF IsForest
  <1> DEFINE T == {x \in Symbol : L[x] = L[s]}
  <1>3. ClosedUnder(up, T)
    BY <1>1 DEF ClosedUnder
  <1>4. r \in T
    BY <1>2, <1>3 DEF Reaches
  <1>5. L[s] = r
    BY <1>1, <1>2, <1>4
  <1> QED
    BY <1>2, <1>5 DEF IsRootOf, L

\* The root a name reaches is its leader.
LEMMA LeaderIs ==
  ASSUME NEW up \in [Symbol -> Symbol], IsForest(up), NEW s \in Symbol,
         NEW r, IsRootOf(up, s, r)
  PROVE  FindLeader(up)[s] = r
BY LeaderIsRoot, RootUnique

\* The facts about leaders that proofs about a forest use.
LEMMA LeaderFacts ==
  ASSUME NEW up \in [Symbol -> Symbol], IsForest(up)
  PROVE  /\ FindLeader(up) \in [Symbol -> Symbol]
         /\ \A s \in Symbol : /\ FindLeader(up)[s] \in Symbol
                              /\ up[FindLeader(up)[s]] = FindLeader(up)[s]
                              /\ FindLeader(up)[FindLeader(up)[s]] = FindLeader(up)[s]
                              /\ up[s] = s => FindLeader(up)[s] = s
                              /\ FindLeader(up)[up[s]] = FindLeader(up)[s]
PROOF
  <1> DEFINE L == FindLeader(up)
  <1>1. L = [x \in Symbol |-> IF up[x] = x THEN x ELSE L[up[x]]]
    BY LeaderEquation
  <1>2. \A s \in Symbol : L[s] \in Symbol /\ up[L[s]] = L[s]
    BY LeaderIsRoot DEF IsRootOf
  <1> HIDE DEF L
  <1>3. L \in [Symbol -> Symbol]
    BY <1>1, <1>2
  <1>4. \A s \in Symbol : L[L[s]] = L[s] /\ (up[s] = s => L[s] = s) /\ L[up[s]] = L[s]
    BY <1>1, <1>2
  <1> QED
    BY <1>2, <1>3, <1>4 DEF L

\* Before any union every name leads itself.
LEMMA NoUnionsLeader ==
  /\ NoUnions \in [Symbol -> Symbol]
  /\ IsForest(NoUnions)
  /\ FindLeader(NoUnions) = NoUnions
PROOF
  <1>1. NoUnions \in [Symbol -> Symbol] /\ \A s \in Symbol : NoUnions[s] = s
    BY DEF NoUnions
  <1>2. IsForest(NoUnions)
    BY <1>1 DEF IsForest, Reaches
  <1>3. FindLeader(NoUnions) = [s \in Symbol |->
          IF NoUnions[s] = s THEN s ELSE FindLeader(NoUnions)[NoUnions[s]]]
    BY <1>1, <1>2, LeaderEquation
  <1>4. FindLeader(NoUnions) = [s \in Symbol |-> s]
    BY <1>1, <1>3
  <1> QED
    BY <1>1, <1>2, <1>4 DEF NoUnions

(***************************************************************************)
(* One iteration of unionLeaderSymbols: linking a root below another root  *)
(* keeps the forest, gives the names the member led to the leader, and     *)
(* moves no other name.                                                    *)
(***************************************************************************)
THEOREM LinkMovesOneClass ==
  ASSUME NEW up \in [Symbol -> Symbol], IsForest(up),
         NEW l \in Symbol, NEW m \in Symbol, up[l] = l, up[m] = m, l # m
  PROVE  /\ Link(up, l, m) \in [Symbol -> Symbol]
         /\ IsForest(Link(up, l, m))
         /\ FindLeader(Link(up, l, m)) =
              [s \in Symbol |-> IF FindLeader(up)[s] = m THEN l
                                ELSE FindLeader(up)[s]]
PROOF
  <1> DEFINE L == FindLeader(up)
             p2 == Link(up, l, m)
  <1>1. /\ p2 \in [Symbol -> Symbol]
        /\ p2[m] = l
        /\ \A x \in Symbol : x # m => p2[x] = up[x]
    BY DEF Link
  <1>2. /\ L \in [Symbol -> Symbol]
        /\ \A x \in Symbol : /\ up[L[x]] = L[x]
                             /\ Reaches(up, x, L[x])
                             /\ L[up[x]] = L[x]
        /\ L[l] = l /\ L[m] = m
    BY LeaderFacts, LeaderIsRoot DEF IsRootOf
  <1> HIDE DEF L, p2
  <1>3. ASSUME NEW s \in Symbol, L[s] = m
        PROVE  IsRootOf(p2, s, l)
    <2>1. ASSUME NEW T \in SUBSET Symbol, s \in T, ClosedUnder(p2, T), l \notin T
          PROVE  FALSE
      <3>1. m \notin T
        BY <1>1, <2>1 DEF ClosedUnder
      <3>2. ClosedUnder(up, T)
        BY <1>1, <2>1, <3>1 DEF ClosedUnder
      <3> QED
        BY <1>2, <1>3, <2>1, <3>1, <3>2 DEF Reaches
    <2> QED
      BY <1>1, <2>1 DEF IsRootOf, Reaches
  <1>4. ASSUME NEW s \in Symbol, L[s] # m
        PROVE  IsRootOf(p2, s, L[s])
    <2>1. ASSUME NEW T \in SUBSET Symbol, s \in T, ClosedUnder(p2, T)
          PROVE  L[s] \in T
      <3> DEFINE U == {x \in T : L[x] = L[s]}
      <3>1. ClosedUnder(up, U)
        BY <1>1, <1>2, <1>4, <2>1 DEF ClosedUnder
      <3>2. L[s] \in U
        BY <1>2, <2>1, <3>1 DEF Reaches
      <3> QED
        BY <3>2
    <2>2. p2[L[s]] = L[s] /\ L[s] \in Symbol
      BY <1>1, <1>2, <1>4
    <2> QED
      BY <2>1, <2>2 DEF IsRootOf, Reaches
  <1>5. IsForest(p2)
    <2> SUFFICES ASSUME NEW s \in Symbol
                 PROVE  \E r \in Symbol : p2[r] = r /\ Reaches(p2, s, r)
      BY DEF IsForest
    <2> QED
      BY <1>3, <1>4 DEF IsRootOf
  <1>6. \A s \in Symbol : FindLeader(p2)[s] = IF L[s] = m THEN l ELSE L[s]
    <2> SUFFICES ASSUME NEW s \in Symbol
                 PROVE  FindLeader(p2)[s] = IF L[s] = m THEN l ELSE L[s]
      OBVIOUS
    <2>1. CASE L[s] = m
      BY <2>1, <1>1, <1>3, <1>5, LeaderIs
    <2>2. CASE L[s] # m
      BY <2>2, <1>1, <1>4, <1>5, LeaderIs
    <2> QED
      BY <2>1, <2>2
  <1>7. FindLeader(p2) \in [Symbol -> Symbol]
    BY <1>1, <1>5, LeaderFacts
  <1> QED
    BY <1>1, <1>5, <1>6, <1>7 DEF L, p2

-----------------------------------------------------------------------------
\* What rewriting references to leaders does to a term.

\* The fields of a term and the names it uses.
LEMMA TermFields ==
  ASSUME NEW t \in Term
  PROVE  /\ t.op \in Op
         /\ Arity[t.op] \in Nat
         /\ t.args \in [1..Arity[t.op] -> Symbol]
         /\ t = [op |-> t.op, args |-> t.args]
         /\ \A i \in 1..Arity[t.op] : t.args[i] \in Uses(t)
         /\ Uses(t) \subseteq Symbol
BY ConstantsOK DEF Term, Uses

\* The canonical form of a term is a term, of the leaders of its operands.
LEMMA CanonTerm ==
  ASSUME NEW leader \in [Symbol -> Symbol], NEW t \in Term
  PROVE  /\ Canon(leader, t) \in Term
         /\ Canon(leader, t).op = t.op
         /\ Canon(leader, t).args = [i \in 1..Arity[t.op] |-> leader[t.args[i]]]
         /\ \A u \in Uses(Canon(leader, t)) : \E v \in Uses(t) : u = leader[v]
PROOF
  <1>1. t.op \in Op /\ t.args \in [1..Arity[t.op] -> Symbol]
    BY TermFields
  <1>2. /\ Canon(leader, t).op = t.op
        /\ Canon(leader, t).args = [i \in 1..Arity[t.op] |-> leader[t.args[i]]]
    BY DEF Canon
  <1>3. [i \in 1..Arity[t.op] |-> leader[t.args[i]]] \in [1..Arity[t.op] -> Symbol]
    BY <1>1
  <1>4. Canon(leader, t) \in [op : {t.op}, args : [1..Arity[t.op] -> Symbol]]
    BY <1>3 DEF Canon
  <1>5. Canon(leader, t) \in Term
    BY <1>1, <1>4 DEF Term
  <1>6. \A u \in Uses(Canon(leader, t)) : \E v \in Uses(t) : u = leader[v]
    <2> DEFINE c == Canon(leader, t)
    <2>1. Uses(c) = {c.args[i] : i \in 1..Arity[t.op]}
      BY <1>2 DEF Uses
    <2>2. \A i \in 1..Arity[t.op] : c.args[i] = leader[t.args[i]] /\ t.args[i] \in Uses(t)
      BY <1>2, TermFields
    <2> HIDE DEF c
    <2>3. \A u \in Uses(c) : \E v \in Uses(t) : u = leader[v]
      BY <2>1, <2>2
    <2> QED
      BY <2>3 DEF c
  <1> QED
    BY <1>2, <1>5, <1>6

\* Leaders of the same type keep a term well-typed.
LEMMA CanonWellTyped ==
  ASSUME NEW leader \in [Symbol -> Symbol], NEW t \in Term, WellTyped(t),
         \A s \in Symbol : TypeOf[leader[s]] = TypeOf[s]
  PROVE  WellTyped(Canon(leader, t))
PROOF
  <1> DEFINE c == Canon(leader, t)
  <1>1. c.op = t.op /\ \A i \in 1..Arity[t.op] : c.args[i] = leader[t.args[i]]
    BY DEF Canon
  <1>2. \A i \in 1..Arity[t.op] : /\ t.args[i] \in Symbol
                                  /\ TypeOf[t.args[i]] = OperandType[t.op][i]
    BY TermFields DEF WellTyped
  <1> HIDE DEF c
  <1>3. WellTyped(c)
    BY <1>1, <1>2 DEF WellTyped
  <1> QED
    BY <1>3 DEF c

\* Every entry of the table has an owner of its key.
LEMMA IndexEntries ==
  ASSUME NEW leader \in [Symbol -> Symbol], NEW candidates \in [Symbol -> SUBSET Term]
  PROVE  /\ \A k : k \in DOMAIN Index(leader, candidates) <=>
                     \E s \in Symbol : \E t \in candidates[s] : k = Canon(leader, t)
         /\ DOMAIN Index(leader, candidates) \subseteq Term
         /\ \A k \in DOMAIN Index(leader, candidates) :
              /\ Index(leader, candidates)[k] \in Symbol
              /\ \E t \in candidates[Index(leader, candidates)[k]] : Canon(leader, t) = k
PROOF
  <1> DEFINE D == UNION {{Canon(leader, t) : t \in candidates[s]} : s \in Symbol}
  <1>1. /\ DOMAIN Index(leader, candidates) = D
        /\ \A k \in D : Index(leader, candidates)[k] = First(Owners(leader, candidates, k))
    BY DEF Index
  <1>2. \A k : k \in D <=> \E s \in Symbol : \E t \in candidates[s] : k = Canon(leader, t)
    OBVIOUS
  <1>3. D \subseteq Term
    <2> SUFFICES ASSUME NEW s \in Symbol, NEW t \in candidates[s]
                 PROVE  Canon(leader, t) \in Term
      BY <1>2
    <2> QED
      BY CanonTerm
  <1>4. \A k \in D : First(Owners(leader, candidates, k)) \in Owners(leader, candidates, k)
    BY <1>2, FirstOK DEF Owners
  <1> HIDE DEF D
  <1> QED
    BY <1>1, <1>2, <1>3, <1>4 DEF Owners

\* Keys of a table just built, and their entries, are names of the block.
LEMMA IndexInBlock ==
  ASSUME NEW leader \in [Symbol -> Symbol], NEW candidates \in [Symbol -> SUBSET Term],
         NEW block, \A s \in block : leader[s] \in block,
         \A s \in Symbol : \A t \in candidates[s] : s \in block /\ Uses(t) \subseteq block
  PROVE  \A k \in DOMAIN Index(leader, candidates) :
           Uses(k) \subseteq block /\ Index(leader, candidates)[k] \in block
PROOF
  <1> SUFFICES ASSUME NEW k \in DOMAIN Index(leader, candidates)
               PROVE  Uses(k) \subseteq block /\ Index(leader, candidates)[k] \in block
    OBVIOUS
  <1> DEFINE o == Index(leader, candidates)[k]
  <1>1. o \in Symbol /\ \E t \in candidates[o] : Canon(leader, t) = k
    BY IndexEntries
  <1>2. PICK t \in candidates[o] : Canon(leader, t) = k
    BY <1>1
  <1> HIDE DEF o
  <1>3. t \in Term /\ o \in block /\ Uses(t) \subseteq block
    BY <1>1
  <1>4. \A u \in Uses(k) : \E v \in Uses(t) : u = leader[v]
    BY <1>2, <1>3, CanonTerm
  <1> QED
    BY <1>3, <1>4 DEF o

-----------------------------------------------------------------------------
\* Leaders are names, and their own leaders.
LEMMA LeaderProps ==
  ASSUME TypeOK, UnionForest
  PROVE  /\ Leader \in [Symbol -> Symbol]
         /\ \A s \in Symbol : /\ Leader[s] \in Symbol
                              /\ parent[Leader[s]] = Leader[s]
                              /\ Leader[Leader[s]] = Leader[s]
                              /\ parent[s] = s => Leader[s] = s
BY LeaderFacts DEF TypeOK, UnionForest, Leader

\* The leader of a name in the block is in the block.
LEMMA LeaderDefined ==
  ASSUME Inv, NEW s \in defined
  PROVE  s \in Symbol /\ Leader[s] \in defined
BY LeaderProps DEF Inv, LeadersSound, TypeOK

\* The pairs a call is given are valid, in the order getUnionSymbolPair chose.
LEMMA UnionPairValid ==
  ASSUME Inv, NEW l \in Symbol, NEW r \in Symbol, CanUnite(Leader, l, r)
  PROVE  /\ UnionPair(Leader, l, r) \in Symbol \X Symbol
         /\ CanUnite(Leader, UnionPair(Leader, l, r)[1], UnionPair(Leader, l, r)[2])
BY LeaderProps DEF Inv, CanUnite, UnionPair

\* Bodies as given verify.
LEMMA InitInv == Init => Inv
PROOF
  <1> SUFFICES ASSUME Init PROVE Inv
    OBVIOUS
  <1>1. PICK g \in Graphs :
          /\ defined = g.defined /\ terms = g.terms /\ aliases = g.aliases
          /\ targets = g.targets /\ parent = NoUnions
          /\ hashcons = Index(FindLeader(NoUnions), g.terms)
          /\ touched = {} /\ pc = "idle" /\ work = {} /\ changed = FALSE
    BY DEF Init
  <1>2. IsBody(g)
    BY ConstantsOK
  <1>3. /\ NoUnions \in [Symbol -> Symbol] /\ IsForest(NoUnions)
        /\ Leader = NoUnions /\ \A s \in Symbol : Leader[s] = s
    BY <1>1, NoUnionsLeader DEF Leader, NoUnions
  <1>4. TypeOK
    <2>1. /\ defined \in SUBSET Symbol /\ terms \in [Symbol -> SUBSET Term]
          /\ aliases \in [Symbol -> SUBSET Symbol] /\ targets \in [Slot -> Symbol]
      BY <1>1, <1>2 DEF IsBody
    <2>2. hashcons = Index(Leader, terms)
      BY <1>1 DEF Leader
    <2>3. /\ DOMAIN hashcons \subseteq Term
          /\ \A k \in DOMAIN hashcons : hashcons[k] \in Symbol
      BY <2>1, <2>2, <1>3, IndexEntries
    <2> QED
      BY <1>1, <1>3, <2>1, <2>3 DEF TypeOK
  <1>5. UnionForest
    BY <1>1, <1>3 DEF UnionForest
  <1>6. LeadersSound
    BY <1>1, <1>2, <1>3 DEF LeadersSound, IsBody
  <1>7. PendingPairsValid
    BY <1>1 DEF PendingPairsValid
  <1>8. IRVerifies
    BY <1>1, <1>2 DEF IRVerifies, IsBody, EClass
  <1> QED
    BY <1>4, <1>5, <1>6, <1>7, <1>8 DEF Inv

\* Choosing the pairs of a call keeps Inv.
LEMMA UnionValueTuplesInv ==
  ASSUME Inv, NEW P \in SUBSET (defined \X defined), UnionValueTuples(P)
  PROVE  Inv'
PROOF
  <1>1. /\ UNCHANGED <<defined, terms, aliases, targets, parent, hashcons, touched, changed>>
        /\ work' = {UnionPair(Leader, p[1], p[2]) : p \in P}
        /\ pc' = "union"
        /\ \A p \in P : CanUnite(Leader, p[1], p[2])
    BY DEF UnionValueTuples, ir
  <1>2. Leader' = Leader
    BY <1>1 DEF Leader
  <1>3. \A p \in P : p[1] \in Symbol /\ p[2] \in Symbol
    BY DEF Inv, TypeOK
  <1>4. \A q \in work' : q \in Symbol \X Symbol /\ CanUnite(Leader, q[1], q[2])
    BY <1>1, <1>3, UnionPairValid
  <1>5. TypeOK'
    BY <1>1, <1>4 DEF Inv, TypeOK
  <1>6. UnionForest'
    BY <1>1 DEF Inv, UnionForest
  <1>7. LeadersSound'
    BY <1>1, <1>2 DEF Inv, LeadersSound
  <1>8. PendingPairsValid'
    BY <1>1, <1>2, <1>4 DEF PendingPairsValid, CanUnite
  <1>9. IRVerifies'
    BY <1>1 DEF Inv, IRVerifies
  <1> QED
    BY <1>5, <1>6, <1>7, <1>8, <1>9 DEF Inv

\* Uniting one of them does, stale or not.
LEMMA UnionLeaderSymbolsInv ==
  ASSUME Inv, NEW p \in work, UnionLeaderSymbols(p)
  PROVE  Inv'
PROOF
  <1> DEFINE l == Leader[p[1]]
             m == Leader[p[2]]
  <1>1. /\ UNCHANGED <<defined, terms, aliases, targets, hashcons>>
        /\ work' = work \ {p}
        /\ pc' \in {"idle", "union", "collide"}
        /\ \/ UNCHANGED <<parent, touched, changed>>
           \/ /\ l # m /\ parent' = Link(parent, l, m)
              /\ touched' = touched \cup {l, m} /\ changed' = (pc = "collide")
    BY DEF UnionLeaderSymbols, ir
  <1>2. /\ p[1] \in Symbol /\ p[2] \in Symbol
        /\ CanUnite(Leader, p[1], p[2])
    BY DEF Inv, TypeOK, PendingPairsValid
  <1>3. /\ l \in Symbol /\ m \in Symbol /\ parent[l] = l /\ parent[m] = m
        /\ l \in defined /\ m \in defined /\ TypeOf[l] = TypeOf[m]
    BY <1>2, LeaderProps DEF Inv, CanUnite
  <1>4. /\ parent' \in [Symbol -> Symbol] /\ IsForest(parent')
        /\ touched' \in SUBSET Symbol /\ changed' \in BOOLEAN
        /\ \/ parent' = parent /\ Leader' = Leader
           \/ /\ parent' = Link(parent, l, m)
              /\ \A s \in Symbol : Leader'[s] = IF Leader[s] = m THEN l ELSE Leader[s]
    <2>1. CASE UNCHANGED <<parent, touched, changed>>
      BY <2>1 DEF Inv, TypeOK, UnionForest, Leader
    <2>2. CASE /\ l # m /\ parent' = Link(parent, l, m)
               /\ touched' = touched \cup {l, m} /\ changed' = (pc = "collide")
      <3>1. /\ parent' \in [Symbol -> Symbol] /\ IsForest(parent')
            /\ Leader' = [s \in Symbol |-> IF Leader[s] = m THEN l ELSE Leader[s]]
        BY <2>2, <1>3, LinkMovesOneClass DEF Inv, TypeOK, UnionForest, Leader
      <3> QED
        BY <2>2, <3>1, <1>3 DEF Inv, TypeOK
    <2> QED
      BY <1>1, <2>1, <2>2
  <1>5. \A s \in Symbol : parent'[s] # s => parent[s] # s \/ s = m
    BY <1>3, <1>4 DEF Link, Inv, TypeOK
  <1>6. \A s \in Symbol : Leader'[s] = Leader[s] \/ (Leader[s] = m /\ Leader'[s] = l)
    BY <1>4
  <1> HIDE DEF l, m
  <1>7. TypeOK'
    BY <1>1, <1>4 DEF Inv, TypeOK
  <1>8. UnionForest'
    BY <1>4 DEF UnionForest
  <1>9. LeadersSound'
    <2> SUFFICES ASSUME NEW s \in Symbol
                 PROVE  /\ parent'[s] # s => Leader'[s] \in defined
                        /\ TypeOf[Leader'[s]] = TypeOf[s]
                        /\ Leader'[s] = s /\ s \in EClass \cap defined =>
                             HasCandidates(terms, aliases, s)
      BY <1>1 DEF LeadersSound
    <2>1. /\ parent[s] # s => Leader[s] \in defined
          /\ TypeOf[Leader[s]] = TypeOf[s]
          /\ Leader[s] = s /\ s \in EClass \cap defined => HasCandidates(terms, aliases, s)
      BY DEF Inv, LeadersSound
    <2>2. Leader[m] = m /\ Leader[l] = l
      BY <1>3, LeaderProps DEF Inv
    <2>3. Leader'[s] = s => Leader[s] = s
      BY <1>6, <2>2
    <2>4. parent'[s] # s => Leader'[s] \in defined
      BY <1>3, <1>5, <1>6, <2>1, <2>2
    <2> QED
      BY <1>3, <1>6, <2>1, <2>3, <2>4
  <1>10. PendingPairsValid'
    <2> SUFFICES ASSUME NEW q \in work
                 PROVE  /\ {q[1], q[2], Leader'[q[1]], Leader'[q[2]]} \subseteq defined
                        /\ TypeOf[Leader'[q[1]]] = TypeOf[Leader'[q[2]]]
      BY <1>1 DEF PendingPairsValid, CanUnite
    <2>1. q[1] \in Symbol /\ q[2] \in Symbol /\ CanUnite(Leader, q[1], q[2])
      BY DEF Inv, TypeOK, PendingPairsValid
    <2> QED
      BY <2>1, <1>3, <1>6 DEF CanUnite
  <1>11. IRVerifies'
    BY <1>1 DEF Inv, IRVerifies
  <1> QED
    BY <1>7, <1>8, <1>9, <1>10, <1>11 DEF Inv

\* Interning keeps Inv.
LEMMA InternInv ==
  ASSUME Inv, NEW t \in Term, NEW n \in Symbol, Intern(t, n)
  PROVE  Inv'
PROOF
  <1> DEFINE key == Canon(Leader, t)
  <1>1. /\ UNCHANGED <<aliases, targets, parent, touched, pc, work, changed>>
        /\ Uses(t) \subseteq defined /\ WellTyped(t)
        /\ n \in EClass /\ n \notin defined /\ parent[n] = n
        /\ TypeOf[n] = ResultType[t.op]
        /\ defined' = defined \cup {n}
        /\ terms' = [terms EXCEPT ![n] = {key}]
        /\ hashcons' = [k \in DOMAIN hashcons \cup {key} |->
                          IF k = key THEN n ELSE hashcons[k]]
    BY DEF Intern, IsFresh
  <1>2. Leader' = Leader
    BY <1>1 DEF Leader
  <1>3. /\ Leader \in [Symbol -> Symbol]
        /\ \A s \in Symbol : TypeOf[Leader[s]] = TypeOf[s]
    BY LeaderProps DEF Inv, LeadersSound
  <1>4. key \in Term /\ key.op = t.op /\ WellTyped(key)
    BY <1>1, <1>3, CanonTerm, CanonWellTyped
  <1>5. Uses(key) \subseteq defined
    <2>1. \A u \in Uses(key) : \E v \in Uses(t) : u = Leader[v]
      BY <1>3, CanonTerm
    <2> QED
      BY <1>1, <2>1, LeaderDefined
  <1> HIDE DEF key
  <1>6. terms' \in [Symbol -> SUBSET Term] /\ terms'[n] = {key}
        /\ \A s \in Symbol : s # n => terms'[s] = terms[s]
    BY <1>1, <1>4 DEF Inv, TypeOK
  <1>7. TypeOK'
    <2>1. DOMAIN hashcons' \subseteq Term /\ \A k \in DOMAIN hashcons' : hashcons'[k] \in Symbol
      BY <1>1, <1>4 DEF Inv, TypeOK
    <2> QED
      BY <1>1, <1>6, <2>1 DEF Inv, TypeOK
  <1>8. UnionForest'
    BY <1>1 DEF Inv, UnionForest
  <1>9. LeadersSound'
    BY <1>1, <1>2, <1>6 DEF Inv, LeadersSound
  <1>10. PendingPairsValid'
    BY <1>1, <1>2 DEF Inv, PendingPairsValid, CanUnite
  <1>11. IRVerifies'
    <2> SUFFICES ASSUME NEW s \in Symbol
                 PROVE  /\ HasCandidates(terms', aliases, s) => s \in EClass \cap defined'
                        /\ \A u \in terms'[s] : /\ Uses(u) \subseteq defined'
                                                /\ WellTyped(u)
                                                /\ ResultType[u.op] = TypeOf[s]
                        /\ \A m \in aliases[s] : m \in defined' /\ TypeOf[m] = TypeOf[s]
      BY <1>1 DEF Inv, IRVerifies
    <2>1. CASE s = n
      BY <2>1, <1>1, <1>4, <1>5, <1>6 DEF Inv, IRVerifies
    <2>2. CASE s # n
      BY <2>2, <1>1, <1>6 DEF Inv, IRVerifies
    <2> QED
      BY <2>1, <2>2
  <1> QED
    BY <1>7, <1>8, <1>9, <1>10, <1>11 DEF Inv

\* Rewriting every candidate to leaders keeps what the verifiers check.
LEMMA RewriteVerifies ==
  ASSUME Inv, NEW rewritten,
         rewritten = [s \in Symbol |-> {Canon(Leader, t) : t \in terms[s]}]
  PROVE  /\ rewritten \in [Symbol -> SUBSET Term]
         /\ \A s \in Symbol :
              /\ rewritten[s] = {} <=> terms[s] = {}
              /\ \A u \in rewritten[s] : /\ Uses(u) \subseteq defined
                                         /\ WellTyped(u)
                                         /\ ResultType[u.op] = TypeOf[s]
PROOF
  <1>1. /\ Leader \in [Symbol -> Symbol]
        /\ \A s \in Symbol : TypeOf[Leader[s]] = TypeOf[s]
    BY LeaderProps DEF Inv, LeadersSound
  <1>2. ASSUME NEW s \in Symbol, NEW t \in terms[s]
        PROVE  /\ Canon(Leader, t) \in Term
               /\ Uses(Canon(Leader, t)) \subseteq defined
               /\ WellTyped(Canon(Leader, t))
               /\ ResultType[Canon(Leader, t).op] = TypeOf[s]
    <2>1. /\ t \in Term /\ Uses(t) \subseteq defined /\ WellTyped(t)
          /\ ResultType[t.op] = TypeOf[s]
      BY DEF Inv, TypeOK, IRVerifies
    <2>2. /\ Canon(Leader, t) \in Term /\ Canon(Leader, t).op = t.op
          /\ \A u \in Uses(Canon(Leader, t)) : \E v \in Uses(t) : u = Leader[v]
      BY <1>1, <2>1, CanonTerm
    <2>3. WellTyped(Canon(Leader, t))
      BY <1>1, <2>1, CanonWellTyped
    <2> QED
      BY <2>1, <2>2, <2>3, LeaderDefined
  <1> QED
    BY <1>2

\* Every collision is a pair that getUnionSymbolPair accepts.
LEMMA CollisionsValid ==
  ASSUME Inv, NEW candidates \in [Symbol -> SUBSET Term],
         \A s \in Symbol : \A u \in candidates[s] :
            s \in defined /\ ResultType[u.op] = TypeOf[s],
         NEW q \in Collisions(Leader, Index(Leader, candidates), candidates)
  PROVE  q \in Symbol \X Symbol /\ CanUnite(Leader, q[1], q[2])
PROOF
  <1> DEFINE table == Index(Leader, candidates)
  <1>1. PICK s \in Symbol : \E u \in candidates[s] :
          q = UnionPair(Leader, table[Canon(Leader, u)], s)
    BY DEF Collisions
  <1>2. PICK t \in candidates[s] : q = UnionPair(Leader, table[Canon(Leader, t)], s)
    BY <1>1
  <1> DEFINE k == Canon(Leader, t)
             e == table[k]
  <1>3. Leader \in [Symbol -> Symbol]
    BY LeaderProps DEF Inv
  <1>4. k \in DOMAIN table
    BY <1>3, IndexEntries
  <1>5. e \in Symbol /\ \E u \in candidates[e] : Canon(Leader, u) = k
    BY <1>3, <1>4, IndexEntries
  <1>6. PICK u \in candidates[e] : Canon(Leader, u) = k
    BY <1>5
  <1>7. u.op = t.op
    BY <1>6 DEF Canon
  <1>8. /\ e \in defined /\ s \in defined
        /\ TypeOf[e] = TypeOf[s]
    BY <1>5, <1>6, <1>7
  <1>9. q = UnionPair(Leader, e, s)
    BY <1>2
  <1> HIDE DEF e, table, k
  <1>10. CanUnite(Leader, e, s)
    BY <1>5, <1>8, LeaderDefined DEF CanUnite, Inv, LeadersSound
  <1> QED
    BY <1>5, <1>9, <1>10, UnionPairValid

\* A round of a rebuild keeps Inv.
LEMMA RebuildRoundInv ==
  ASSUME Inv, RebuildRound
  PROVE  Inv'
PROOF
  <1> DEFINE rewritten == [s \in Symbol |-> {Canon(Leader, t) : t \in terms[s]}]
             table == Index(Leader, rewritten)
  <1>1. /\ UNCHANGED <<defined, aliases, parent, touched>>
        /\ terms' = rewritten
        /\ targets' = [i \in Slot |-> Leader[targets[i]]]
        /\ hashcons' = table
        /\ work' = Collisions(Leader, table, rewritten)
        /\ changed' = FALSE
        /\ pc' = "collide"
    BY DEF RebuildRound
  <1>2. Leader' = Leader
    BY <1>1 DEF Leader
  <1>3. Leader \in [Symbol -> Symbol]
    BY LeaderProps DEF Inv
  <1>4. /\ rewritten \in [Symbol -> SUBSET Term]
        /\ \A s \in Symbol :
             /\ rewritten[s] = {} <=> terms[s] = {}
             /\ \A u \in rewritten[s] : /\ Uses(u) \subseteq defined
                                        /\ WellTyped(u)
                                        /\ ResultType[u.op] = TypeOf[s]
    BY RewriteVerifies
  <1> HIDE DEF rewritten
  <1>5. \A s \in Symbol : rewritten[s] # {} => s \in defined
    BY <1>4 DEF Inv, IRVerifies
  <1>6. \A q \in work' : q \in Symbol \X Symbol /\ CanUnite(Leader, q[1], q[2])
    BY <1>1, <1>4, <1>5, CollisionsValid
  <1>7. DOMAIN table \subseteq Term /\ \A k \in DOMAIN table : table[k] \in Symbol
    BY <1>3, <1>4, IndexEntries
  <1> HIDE DEF table
  <1>8. \A i \in Slot : Leader[targets[i]] \in defined
    BY LeaderDefined DEF Inv, IRVerifies
  <1>9. TypeOK'
    BY <1>1, <1>4, <1>6, <1>7, <1>8 DEF Inv, TypeOK
  <1>10. UnionForest'
    BY <1>1 DEF Inv, UnionForest
  <1>11. LeadersSound'
    BY <1>1, <1>2, <1>4 DEF Inv, LeadersSound
  <1>12. PendingPairsValid'
    BY <1>1, <1>2, <1>6 DEF PendingPairsValid, CanUnite
  <1>13. IRVerifies'
    BY <1>1, <1>4, <1>8 DEF Inv, IRVerifies
  <1> QED
    BY <1>9, <1>10, <1>11, <1>12, <1>13 DEF Inv

(***************************************************************************)
(* Absorbing moves candidates to a leader of the same type and leaves no   *)
(* leader empty.                                                           *)
(***************************************************************************)
LEMMA AbsorbVerifies ==
  ASSUME Inv
  PROVE  LET T == AbsorbedTerms(Leader)
             A == AbsorbedAliases(Leader)
         IN  /\ T \in [Symbol -> SUBSET Term] /\ A \in [Symbol -> SUBSET Symbol]
             /\ \A s \in Symbol :
                  /\ HasCandidates(T, A, s) => s \in EClass \cap defined
                  /\ \A t \in T[s] : \E m \in defined : (Leader[m] = s \/ m = s) /\ t \in terms[m]
                  /\ \A t \in T[s] : /\ Uses(t) \subseteq defined /\ WellTyped(t)
                                     /\ ResultType[t.op] = TypeOf[s]
                  /\ \A m \in A[s] : m \in defined /\ TypeOf[m] = TypeOf[s]
                  /\ Leader[s] = s /\ s \in EClass \cap defined => HasCandidates(T, A, s)
PROOF
  <1> DEFINE T == AbsorbedTerms(Leader)
             A == AbsorbedAliases(Leader)
  <1>1. /\ Leader \in [Symbol -> Symbol]
        /\ \A s \in Symbol : TypeOf[Leader[s]] = TypeOf[s]
        /\ \A s \in Symbol : parent[s] = s => Leader[s] = s
        /\ \A s \in Symbol : parent[s] # s => Leader[s] \in defined
    BY LeaderProps DEF Inv, LeadersSound
  <1>2. /\ defined \subseteq Symbol /\ terms \in [Symbol -> SUBSET Term]
        /\ aliases \in [Symbol -> SUBSET Symbol]
    BY DEF Inv, TypeOK
  <1>3. \A s \in Symbol : s \notin EClass \cap defined => terms[s] = {} /\ aliases[s] = {}
    BY DEF Inv, IRVerifies
  <1>4. ASSUME NEW s \in Symbol
        PROVE  /\ T[s] \in SUBSET Term /\ A[s] \in SUBSET Symbol
               /\ \A t \in T[s] : /\ s \in EClass
                                  /\ \E m \in defined : (Leader[m] = s \/ m = s) /\ t \in terms[m]
               /\ \A n \in A[s] : \/ /\ s \in EClass
                                     /\ \E m \in defined : (Leader[m] = s \/ m = s) /\ n \in aliases[m]
                                  \/ s \in EClass /\ n \in defined /\ Leader[n] = s
    <2>1. CASE IsAbsorbed(Leader, s)
      BY <2>1 DEF AbsorbedTerms, AbsorbedAliases
    <2>2. CASE ~IsAbsorbed(Leader, s) /\ s \notin EClass
      BY <2>2, <1>3, <1>2 DEF AbsorbedTerms, AbsorbedAliases
    <2>3. CASE ~IsAbsorbed(Leader, s) /\ s \in EClass
      <3>1. /\ T[s] = UNION {terms[m] : m \in Members(Leader, s) \cup {s}}
            /\ A[s] = (UNION {aliases[m] : m \in Members(Leader, s) \cup {s}})
                        \cup (Members(Leader, s) \cap Input)
        BY <2>3 DEF AbsorbedTerms, AbsorbedAliases
      <3>2. Members(Leader, s) \subseteq defined
            /\ \A m \in Members(Leader, s) : Leader[m] = s
        BY DEF Members
      <3>3. \A m \in Members(Leader, s) \cup {s} :
              /\ m \in Symbol
              /\ Leader[m] = s \/ m = s
              /\ HasCandidates(terms, aliases, m) => m \in defined
        BY <3>2, <1>2, <1>3
      <3> HIDE DEF T, A
      <3>4. T[s] \in SUBSET Term
            /\ \A t \in T[s] : \E m \in defined : (Leader[m] = s \/ m = s) /\ t \in terms[m]
        <4> SUFFICES ASSUME NEW t \in T[s]
                     PROVE  /\ t \in Term
                            /\ \E m \in defined : (Leader[m] = s \/ m = s) /\ t \in terms[m]
          OBVIOUS
        <4>1. PICK m \in Members(Leader, s) \cup {s} : t \in terms[m]
          BY <3>1
        <4> QED
          BY <4>1, <3>3, <1>2
      <3>5. ASSUME NEW n \in A[s]
            PROVE  /\ n \in Symbol
                   /\ \/ \E m \in defined : (Leader[m] = s \/ m = s) /\ n \in aliases[m]
                      \/ n \in defined /\ Leader[n] = s
        <4>1. CASE n \in Members(Leader, s) \cap Input
          BY <4>1, <3>2, <1>2
        <4>2. CASE \E m \in Members(Leader, s) \cup {s} : n \in aliases[m]
          <5>1. PICK m \in Members(Leader, s) \cup {s} : n \in aliases[m]
            BY <4>2
          <5> QED
            BY <5>1, <3>3, <1>2
        <4>3. n \in (UNION {aliases[m] : m \in Members(Leader, s) \cup {s}})
                      \cup (Members(Leader, s) \cap Input)
          BY <3>1, <3>5
        <4>4. \/ n \in Members(Leader, s) \cap Input
              \/ \E m \in Members(Leader, s) \cup {s} : n \in aliases[m]
          <5> DEFINE M == Members(Leader, s)
          <5> HIDE DEF M
          <5>1. n \in (UNION {aliases[m] : m \in M \cup {s}}) \cup (M \cap Input)
            BY <4>3 DEF M
          <5>2. n \in M \cap Input \/ \E m \in M \cup {s} : n \in aliases[m]
            BY <5>1
          <5> QED
            BY <5>2 DEF M
        <4> QED
          BY <4>1, <4>2, <4>4
      <3> QED
        BY <3>4, <3>5, <2>3
    <2> QED
      BY <2>1, <2>2, <2>3
  <1>5. ASSUME NEW s \in Symbol, Leader[s] = s, s \in EClass \cap defined
        PROVE  terms[s] \subseteq T[s] /\ aliases[s] \subseteq A[s]
    <2>1. ~IsAbsorbed(Leader, s)
      BY <1>5 DEF IsAbsorbed
    <2>2. /\ T[s] = UNION {terms[m] : m \in Members(Leader, s) \cup {s}}
          /\ A[s] = (UNION {aliases[m] : m \in Members(Leader, s) \cup {s}})
                      \cup (Members(Leader, s) \cap Input)
      BY <1>5, <2>1 DEF AbsorbedTerms, AbsorbedAliases
    <2> QED
      BY <2>2
  <1>6. T \in [Symbol -> SUBSET Term] /\ A \in [Symbol -> SUBSET Symbol]
    <2>1. /\ T = [s \in Symbol |-> T[s]]
          /\ A = [s \in Symbol |-> A[s]]
      BY DEF AbsorbedTerms, AbsorbedAliases
    <2> QED
      BY <1>4, <2>1
  <1> HIDE DEF T, A
  <1>7. ASSUME NEW s \in Symbol
        PROVE  /\ HasCandidates(T, A, s) => s \in EClass \cap defined
               /\ \A t \in T[s] : /\ Uses(t) \subseteq defined /\ WellTyped(t)
                                  /\ ResultType[t.op] = TypeOf[s]
               /\ \A n \in A[s] : n \in defined /\ TypeOf[n] = TypeOf[s]
               /\ Leader[s] = s /\ s \in EClass \cap defined => HasCandidates(T, A, s)
    <2>1. \A m \in defined : Leader[m] = s => s \in defined
      BY LeaderDefined
    <2>2. \A t \in T[s] : /\ Uses(t) \subseteq defined /\ WellTyped(t)
                          /\ ResultType[t.op] = TypeOf[s] /\ s \in EClass \cap defined
      <3> SUFFICES ASSUME NEW t \in T[s]
                   PROVE  /\ Uses(t) \subseteq defined /\ WellTyped(t)
                          /\ ResultType[t.op] = TypeOf[s] /\ s \in EClass \cap defined
        OBVIOUS
      <3>1. PICK m \in defined : (Leader[m] = s \/ m = s) /\ t \in terms[m]
        BY <1>4
      <3>2. /\ Uses(t) \subseteq defined /\ WellTyped(t) /\ ResultType[t.op] = TypeOf[m]
        BY <3>1, <1>2 DEF Inv, IRVerifies
      <3> QED
        BY <3>1, <3>2, <2>1, <1>1, <1>2, <1>4
    <2>3. \A n \in A[s] : n \in defined /\ TypeOf[n] = TypeOf[s] /\ s \in EClass \cap defined
      <3> SUFFICES ASSUME NEW n \in A[s]
                   PROVE  n \in defined /\ TypeOf[n] = TypeOf[s] /\ s \in EClass \cap defined
        OBVIOUS
      <3>1. CASE n \in defined /\ Leader[n] = s
        BY <3>1, <2>1, <1>1, <1>2, <1>4
      <3>2. CASE \E m \in defined : (Leader[m] = s \/ m = s) /\ n \in aliases[m]
        <4>1. PICK m \in defined : (Leader[m] = s \/ m = s) /\ n \in aliases[m]
          BY <3>2
        <4>2. n \in defined /\ TypeOf[n] = TypeOf[m]
          BY <4>1, <1>2 DEF Inv, IRVerifies
        <4> QED
          BY <4>1, <4>2, <2>1, <1>1, <1>2, <1>4
      <3> QED
        BY <1>4, <3>1, <3>2
    <2>4. Leader[s] = s /\ s \in EClass \cap defined => HasCandidates(T, A, s)
      BY <1>5 DEF Inv, LeadersSound
    <2> QED
      BY <2>2, <2>3, <2>4
  <1> QED
    BY <1>4, <1>6, <1>7 DEF T, A

\* The end of a rebuild keeps Inv: no erased name is referenced.
LEMMA RebuildFinishInv ==
  ASSUME Inv, RebuildFinish
  PROVE  Inv'
PROOF
  <1> DEFINE T == AbsorbedTerms(Leader)
             A == AbsorbedAliases(Leader)
             R == [i \in Slot |-> Leader[targets[i]]]
             dead == {s \in Symbol : IsDead(s, T, A, R)}
  <1>1. /\ terms' = T /\ aliases' = A /\ targets' = R
        /\ defined' = defined \ dead
        /\ hashcons' = Index(Leader, T)
        /\ touched' = {} /\ pc' = "idle" /\ work = {}
        /\ UNCHANGED <<parent, work, changed>>
    BY DEF RebuildFinish
  <1>2. Leader' = Leader
    BY <1>1 DEF Leader
  <1>3. /\ T \in [Symbol -> SUBSET Term] /\ A \in [Symbol -> SUBSET Symbol]
        /\ \A s \in Symbol :
             /\ HasCandidates(T, A, s) => s \in EClass \cap defined
             /\ \A t \in T[s] : /\ Uses(t) \subseteq defined /\ WellTyped(t)
                                /\ ResultType[t.op] = TypeOf[s]
             /\ \A m \in A[s] : m \in defined /\ TypeOf[m] = TypeOf[s]
             /\ Leader[s] = s /\ s \in EClass \cap defined => HasCandidates(T, A, s)
    BY AbsorbVerifies
  <1>4. Leader \in [Symbol -> Symbol]
    BY LeaderProps DEF Inv
  <1>5. \A i \in Slot : R[i] \in defined /\ R[i] \in Symbol
    BY LeaderDefined DEF Inv, IRVerifies, TypeOK
  <1>6. /\ \A s \in dead : /\ s \in EClass \cap defined /\ T[s] = {} /\ A[s] = {}
                           /\ \A i \in Slot : R[i] # s
        /\ \A s \in dead : \A d \in defined : s \notin A[d] /\ \A t \in T[d] : s \notin Uses(t)
    BY DEF IsDead
  <1>7. TypeOK'
    <2>1. DOMAIN Index(Leader, T) \subseteq Term
          /\ \A k \in DOMAIN Index(Leader, T) : Index(Leader, T)[k] \in Symbol
      BY <1>3, <1>4, IndexEntries
    <2> HIDE DEF T, A, dead
    <2>2. targets' \in [Slot -> Symbol]
      BY <1>1, <1>5
    <2> QED
      BY <1>1, <1>3, <2>1, <2>2 DEF Inv, TypeOK
  <1> HIDE DEF T, A, R, dead
  <1>8. UnionForest'
    BY <1>1 DEF Inv, UnionForest
  <1>9. LeadersSound'
    <2> SUFFICES ASSUME NEW s \in Symbol
                 PROVE  /\ parent[s] # s => Leader[s] \in defined'
                        /\ TypeOf[Leader[s]] = TypeOf[s]
                        /\ Leader[s] = s /\ s \in EClass \cap defined' => HasCandidates(T, A, s)
      BY <1>1, <1>2 DEF LeadersSound
    <2>1. parent[s] # s => Leader[s] \in defined
      BY DEF Inv, LeadersSound
    <2>2. Leader[s] \in Symbol /\ Leader[Leader[s]] = Leader[s]
      BY LeaderProps DEF Inv
    <2>3. Leader[s] \notin dead
      BY <1>3, <1>6, <2>2
    <2> QED
      BY <1>1, <1>3, <2>1, <2>3 DEF Inv, LeadersSound
  <1>10. PendingPairsValid'
    BY <1>1 DEF PendingPairsValid
  <1>11. IRVerifies'
    <2>1. ASSUME NEW s \in Symbol
          PROVE  /\ HasCandidates(T, A, s) => s \in EClass \cap defined'
                 /\ \A t \in T[s] : /\ Uses(t) \subseteq defined' /\ WellTyped(t)
                                    /\ ResultType[t.op] = TypeOf[s]
                 /\ \A m \in A[s] : m \in defined' /\ TypeOf[m] = TypeOf[s]
      <3>1. HasCandidates(T, A, s) => s \in EClass \cap defined /\ s \notin dead
        BY <1>3, <1>6
      <3>2. \A t \in T[s] : Uses(t) \subseteq defined \ dead
        BY <1>3, <1>6, <3>1
      <3>3. \A m \in A[s] : m \in defined \ dead
        BY <1>3, <1>6, <3>1
      <3> QED
        BY <1>1, <1>3, <3>1, <3>2, <3>3
    <2>2. \A i \in Slot : R[i] \in defined'
      BY <1>1, <1>5, <1>6
    <2> QED
      BY <1>1, <2>1, <2>2 DEF IRVerifies
  <1> QED
    BY <1>7, <1>8, <1>9, <1>10, <1>11 DEF Inv

\* Every step keeps Inv.
LEMMA NextInv == Inv /\ [Next]_vars => Inv'
PROOF
  <1> SUFFICES ASSUME Inv, [Next]_vars PROVE Inv'
    OBVIOUS
  <1>1. CASE ClientUnion
    <2>1. PICK calls \in [1..MaxPairs -> defined \X defined] :
            UnionValueTuples({calls[i] : i \in 1..MaxPairs})
      BY <1>1 DEF ClientUnion
    <2>2. {calls[i] : i \in 1..MaxPairs} \in SUBSET (defined \X defined)
      OBVIOUS
    <2> QED
      BY <2>1, <2>2, UnionValueTuplesInv
  <1>2. CASE \E p \in work : UnionLeaderSymbols(p)
    BY <1>2, UnionLeaderSymbolsInv
  <1>3. CASE \E t \in Term, s \in Symbol : Intern(t, s)
    BY <1>3, InternInv
  <1>4. CASE RebuildRound
    BY <1>4, RebuildRoundInv
  <1>5. CASE RebuildFinish
    BY <1>5, RebuildFinishInv
  <1>6. CASE UNCHANGED vars
    <2>1. Leader' = Leader
      BY <1>6 DEF vars, Leader
    <2> QED
      BY <1>6, <2>1 DEF vars, Inv, TypeOK, UnionForest, LeadersSound,
                        PendingPairsValid, CanUnite, IRVerifies
  <1> QED
    BY <1>1, <1>2, <1>3, <1>4, <1>5, <1>6 DEF Next

-----------------------------------------------------------------------------
\* What callers of the facade need: their calls are steps of the facade.

(***************************************************************************)
(* A call of unionValueTuples with the pairs of an indexed family is a     *)
(* step of the facade.                                                     *)
(***************************************************************************)
LEMMA CallIsClientUnion ==
  ASSUME NEW f \in [1..MaxPairs -> Symbol \X Symbol],
         UnionValueTuples({f[i] : i \in 1..MaxPairs})
  PROVE  Next
<1> DEFINE P == {f[i] : i \in 1..MaxPairs}
<1>1. \A i \in 1..MaxPairs : CanUnite(Leader, f[i][1], f[i][2])
  BY DEF UnionValueTuples
<1>2. \A i \in 1..MaxPairs : f[i] \in defined \X defined
  <2> SUFFICES ASSUME NEW i \in 1..MaxPairs
               PROVE  f[i] \in defined \X defined
    OBVIOUS
  <2>1. f[i][1] \in defined /\ f[i][2] \in defined
    BY <1>1 DEF CanUnite
  <2>2. f[i] = <<f[i][1], f[i][2]>>
    OBVIOUS
  <2> QED BY <2>1, <2>2
<1>3. f \in [1..MaxPairs -> defined \X defined]
  BY <1>2
<1> QED BY <1>3 DEF ClientUnion, Next

\* So is one with as many pairs as fit, of values it accepts.
LEMMA PairsAreClientUnion ==
  ASSUME TypeOK, NEW n \in 1..MaxPairs, NEW pair,
         \A e \in 1..n : pair[e] = <<pair[e][1], pair[e][2]>>,
         UnionValueTuples({pair[e] : e \in 1..n})
  PROVE  Next
<1> DEFINE f == [i \in 1..MaxPairs |-> IF i <= n THEN pair[i] ELSE pair[n]]
<1>1. \A e \in 1..n : pair[e] \in Symbol \X Symbol
  <2> SUFFICES ASSUME NEW e \in 1..n
               PROVE  pair[e] \in Symbol \X Symbol
    OBVIOUS
  <2>1. CanUnite(Leader, pair[e][1], pair[e][2])
    BY DEF UnionValueTuples
  <2>2. pair[e][1] \in Symbol /\ pair[e][2] \in Symbol
    BY <2>1 DEF CanUnite, TypeOK
  <2> QED BY <2>2
<1>2. n \in Nat /\ MaxPairs \in Nat /\ 1 <= n /\ n <= MaxPairs
  BY ConstantsOK
<1>3. f \in [1..MaxPairs -> Symbol \X Symbol]
  BY <1>1, <1>2
<1>4. {pair[e] : e \in 1..n} = {f[i] : i \in 1..MaxPairs}
  <2>1. ASSUME NEW e \in 1..n PROVE pair[e] \in {f[i] : i \in 1..MaxPairs}
    <3>1. e \in 1..MaxPairs /\ f[e] = pair[e]
      BY <1>2
    <3> QED BY <3>1
  <2>2. ASSUME NEW i \in 1..MaxPairs PROVE f[i] \in {pair[e] : e \in 1..n}
    BY <1>2
  <2> QED BY <2>1, <2>2
<1> HIDE DEF f
<1> QED BY <1>3, <1>4, CallIsClientUnion

\* And a call of intern, whatever the record of the operation looks like.
LEMMA InternIsClientIntern ==
  ASSUME TypeOK, NEW t, NEW r \in Symbol, t.op \in Op, Intern(t, r)
  PROVE  Next
<1> DEFINE u == [op |-> t.op, args |-> [i \in 1..Arity[t.op] |-> t.args[i]]]
<1>1. \A i \in 1..Arity[t.op] : t.args[i] \in Symbol
  BY DEF Intern, Uses, TypeOK
<1>2. u \in Term
  BY <1>1 DEF Term
<1>3. /\ Canon(Leader, u) = Canon(Leader, t)
      /\ Uses(u) = Uses(t)
      /\ WellTyped(u) <=> WellTyped(t)
      /\ u.op = t.op
  BY DEF Canon, Uses, WellTyped
<1>4. Intern(u, r)
  BY <1>3 DEF Intern
<1> QED BY <1>2, <1>4 DEF Next

\* intern erases nothing.
LEMMA InternGrows ==
  ASSUME TypeOK, NEW t, NEW r \in Symbol, Intern(t, r)
  PROVE  /\ r \notin defined /\ r \in defined'
         /\ defined \subseteq defined'
         /\ \A s \in defined : terms'[s] = terms[s]
<1>1. r \notin defined /\ defined' = defined \cup {r}
      /\ terms' = [terms EXCEPT ![r] = {Canon(Leader, t)}]
  BY DEF Intern, IsFresh
<1>2. \A s \in defined : s \in Symbol
  BY DEF TypeOK
<1> QED BY <1>1, <1>2 DEF TypeOK

(***************************************************************************)
(* Every reachable state of the facade: the union map is a forest, leaders *)
(* exist and carry the type of their class, no pending pair can fail, and  *)
(* the verifiers accept the IR.                                            *)
(***************************************************************************)
THEOREM Safety == Spec => []Inv
PROOF
  <1>1. Init => Inv
    BY InitInv
  <1>2. Inv /\ [Next]_vars => Inv'
    BY NextInv
  <1> QED
    BY <1>1, <1>2, PTL DEF Spec

\* findLeaderSymbol terminates, after any history of unions and rebuilds.
THEOREM ForestAlways == Spec => []UnionForest
BY Safety, PTL DEF Inv

\* Leaders are ops of the block, typed like their class, never without candidates.
THEOREM LeadersAlwaysSound == Spec => []LeadersSound
BY Safety, PTL DEF Inv

\* No pair of a call in progress can fail the checks of getUnionSymbolPair.
THEOREM PendingPairsAlwaysValid == Spec => []PendingPairsValid
BY Safety, PTL DEF Inv

\* The verifiers accept the IR after every step of every call.
THEOREM IRAlwaysVerifies == Spec => []IRVerifies
BY Safety, PTL DEF Inv

-----------------------------------------------------------------------------
(***************************************************************************)
(* Orientation.  The pair of a call of unionValues waits with the leaders  *)
(* it was oriented for, since no other pair comes between; the collisions  *)
(* of a rebuild are between e-classes.                                     *)
(***************************************************************************)
Oriented ==
  \A p \in work :
    /\ pc = "union" => /\ Leader[p[1]] = p[1] /\ Leader[p[2]] = p[2]
                       /\ p[1] \in Input => p[2] \in Input
                       /\ \A q \in work : q = p
    /\ pc = "collide" => p[1] \in EClass /\ p[2] \in EClass

\* A call that unites one pair is oriented right when its turn comes.
LEMMA OrientedNext ==
  ASSUME Inv, Oriented, EClassLeads, [Next]_vars, MaxPairs = 1
  PROVE  Oriented' /\ EClassLeads'
PROOF
  <1>0. /\ Leader \in [Symbol -> Symbol]
        /\ \A s \in Symbol : Leader[s] \in Symbol /\ Leader[Leader[s]] = Leader[s]
    BY LeaderProps DEF Inv
  <1>1. CASE ClientUnion
    <2>1. PICK calls \in [1..MaxPairs -> defined \X defined] :
            UnionValueTuples({calls[i] : i \in 1..MaxPairs})
      BY <1>1 DEF ClientUnion
    <2> DEFINE c == calls[1]
    <2>2. c[1] \in Symbol /\ c[2] \in Symbol
      BY <2>1 DEF Inv, TypeOK
    <2>3. {calls[i] : i \in 1..MaxPairs} = {c}
      BY <2>1
    <2>4. /\ pc' = "union" /\ work' = {UnionPair(Leader, c[1], c[2])} /\ parent' = parent
      BY <2>1, <2>3 DEF UnionValueTuples
    <2>5. Leader' = Leader
      BY <2>4 DEF Leader
    <2> HIDE DEF c
    <2> QED
      BY <1>0, <2>2, <2>4, <2>5 DEF Oriented, EClassLeads, UnionPair, EClass
  <1>2. ASSUME NEW p \in work, UnionLeaderSymbols(p) PROVE Oriented' /\ EClassLeads'
    <2> DEFINE l == Leader[p[1]]
               m == Leader[p[2]]
    <2>1. /\ p[1] \in Symbol /\ p[2] \in Symbol
          /\ work' = work \ {p} /\ pc \in {"union", "collide"}
          /\ pc' = IF pc = "union" /\ work' = {} THEN "idle" ELSE pc
          /\ \/ l = m /\ parent' = parent
             \/ l # m /\ parent' = Link(parent, l, m)
      BY <1>2 DEF UnionLeaderSymbols, Inv, TypeOK
    <2>2. m \in EClass => l \in EClass
      BY <2>1 DEF Oriented, EClassLeads, EClass
    <2>3. \A s \in Symbol : Leader'[s] = IF Leader[s] = m THEN l ELSE Leader[s]
      <3>1. CASE l = m
        BY <2>1, <3>1 DEF Leader
      <3>2. CASE l # m
        <4>1. l \in Symbol /\ m \in Symbol /\ parent[l] = l /\ parent[m] = m
          BY <2>1, LeaderProps DEF Inv
        <4>2. Leader' = [s \in Symbol |-> IF Leader[s] = m THEN l ELSE Leader[s]]
          BY <2>1, <3>2, <4>1, LinkMovesOneClass DEF Inv, TypeOK, UnionForest, Leader
        <4> QED
          BY <4>2
      <3> QED
        BY <3>1, <3>2
    <2>4. EClassLeads'
      BY <2>2, <2>3 DEF EClassLeads, EClass
    <2>5. Oriented'
      BY <2>1 DEF Oriented
    <2> QED
      BY <2>4, <2>5
  <1>3. ASSUME NEW t \in Term, NEW n \in Symbol, Intern(t, n) PROVE Oriented' /\ EClassLeads'
    BY <1>3 DEF Intern, Oriented, EClassLeads, Leader
  <1>4. ASSUME RebuildRound PROVE Oriented' /\ EClassLeads'
    <2> DEFINE rewritten == [s \in Symbol |-> {Canon(Leader, t) : t \in terms[s]}]
               table == Index(Leader, rewritten)
    <2>1. /\ parent' = parent /\ pc' = "collide"
          /\ work' = Collisions(Leader, table, rewritten)
      BY <1>4 DEF RebuildRound
    <2>2. Leader' = Leader
      BY <2>1 DEF Leader
    <2>3. rewritten \in [Symbol -> SUBSET Term]
      BY RewriteVerifies
    <2>4. \A s \in Symbol : rewritten[s] # {} => s \in EClass
      BY DEF Inv, IRVerifies
    <2> HIDE DEF rewritten
    <2>5. ASSUME NEW q \in Collisions(Leader, table, rewritten)
          PROVE  q[1] \in EClass /\ q[2] \in EClass
      <3>1. PICK s \in Symbol : \E t \in rewritten[s] :
              q = UnionPair(Leader, table[Canon(Leader, t)], s)
        BY <2>5 DEF Collisions
      <3>2. PICK t \in rewritten[s] : q = UnionPair(Leader, table[Canon(Leader, t)], s)
        BY <3>1
      <3> DEFINE e == table[Canon(Leader, t)]
      <3>3. e \in Symbol /\ rewritten[e] # {}
        BY <1>0, <2>3, <3>2, IndexEntries
      <3>4. q = UnionPair(Leader, e, s)
        BY <3>2
      <3> HIDE DEF e
      <3>5. Leader[e] \in EClass /\ Leader[s] \in EClass
        BY <2>4, <3>2, <3>3 DEF EClassLeads
      <3> QED
        BY <3>4, <3>5 DEF UnionPair
    <2> HIDE DEF table
    <2> QED
      BY <2>1, <2>2, <2>5 DEF Oriented, EClassLeads
  <1>5. ASSUME RebuildFinish PROVE Oriented' /\ EClassLeads'
    BY <1>5 DEF RebuildFinish, Oriented, EClassLeads, Leader
  <1>6. CASE UNCHANGED vars
    BY <1>6 DEF vars, Oriented, EClassLeads, Leader
  <1> QED
    BY <1>1, <1>2, <1>3, <1>4, <1>5, <1>6 DEF Next

(***************************************************************************)
(* As long as clients unite one pair per call (unionValues), no input ever *)
(* leads an e-class, whatever rebuilds unite: materializeSymbolicUnions    *)
(* skips no class that has candidates.                                     *)
(***************************************************************************)
THEOREM EClassAlwaysLeads ==
  ASSUME MaxPairs = 1
  PROVE  Spec => []EClassLeads
PROOF
  <1>1. Init => Inv /\ Oriented /\ EClassLeads
    <2> SUFFICES ASSUME Init PROVE Inv /\ Oriented /\ EClassLeads
      OBVIOUS
    <2>1. \A s \in Symbol : Leader[s] = s
      BY NoUnionsLeader DEF Init, Leader, NoUnions
    <2> QED
      BY <2>1, InitInv DEF Init, Oriented, EClassLeads, EClass
  <1>2. Inv /\ Oriented /\ EClassLeads /\ [Next]_vars => Inv' /\ Oriented' /\ EClassLeads'
    BY NextInv, OrientedNext
  <1> QED
    BY <1>1, <1>2, PTL DEF Spec
=============================================================================
