------------------------- MODULE BlockRewriteTheorems -------------------------
(***************************************************************************)
(* The rewriting of a block keeps its results, for every algebra, block,   *)
(* selection and order of calls.                                           *)
(***************************************************************************)
EXTENDS BlockRewrite, EGraphTheorems, FiniteSetTheorems, WellFoundedInduction

-----------------------------------------------------------------------------
(***************************************************************************)
(* Soundness of the facade, for every algebra: a client that unites equal  *)
(* values only gets a graph in which only equal values are united, stored  *)
(* together or found in the table.                                         *)
(***************************************************************************)
\* What a step on leaders does to the value of a term.

Respects(leader) == \A s \in Symbol : means[leader[s]] = means[s]

\* Leaders of the same value do not change the value of a term.
LEMMA CanonValue ==
  ASSUME NEW leader \in [Symbol -> Symbol], Respects(leader), NEW t \in Term
  PROVE  TermValue(means, Canon(leader, t)) = TermValue(means, t)
PROOF
  <1> DEFINE c == Canon(leader, t)
             before == [i \in 1..Arity[t.op] |-> means[t.args[i]]]
             after == [i \in 1..Arity[t.op] |-> means[c.args[i]]]
  <1>1. c.op = t.op /\ \A i \in 1..Arity[t.op] : c.args[i] = leader[t.args[i]]
    BY DEF Canon
  <1>2. \A i \in 1..Arity[t.op] : t.args[i] \in Symbol
    BY TermFields
  <1>3. \A i \in 1..Arity[t.op] : means[c.args[i]] = means[t.args[i]]
    BY <1>1, <1>2 DEF Respects
  <1>4. after = before
    BY <1>3
  <1>5. TermValue(means, t) = Eval(t.op, before)
    BY DEF TermValue
  <1>6. TermValue(means, c) = Eval(t.op, after)
    BY <1>1 DEF TermValue
  <1> QED
    BY <1>4, <1>5, <1>6

\* Every candidate has the value of its e-class.
Mean(candidates) ==
  \A s \in Symbol : \A t \in candidates[s] : TermValue(means, t) = means[s]

\* Nor that of an entry of the table.
LEMMA IndexValue ==
  ASSUME NEW leader \in [Symbol -> Symbol], Respects(leader),
         NEW candidates \in [Symbol -> SUBSET Term], Mean(candidates)
  PROVE  \A k \in DOMAIN Index(leader, candidates) :
           TermValue(means, k) = means[Index(leader, candidates)[k]]
PROOF
  <1> SUFFICES ASSUME NEW k \in DOMAIN Index(leader, candidates)
               PROVE  TermValue(means, k) = means[Index(leader, candidates)[k]]
    OBVIOUS
  <1> DEFINE o == Index(leader, candidates)[k]
  <1>1. o \in Symbol /\ \E t \in candidates[o] : Canon(leader, t) = k
    BY IndexEntries
  <1>2. PICK t \in candidates[o] : Canon(leader, t) = k
    BY <1>1
  <1> HIDE DEF o
  <1>3. t \in Term /\ TermValue(means, t) = means[o]
    BY <1>1 DEF Mean
  <1>4. TermValue(means, k) = TermValue(means, t)
    BY <1>2, <1>3, CanonValue
  <1> QED
    BY <1>3, <1>4 DEF o

-----------------------------------------------------------------------------
(***************************************************************************)
(* MeaningSound needs the invariant of the facade, and that no stale key   *)
(* of the table uses a name that intern may give away again.               *)
(***************************************************************************)
KeysInBlock ==
  \A k \in DOMAIN hashcons : Uses(k) \subseteq defined /\ hashcons[k] \in defined

MeaningInv == Inv /\ MeaningSound /\ KeysInBlock /\ means \in [Symbol -> Value]

\* MeaningSound in the parts that the actions disturb.
LEMMA Parts ==
  MeaningSound <=> /\ Respects(Leader)
                   /\ Mean(terms)
                   /\ \A s \in Symbol : \A m \in aliases[s] : means[m] = means[s]
                   /\ \A k \in DOMAIN hashcons : TermValue(means, k) = means[hashcons[k]]
                   /\ \A p \in work : means[p[1]] = means[p[2]]
BY DEF MeaningSound, Respects, Mean

\* A body means what it computes.
LEMMA MeaningInitInv == MeaningInit => MeaningInv
PROOF
  <1> SUFFICES ASSUME MeaningInit PROVE MeaningInv
    OBVIOUS
  <1>1. Inv /\ Init /\ means \in [Symbol -> Value] /\ IsModel(means, defined, terms, aliases)
    BY InitInv DEF MeaningInit
  <1>2. parent = NoUnions /\ hashcons = Index(Leader, terms) /\ work = {}
    BY <1>1 DEF Init, Leader
  <1>3. /\ Leader \in [Symbol -> Symbol]
        /\ \A s \in Symbol : Leader[s] = s
    BY <1>2, NoUnionsLeader DEF Leader, NoUnions
  <1>4. Respects(Leader)
    BY <1>3 DEF Respects
  <1>5. /\ terms \in [Symbol -> SUBSET Term]
        /\ \A s \in Symbol : \A t \in terms[s] : s \in defined /\ Uses(t) \subseteq defined
        /\ \A s \in Symbol : \A m \in aliases[s] : s \in defined
        /\ defined \subseteq Symbol
    BY <1>1 DEF Inv, TypeOK, IRVerifies, HasCandidates
  <1>6. Mean(terms) /\ \A s \in Symbol : \A m \in aliases[s] : means[m] = means[s]
    BY <1>1, <1>5 DEF IsModel, Mean
  <1>7. \A k \in DOMAIN hashcons : TermValue(means, k) = means[hashcons[k]]
    BY <1>2, <1>3, <1>4, <1>5, <1>6, IndexValue
  <1>8. KeysInBlock
    <2>1. \A s \in defined : Leader[s] \in defined
      BY <1>3, <1>5
    <2> QED
      BY <1>2, <1>3, <1>5, <2>1, IndexInBlock DEF KeysInBlock
  <1>9. MeaningSound
    BY <1>2, <1>4, <1>6, <1>7, Parts
  <1> QED
    BY <1>1, <1>8, <1>9 DEF MeaningInv

\* Clients that unite equal values leave only true pairs to unite.
LEMMA MeaningUnionValues ==
  ASSUME MeaningInv, SoundUnion
  PROVE  MeaningInv'
PROOF
  <1>1. PICK calls \in [1..MaxPairs -> {p \in defined \X defined : means[p[1]] = means[p[2]]}] :
          UnionValueTuples({calls[i] : i \in 1..MaxPairs})
    BY DEF SoundUnion
  <1> DEFINE P == {calls[i] : i \in 1..MaxPairs}
  <1>2. /\ P \in SUBSET (defined \X defined)
        /\ \A p \in P : means[p[1]] = means[p[2]]
        /\ UnionValueTuples(P)
    BY <1>1
  <1> HIDE DEF P
  <1>3. Inv'
    BY <1>2, UnionValueTuplesInv DEF MeaningInv
  <1>4. /\ UNCHANGED <<defined, terms, aliases, parent, hashcons, means>>
        /\ work' = {UnionPair(Leader, p[1], p[2]) : p \in P}
    BY <1>2 DEF UnionValueTuples, ir, SoundUnion
  <1>5. Leader' = Leader
    BY <1>4 DEF Leader
  <1>6. \A p \in P : p[1] \in Symbol /\ p[2] \in Symbol
    BY <1>2 DEF MeaningInv, Inv, TypeOK
  <1>7. \A s \in Symbol : means[Leader[s]] = means[s]
    BY DEF MeaningInv, MeaningSound
  <1>8. \A q \in work' : means[q[1]] = means[q[2]]
    BY <1>2, <1>4, <1>6, <1>7 DEF UnionPair
  <1>9. MeaningSound'
    <2>1. /\ \A s \in Symbol :
               /\ means[Leader[s]] = means[s]
               /\ \A t \in terms[s] : TermValue(means, t) = means[s]
               /\ \A m \in aliases[s] : means[m] = means[s]
          /\ \A k \in DOMAIN hashcons : TermValue(means, k) = means[hashcons[k]]
      BY DEF MeaningInv, MeaningSound
    <2> QED
      BY <1>4, <1>5, <1>8, <2>1 DEF MeaningSound
  <1> QED
    BY <1>3, <1>4, <1>9 DEF MeaningInv, KeysInBlock

\* Linking a true pair keeps leaders true.
LEMMA MeaningLink ==
  ASSUME MeaningInv, NEW p \in work, UnionLeaderSymbols(p), UNCHANGED means
  PROVE  MeaningInv'
PROOF
  <1> DEFINE l == Leader[p[1]]
             m == Leader[p[2]]
  <1>1. Inv'
    BY UnionLeaderSymbolsInv DEF MeaningInv
  <1>2. /\ UNCHANGED <<defined, terms, aliases, hashcons>>
        /\ work' \subseteq work
    BY DEF UnionLeaderSymbols, ir
  <1>3. p[1] \in Symbol /\ p[2] \in Symbol
    BY DEF MeaningInv, Inv, TypeOK
  <1>4. /\ l \in Symbol /\ m \in Symbol /\ parent[l] = l /\ parent[m] = m
    BY <1>3, LeaderProps DEF MeaningInv, Inv
  <1>5. means[l] = means[m]
    BY <1>3 DEF MeaningInv, MeaningSound
  <1>6. \A s \in Symbol : Leader'[s] = Leader[s] \/ (Leader[s] = m /\ Leader'[s] = l)
    <2>1. CASE l = m
      BY <2>1 DEF UnionLeaderSymbols, Leader
    <2>2. CASE l # m
      <3>1. parent' = Link(parent, l, m)
        BY <2>2 DEF UnionLeaderSymbols
      <3>2. Leader' = [s \in Symbol |-> IF Leader[s] = m THEN l ELSE Leader[s]]
        BY <2>2, <3>1, <1>4, LinkMovesOneClass DEF MeaningInv, Inv, TypeOK, UnionForest, Leader
      <3> QED
        BY <3>2
    <2> QED
      BY <2>1, <2>2
  <1> HIDE DEF l, m
  <1>7. \A s \in Symbol : means[Leader'[s]] = means[s]
    BY <1>5, <1>6 DEF MeaningInv, MeaningSound
  <1>8. MeaningSound'
    BY <1>2, <1>7 DEF MeaningInv, MeaningSound
  <1> QED
    BY <1>1, <1>2, <1>8 DEF MeaningInv, KeysInBlock

\* The values of names in use do not change when a fresh name gets one.
LEMMA MeaningInternInv ==
  ASSUME MeaningInv, NEW t \in Term, NEW n \in Symbol, MeaningIntern(t, n)
  PROVE  MeaningInv' /\ \A s \in Symbol : s # n => means'[s] = means[s]
PROOF
  <1> DEFINE key == Canon(Leader, t)
  <1>1. /\ Intern(t, n) /\ means' = [means EXCEPT ![n] = TermValue(means, t)]
    BY DEF MeaningIntern
  <1>2. /\ UNCHANGED <<aliases, parent, work>>
        /\ Uses(t) \subseteq defined
        /\ n \notin defined /\ parent[n] = n
        /\ defined' = defined \cup {n}
        /\ terms' = [terms EXCEPT ![n] = {key}]
        /\ hashcons' = [k \in DOMAIN hashcons \cup {key} |->
                          IF k = key THEN n ELSE hashcons[k]]
    BY <1>1 DEF Intern, IsFresh
  <1>3. Leader' = Leader
    BY <1>2 DEF Leader
  <1>4. Inv /\ Inv'
    BY <1>1, InternInv DEF MeaningInv
  <1>5. /\ Leader \in [Symbol -> Symbol] /\ Leader[n] = n
        /\ \A s \in Symbol : s # n => Leader[s] # n
    <2>1. /\ Leader \in [Symbol -> Symbol] /\ Leader[n] = n
          /\ \A s \in Symbol : parent[s] = s => Leader[s] = s
      BY <1>2, <1>4, LeaderProps DEF Inv
    <2>2. \A s \in Symbol : parent[s] # s => Leader[s] \in defined
      BY <1>4 DEF Inv, LeadersSound
    <2> QED
      BY <1>2, <2>1, <2>2
  <1>6. /\ key \in Term
        /\ \A u \in Uses(key) : \E v \in Uses(t) : u = Leader[v]
    BY <1>5, CanonTerm
  <1>7. Uses(key) \subseteq defined
    BY <1>2, <1>4, <1>6, LeaderDefined
  <1>8. TermValue(means, key) = TermValue(means, t)
    BY <1>5, CanonValue DEF MeaningInv, MeaningSound, Respects
  <1>9. TermValue(means, t) \in Value
    <2>1. t.op \in Op /\ \A i \in 1..Arity[t.op] : t.args[i] \in Symbol
      BY TermFields
    <2>2. [i \in 1..Arity[t.op] |-> means[t.args[i]]] \in [1..Arity[t.op] -> Value]
      BY <2>1 DEF MeaningInv
    <2> QED
      BY <2>1, <2>2, EvalOK DEF TermValue
  <1>10. /\ means' \in [Symbol -> Value] /\ means'[n] = TermValue(means, t)
         /\ \A s \in Symbol : s # n => means'[s] = means[s]
    BY <1>1, <1>9 DEF MeaningInv
  <1> HIDE DEF key
  <1>11. ASSUME NEW u \in Term, Uses(u) \subseteq defined
         PROVE  TermValue(means', u) = TermValue(means, u)
    <2>1. \A i \in 1..Arity[u.op] : u.args[i] \in defined /\ u.args[i] \in Symbol
      BY <1>11, TermFields
    <2>2. \A i \in 1..Arity[u.op] : means'[u.args[i]] = means[u.args[i]]
      BY <1>2, <1>10, <2>1
    <2>3. [i \in 1..Arity[u.op] |-> means'[u.args[i]]] = [i \in 1..Arity[u.op] |-> means[u.args[i]]]
      BY <2>2
    <2> QED
      BY <2>3 DEF TermValue
  <1>12. /\ terms'[n] = {key} /\ \A s \in Symbol : s # n => terms'[s] = terms[s]
    BY <1>2, <1>4 DEF Inv, TypeOK
  <1>13. \A s \in Symbol : means'[Leader[s]] = means'[s]
    BY <1>5, <1>10 DEF MeaningInv, MeaningSound
  <1>14. \A s \in Symbol : \A u \in terms'[s] : TermValue(means', u) = means'[s]
    <2> SUFFICES ASSUME NEW s \in Symbol, NEW u \in terms'[s]
                 PROVE  TermValue(means', u) = means'[s]
      OBVIOUS
    <2>1. CASE s = n
      BY <2>1, <1>6, <1>7, <1>8, <1>10, <1>11, <1>12
    <2>2. CASE s # n
      <3>1. u \in terms[s] /\ u \in Term /\ Uses(u) \subseteq defined
        BY <2>2, <1>4, <1>12 DEF Inv, TypeOK, IRVerifies
      <3>2. TermValue(means, u) = means[s]
        BY <3>1 DEF MeaningInv, MeaningSound
      <3> QED
        BY <2>2, <3>1, <3>2, <1>10, <1>11
    <2> QED
      BY <2>1, <2>2
  <1>15. \A s \in Symbol : \A m \in aliases[s] : means'[m] = means'[s]
    <2> SUFFICES ASSUME NEW s \in Symbol, NEW m \in aliases[s]
                 PROVE  means'[m] = means'[s]
      OBVIOUS
    <2>1. m \in defined /\ s \in defined /\ m \in Symbol
      BY <1>4 DEF Inv, TypeOK, IRVerifies, HasCandidates
    <2>2. means[m] = means[s]
      BY DEF MeaningInv, MeaningSound
    <2> QED
      BY <2>1, <2>2, <1>2, <1>10
  <1>16. \A k \in DOMAIN hashcons' : TermValue(means', k) = means'[hashcons'[k]]
    <2> SUFFICES ASSUME NEW k \in DOMAIN hashcons'
                 PROVE  TermValue(means', k) = means'[hashcons'[k]]
      OBVIOUS
    <2>1. CASE k = key
      BY <2>1, <1>2, <1>6, <1>7, <1>8, <1>10, <1>11
    <2>2. CASE k # key
      <3>1. k \in DOMAIN hashcons /\ hashcons'[k] = hashcons[k]
        BY <2>2, <1>2
      <3>2. /\ k \in Term /\ Uses(k) \subseteq defined
            /\ hashcons[k] \in defined /\ hashcons[k] \in Symbol
        BY <3>1, <1>4 DEF MeaningInv, KeysInBlock, Inv, TypeOK
      <3>3. TermValue(means, k) = means[hashcons[k]]
        BY <3>1 DEF MeaningInv, MeaningSound
      <3> QED
        BY <3>1, <3>2, <3>3, <1>2, <1>10, <1>11
    <2> QED
      BY <2>1, <2>2
  <1>17. \A p \in work : means'[p[1]] = means'[p[2]]
    <2> SUFFICES ASSUME NEW p \in work PROVE means'[p[1]] = means'[p[2]]
      OBVIOUS
    <2>1. p[1] \in defined /\ p[2] \in defined /\ p[1] \in Symbol /\ p[2] \in Symbol
      BY <1>4 DEF Inv, TypeOK, PendingPairsValid, CanUnite
    <2>2. means[p[1]] = means[p[2]]
      BY DEF MeaningInv, MeaningSound
    <2> QED
      BY <2>1, <2>2, <1>2, <1>10
  <1>18. MeaningSound'
    BY <1>2, <1>3, <1>13, <1>14, <1>15, <1>16, <1>17 DEF MeaningSound
  <1>19. KeysInBlock'
    BY <1>2, <1>7 DEF MeaningInv, KeysInBlock
  <1> QED
    BY <1>4, <1>10, <1>18, <1>19 DEF MeaningInv

\* The pairs a round finds are congruent, and so of one value.
LEMMA MeaningRoundInv ==
  ASSUME MeaningInv, RebuildRound, UNCHANGED means
  PROVE  MeaningInv'
PROOF
  <1> DEFINE rewritten == [s \in Symbol |-> {Canon(Leader, t) : t \in terms[s]}]
             table == Index(Leader, rewritten)
  <1>1. /\ UNCHANGED <<defined, aliases, parent>>
        /\ terms' = rewritten /\ hashcons' = table
        /\ work' = Collisions(Leader, table, rewritten)
    BY DEF RebuildRound
  <1>2. Leader' = Leader
    BY <1>1 DEF Leader
  <1>3. Inv /\ Inv'
    BY RebuildRoundInv DEF MeaningInv
  <1>4. /\ Leader \in [Symbol -> Symbol] /\ Respects(Leader)
        /\ \A s \in Symbol : Leader[s] \in Symbol
    BY <1>3, LeaderProps DEF Inv, MeaningInv, MeaningSound, Respects
  <1>5. rewritten \in [Symbol -> SUBSET Term]
    BY <1>1, <1>3 DEF Inv, TypeOK
  <1>6. Mean(rewritten)
    <2> SUFFICES ASSUME NEW s \in Symbol, NEW u \in rewritten[s]
                 PROVE  TermValue(means, u) = means[s]
      BY DEF Mean
    <2>1. PICK t \in terms[s] : u = Canon(Leader, t)
      OBVIOUS
    <2>2. t \in Term
      BY <1>3 DEF Inv, TypeOK
    <2>3. TermValue(means, t) = means[s]
      BY DEF MeaningInv, MeaningSound
    <2> QED
      BY <2>1, <2>2, <2>3, <1>4, CanonValue
  <1> HIDE DEF rewritten
  <1>7. \A k \in DOMAIN table : TermValue(means, k) = means[table[k]]
    BY <1>4, <1>5, <1>6, IndexValue
  <1>8. \A s \in Symbol : \A u \in rewritten[s] : s \in defined /\ Uses(u) \subseteq defined
    BY <1>1, <1>3 DEF Inv, IRVerifies, HasCandidates
  <1>9. \A s \in defined : Leader[s] \in defined
    BY <1>3, LeaderDefined
  <1>10. KeysInBlock'
    BY <1>1, <1>4, <1>5, <1>8, <1>9, IndexInBlock DEF KeysInBlock
  <1>11. \A q \in work' : means[q[1]] = means[q[2]]
    <2> SUFFICES ASSUME NEW q \in work' PROVE means[q[1]] = means[q[2]]
      OBVIOUS
    <2>1. PICK s \in Symbol : \E u \in rewritten[s] :
            q = UnionPair(Leader, table[Canon(Leader, u)], s)
      BY <1>1 DEF Collisions
    <2>2. PICK u \in rewritten[s] : q = UnionPair(Leader, table[Canon(Leader, u)], s)
      BY <2>1
    <2> DEFINE k == Canon(Leader, u)
    <2>3. u \in Term /\ TermValue(means, u) = means[s]
      BY <1>5, <1>6 DEF Mean
    <2>4. k \in DOMAIN table /\ table[k] \in Symbol
      BY <1>4, <1>5, IndexEntries
    <2>5. TermValue(means, k) = TermValue(means, u)
      BY <2>3, <1>4, CanonValue
    <2>6. means[table[k]] = means[s]
      BY <2>3, <2>4, <2>5, <1>7
    <2> HIDE DEF table
    <2> QED
      BY <2>2, <2>4, <2>6, <1>4 DEF UnionPair, Respects
  <1> HIDE DEF table
  <1>12. MeaningSound'
    <2>1. \A s \in Symbol : \A m \in aliases[s] : means[m] = means[s]
      BY DEF MeaningInv, MeaningSound
    <2> QED
      BY <1>1, <1>2, <1>4, <1>6, <1>7, <1>11, <2>1 DEF MeaningSound, Respects, Mean
  <1> QED
    BY <1>3, <1>10, <1>12 DEF MeaningInv

\* Absorption moves candidates within a class, which has one value.
LEMMA MeaningFinishInv ==
  ASSUME MeaningInv, RebuildFinish, UNCHANGED means
  PROVE  MeaningInv'
PROOF
  <1>1. /\ parent' = parent /\ work' = {}
        /\ terms' = AbsorbedTerms(Leader) /\ aliases' = AbsorbedAliases(Leader)
        /\ hashcons' = Index(Leader, terms')
    BY DEF RebuildFinish
  <1>2. Leader' = Leader
    BY <1>1 DEF Leader
  <1>3. Inv /\ Inv'
    BY RebuildFinishInv DEF MeaningInv
  <1>4. Leader \in [Symbol -> Symbol] /\ Respects(Leader)
    BY <1>3, LeaderProps DEF Inv, MeaningInv, MeaningSound, Respects
  <1>5. /\ terms' \in [Symbol -> SUBSET Term]
        /\ \A s \in Symbol : \A t \in terms'[s] : s \in defined' /\ Uses(t) \subseteq defined'
        /\ \A s \in defined' : Leader[s] \in defined'
    <2>1. \A s \in defined' : Leader'[s] \in defined'
      <3>1. /\ \A s \in Symbol : parent'[s] # s => Leader'[s] \in defined'
            /\ \A s \in Symbol : parent'[s] = s => Leader'[s] = s
            /\ defined' \subseteq Symbol
        BY <1>1, <1>2, <1>3, LeaderProps DEF Inv, LeadersSound, TypeOK
      <3> QED
        BY <3>1
    <2> QED
      BY <1>2, <1>3, <2>1 DEF Inv, TypeOK, IRVerifies, HasCandidates
  <1>6. \A s \in Symbol : \A m \in Members(Leader, s) : m \in Symbol /\ means[m] = means[s]
    BY <1>3, <1>4 DEF Members, Respects, Inv, TypeOK
  <1>7. Mean(terms')
    <2> SUFFICES ASSUME NEW s \in Symbol, NEW t \in AbsorbedTerms(Leader)[s]
                 PROVE  TermValue(means, t) = means[s]
      BY <1>1 DEF Mean
    <2>1. \E m \in Members(Leader, s) \cup {s} : t \in terms[m]
      BY DEF AbsorbedTerms
    <2>2. PICK m \in Members(Leader, s) \cup {s} : t \in terms[m]
      BY <2>1
    <2>3. m \in Symbol /\ means[m] = means[s]
      BY <1>6
    <2> QED
      BY <2>2, <2>3 DEF MeaningInv, MeaningSound
  <1>8. \A s \in Symbol : \A n \in aliases'[s] : means[n] = means[s]
    <2> SUFFICES ASSUME NEW s \in Symbol, NEW n \in AbsorbedAliases(Leader)[s]
                 PROVE  means[n] = means[s]
      BY <1>1
    <2>1. \/ \E m \in Members(Leader, s) \cup {s} : n \in aliases[m]
          \/ n \in Members(Leader, s)
      BY DEF AbsorbedAliases
    <2>2. CASE n \in Members(Leader, s)
      BY <2>2, <1>6
    <2>3. CASE \E m \in Members(Leader, s) \cup {s} : n \in aliases[m]
      <3>1. PICK m \in Members(Leader, s) \cup {s} : n \in aliases[m]
        BY <2>3
      <3>2. m \in Symbol /\ means[m] = means[s]
        BY <1>6
      <3> QED
        BY <3>1, <3>2 DEF MeaningInv, MeaningSound
    <2> QED
      BY <2>1, <2>2, <2>3
  <1>9. \A k \in DOMAIN hashcons' : TermValue(means, k) = means[hashcons'[k]]
    BY <1>1, <1>4, <1>5, <1>7, IndexValue
  <1>10. KeysInBlock'
    BY <1>1, <1>4, <1>5, IndexInBlock DEF KeysInBlock
  <1>11. MeaningSound'
    BY <1>1, <1>2, <1>4, <1>7, <1>8, <1>9 DEF MeaningSound, Respects, Mean
  <1> QED
    BY <1>3, <1>10, <1>11 DEF MeaningInv

\* Every step keeps the invariant.
LEMMA MeaningNextInv ==
  ASSUME MeaningInv, [MeaningNext]_meaningVars
  PROVE  MeaningInv'
PROOF
  <1>1. CASE SoundUnion
    BY <1>1, MeaningUnionValues
  <1>2. CASE \E t \in Term, s \in Symbol : MeaningIntern(t, s)
    BY <1>2, MeaningInternInv
  <1>3. CASE MeaningRunning
    BY <1>3, MeaningLink, MeaningRoundInv, MeaningFinishInv DEF MeaningRunning
  <1>4. CASE UNCHANGED meaningVars
    <2>1. Inv'
      BY <1>4, NextInv DEF meaningVars, MeaningInv
    <2>2. Leader' = Leader
      BY <1>4 DEF meaningVars, vars, Leader
    <2> QED
      BY <1>4, <2>1, <2>2 DEF meaningVars, vars, MeaningInv, MeaningSound, KeysInBlock
  <1> QED
    BY <1>1, <1>2, <1>3, <1>4 DEF MeaningNext

(***************************************************************************)
(* Unions, interning and rebuilds keep every name, candidate and table     *)
(* entry true to its value, in every algebra.                              *)
(***************************************************************************)
THEOREM MeaningAlwaysSound == MeaningSpec => []MeaningSound
PROOF
  <1>1. MeaningInit => MeaningInv
    BY MeaningInitInv
  <1>2. MeaningInv /\ [MeaningNext]_meaningVars => MeaningInv'
    BY MeaningNextInv
  <1>3. MeaningInv => MeaningSound
    BY DEF MeaningInv
  <1> QED
    BY <1>1, <1>2, <1>3, PTL DEF MeaningSpec

\* A step moves a target to the leader of its class at most.
LEMMA ResultsStep ==
  ASSUME MeaningInv, [MeaningNext]_meaningVars
  PROVE  [\A i \in Slot : means'[targets'[i]] = means[targets[i]]]_meaningVars
PROOF
  <1> SUFFICES ASSUME MeaningNext, NEW i \in Slot
               PROVE  means'[targets'[i]] = means[targets[i]]
    OBVIOUS
  <1>1. targets[i] \in Symbol /\ targets[i] \in defined
    BY DEF MeaningInv, Inv, TypeOK, IRVerifies
  <1>2. means[Leader[targets[i]]] = means[targets[i]]
    BY <1>1 DEF MeaningInv, MeaningSound
  <1>3. CASE SoundUnion
    BY <1>3 DEF SoundUnion, UnionValueTuples, ir
  <1>4. ASSUME NEW t \in Term, NEW s \in Symbol, MeaningIntern(t, s)
        PROVE  means'[targets'[i]] = means[targets[i]]
    <2>1. targets' = targets /\ s \notin defined
      BY <1>4 DEF MeaningIntern, Intern, IsFresh
    <2> QED
      BY <2>1, <1>1, <1>4, MeaningInternInv
  <1>5. CASE MeaningRunning
    <2>1. CASE \E p \in work : UnionLeaderSymbols(p)
      BY <2>1, <1>5 DEF MeaningRunning, UnionLeaderSymbols, ir
    <2>2. CASE RebuildRound
      BY <2>2, <1>2, <1>5 DEF MeaningRunning, RebuildRound
    <2>3. CASE RebuildFinish
      BY <2>3, <1>2, <1>5 DEF MeaningRunning, RebuildFinish
    <2> QED
      BY <1>5, <2>1, <2>2, <2>3 DEF MeaningRunning
  <1> QED
    BY <1>3, <1>4, <1>5 DEF MeaningNext

(***************************************************************************)
(* The results of a graph keep their values through every call, whatever   *)
(* is united and wherever the targets are moved.                           *)
(***************************************************************************)
THEOREM ResultsAlwaysKeepValue == MeaningSpec => ResultsKeepValue
PROOF
  <1>1. MeaningInit => MeaningInv
    BY MeaningInitInv
  <1>2. MeaningInv /\ [MeaningNext]_meaningVars => MeaningInv'
    BY MeaningNextInv
  <1>3. MeaningInv /\ [MeaningNext]_meaningVars =>
          [\A i \in Slot : means'[targets'[i]] = means[targets[i]]]_meaningVars
    BY ResultsStep
  <1> QED
    BY <1>1, <1>2, <1>3, PTL DEF MeaningSpec, ResultsKeepValue

-----------------------------------------------------------------------------
(***************************************************************************)
(* A selection outlives calls of the facade because a name, once known to  *)
(* the block or the union map, keeps its value: intern takes neither.      *)
(***************************************************************************)
Known(s) == s \in Input \/ s \in defined \/ parent[s] # s

\* A value of the block that one of the operations, or an argument, defines.
IsThere(value, ops) ==
  \/ value[1] = "arg" /\ value[2] \in 1..block.args
  \/ value[1] = "op" /\ \E k \in DOMAIN ops : ops[k].id = value[2]

IsClone(value) ==
  \/ value[1] = "arg" /\ value[2] \in 1..block.args
  \/ value[1] = "op" /\ \E k \in (Len(oldOps)+1)..Len(block.ops) : block.ops[k].id = value[2]

BlockInv ==
  /\ block \in [args : Nat, ops : Seq(Operation), results : [Slot -> BlockValue]]
  /\ \A i \in 1..block.args : ArgName(i) \in Input
  /\ DOMAIN computed = Ids(block)
  /\ \A i \in Slot : IsThere(block.results[i], IF call = "none" THEN block.ops ELSE oldOps)
  /\ ~extracted => \A i \in Slot : ResultValue(i) = means[targets[i]]

IsOperation(s) ==
  held.map[s][1] = "op" /\ (held.live => held.map[s] = <<"op", held.map[s][2]>>
                                         /\ held.map[s][2] \in terms[s])

IsAlias(s) ==
  \E m \in Symbol : held.map[s] = <<"alias", m>> /\ Known(m) /\ means[m] = means[s]

HeldInv ==
  /\ held = [live |-> held.live, explicit |-> held.explicit, roots |-> held.roots, map |-> held.map]
  /\ held # NoSelection =>
       /\ DOMAIN held.roots = Slot
       /\ \A i \in Slot : held.roots[i] \in Symbol /\ Known(held.roots[i])
       /\ ~held.explicit => \A i \in Slot : means[held.roots[i]] = means[targets[i]]
       /\ \A s \in DOMAIN held.map : s \in Symbol /\ Known(s) /\ (IsOperation(s) \/ IsAlias(s))

CallInv ==
  /\ call \in {"none", "state", "info"}
  /\ extracted \in BOOLEAN
  /\ call = "state" => ~extracted
  /\ call = "none" => values = <<>>
  /\ call # "none" =>
       /\ held # NoSelection /\ IsCurrent(held)
       /\ oldOps \in Seq(Operation)
       /\ Len(oldOps) <= Len(block.ops)
       /\ \A k \in 1..Len(oldOps) : block.ops[k] = oldOps[k]
  /\ \A s \in DOMAIN values :
       values[s] \in BlockValue /\ IsClone(values[s]) /\ ValueOf(values[s]) = means[s]

RewriteInv == MeaningInv /\ BlockInv /\ HeldInv /\ CallInv

-----------------------------------------------------------------------------
\* A name the block or the union map knows is never given to another value.
LEMMA KnownStays ==
  ASSUME MeaningInv, MeaningNext, NEW s \in Symbol, Known(s)
  PROVE  Known(s)' /\ means'[s] = means[s]
PROOF
  <1>1. CASE SoundUnion
    BY <1>1 DEF SoundUnion, UnionValueTuples, ir, Known
  <1>2. ASSUME NEW t \in Term, NEW n \in Symbol, MeaningIntern(t, n)
        PROVE  Known(s)' /\ means'[s] = means[s]
    <2>1. n \notin Input /\ n \notin defined /\ parent[n] = n /\ defined \subseteq defined' /\ parent' = parent
      BY <1>2 DEF MeaningIntern, Intern, IsFresh, EClass
    <2>2. s # n
      BY <2>1 DEF Known
    <2> QED
      BY <2>1, <2>2, <1>2, MeaningInternInv DEF Known
  <1>3. CASE MeaningRunning
    <2>1. means' = means
      BY <1>3 DEF MeaningRunning
    <2>2. ASSUME NEW p \in work, UnionLeaderSymbols(p)
          PROVE  Known(s)'
      <3>1. p[1] \in Symbol /\ p[2] \in Symbol /\ parent \in [Symbol -> Symbol]
        BY DEF MeaningInv, Inv, TypeOK
      <3>2. Leader[p[1]] \in Symbol /\ Leader[p[2]] \in Symbol
        BY <3>1, LeaderProps DEF MeaningInv, Inv
      <3> QED
        BY <2>2, <3>1, <3>2 DEF UnionLeaderSymbols, ir, Known, Link
    <2>3. CASE RebuildRound
      BY <2>1, <2>3 DEF RebuildRound, Known
    <2>4. CASE RebuildFinish
      <3>1. parent' = parent
        BY <2>4 DEF RebuildFinish
      <3>2. CASE s \in Input \/ parent[s] # s
        BY <2>1, <3>1, <3>2 DEF Known
      <3>3. CASE s \in defined /\ parent[s] = s
        <4>1. Leader[s] = s
          BY <3>3, LeaderProps DEF MeaningInv, Inv
        <4>2. s \in EClass => HasCandidates(terms, aliases, s)
          BY <3>3, <4>1 DEF MeaningInv, Inv, LeadersSound
        <4>3. s \in EClass => HasCandidates(AbsorbedTerms(Leader), AbsorbedAliases(Leader), s)
          BY <4>1, <4>2 DEF HasCandidates, AbsorbedTerms, AbsorbedAliases, IsAbsorbed
        <4>4. s \in defined'
          BY <3>3, <4>3, <2>4 DEF RebuildFinish, IsDead
        <4> QED
          BY <2>1, <4>4 DEF Known
      <3> QED
        BY <3>2, <3>3 DEF Known
    <2> QED
      BY <1>3, <2>1, <2>2, <2>3, <2>4 DEF MeaningRunning
  <1> QED
    BY <1>1, <1>2, <1>3 DEF MeaningNext

\* Every step of a rewrite is one of the facade, with sound clients, or none.
LEMMA StepOfFacade ==
  ASSUME [RewriteNext]_rewriteVars
  PROVE  [MeaningNext]_meaningVars
PROOF
  <1>1. CASE Grow
    BY <1>1 DEF Grow, MeaningNext, MeaningRunning
  <1>2. CASE Reindex
    BY <1>2 DEF Reindex, MeaningNext, MeaningRunning
  <1>3. CASE \E r \in Requests("info"), sel \in Selections : ExtractInfo(r[1], r[2], sel)
    BY <1>3 DEF ExtractInfo
  <1>4. CASE \E r \in Requests("state"), sel \in Selections : ExtractIntoBlock(r[1], r[2], sel)
    BY <1>4 DEF ExtractIntoBlock
  <1>5. CASE MaterializeInfo
    BY <1>5 DEF MaterializeInfo
  <1>6. CASE Materializing
    BY <1>6 DEF Materializing, Enter, MaterializeInput, MaterializeAlias, MaterializeOperation,
                MaterializeFails, MaterializeEnds, Return
  <1>7. CASE UNCHANGED rewriteVars
    BY <1>7 DEF rewriteVars
  <1> QED
    BY <1>1, <1>2, <1>3, <1>4, <1>5, <1>6, <1>7 DEF RewriteNext

\* Hence the graph keeps its meaning.
LEMMA FacadeInv ==
  ASSUME MeaningInv, [RewriteNext]_rewriteVars
  PROVE  MeaningInv'
BY MeaningNextInv, StepOfFacade

-----------------------------------------------------------------------------
\* An imported block and its graph agree on the results.
LEMMA RewriteInitInv == RewriteInit => RewriteInv
PROOF
  <1> SUFFICES ASSUME RewriteInit PROVE RewriteInv
    OBVIOUS
  <1>1. MeaningInv
    BY MeaningInitInv DEF RewriteInit
  <1>2. /\ block \in Blocks
        /\ block \in [args : Nat, ops : Seq(Operation), results : [Slot -> BlockValue]]
        /\ IsImportable(block)
        /\ \A i \in 1..block.args : ArgName(i) \in Input /\ NameOf(block, <<"arg", i>>) = ArgName(i)
    BY BlocksOK DEF RewriteInit
  <1>3. targets = [i \in DOMAIN block.results |-> NameOf(block, block.results[i])]
    BY DEF RewriteInit, ir, Imported
  <1>4. computed = [n \in Ids(block) |-> means[NameOf(block, <<"op", n>>)]]
    BY DEF RewriteInit
  <1>5. call = "none" /\ values = <<>> /\ held = NoSelection /\ extracted = FALSE
    BY DEF RewriteInit
  <1>6. ASSUME NEW i \in Slot
        PROVE  IsThere(block.results[i], block.ops) /\ ResultValue(i) = means[targets[i]]
    <2> DEFINE v == block.results[i]
    <2>1. DOMAIN block.results = Slot /\ targets[i] = NameOf(block, v)
      BY <1>2, <1>3
    <2>2. v \in Before(block, Len(block.ops) + 1)
      BY <1>2, <2>1 DEF IsImportable
    <2>3. \/ \E k \in 1..block.args : v = <<"arg", k>>
          \/ \E j \in 1..Len(block.ops) : v = <<"op", block.ops[j].id>>
      BY <1>2, <2>2 DEF Before
    <2>4. CASE \E k \in 1..block.args : v = <<"arg", k>>
      <3>1. PICK k \in 1..block.args : v = <<"arg", k>>
        BY <2>4
      <3>2. v[1] = "arg" /\ v[2] = k
        BY <3>1
      <3>3. NameOf(block, v) = ArgName(k)
        BY <3>1, <1>2
      <3> QED
        BY <3>2, <3>3, <2>1 DEF IsThere, ResultValue, ValueOf
    <2>5. CASE \E j \in 1..Len(block.ops) : v = <<"op", block.ops[j].id>>
      <3>1. PICK j \in 1..Len(block.ops) : v = <<"op", block.ops[j].id>>
        BY <2>5
      <3> DEFINE n == block.ops[j].id
      <3>2. v[1] = "op" /\ v[2] = n /\ v[1] # "arg"
        BY <3>1
      <3>3. j \in DOMAIN block.ops /\ n \in Ids(block)
        BY <1>2 DEF Ids
      <3>4. computed[n] = means[NameOf(block, v)]
        BY <1>4, <3>1, <3>3
      <3> QED
        BY <3>2, <3>3, <3>4, <2>1 DEF IsThere, ResultValue, ValueOf
    <2> QED
      BY <2>3, <2>4, <2>5
  <1>7. BlockInv
    BY <1>2, <1>4, <1>5, <1>6 DEF BlockInv
  <1>8. HeldInv
    BY <1>5 DEF HeldInv, NoSelection
  <1>9. CallInv
    <2>1. call = "none" /\ values = <<>> /\ DOMAIN values = {} /\ call # "state"
      BY <1>5
    <2>2. extracted \in BOOLEAN
      BY <1>5
    <2> QED
      BY <2>1, <2>2 DEF CallInv
  <1> QED
    BY <1>1, <1>7, <1>8, <1>9 DEF RewriteInv

-----------------------------------------------------------------------------
\* Calls of the facade: nothing is materialized.

\* Steps of the graph leave the block alone.
LEMMA FacadeBlockInv ==
  ASSUME RewriteInv, MeaningNext, call = "none",
         UNCHANGED <<block, computed, call, oldOps, active, values, extracted>>
  PROVE  BlockInv' /\ \A i \in Slot : ResultValue(i)' = ResultValue(i)
PROOF
  <1>1. MeaningInv /\ BlockInv
    BY DEF RewriteInv
  <1>2. ASSUME NEW i \in Slot
        PROVE  ResultValue(i)' = ResultValue(i)
    <2> DEFINE v == block.results[i]
    <2>1. v' = v
      OBVIOUS
    <2>2. CASE v[1] = "arg" /\ v[2] \in 1..block.args
      <3>1. ArgName(v[2]) \in Input /\ ArgName(v[2]) \in Symbol
        BY <1>1, <2>2, ConstantsOK DEF BlockInv
      <3>2. means'[ArgName(v[2])] = means[ArgName(v[2])]
        BY <1>1, <3>1, KnownStays DEF Known
      <3> QED
        BY <2>1, <2>2, <3>2 DEF ResultValue, ValueOf
    <2>3. CASE v[1] = "op"
      BY <2>1, <2>3 DEF ResultValue, ValueOf
    <2> QED
      BY <1>1, <2>2, <2>3 DEF BlockInv, IsThere
  <1>3. ASSUME NEW i \in Slot
        PROVE  means'[targets'[i]] = means[targets[i]]
    <2>1. [\A j \in Slot : means'[targets'[j]] = means[targets[j]]]_meaningVars
      BY <1>1, ResultsStep
    <2> QED
      BY <2>1 DEF meaningVars, vars, ir
  <1>4. ~extracted' => \A i \in Slot : ResultValue(i)' = means'[targets'[i]]
    BY <1>1, <1>2, <1>3 DEF BlockInv
  <1>5. /\ block' \in [args : Nat, ops : Seq(Operation), results : [Slot -> BlockValue]]
        /\ \A i \in 1..block'.args : ArgName(i) \in Input
        /\ DOMAIN computed' = Ids(block')
    BY <1>1 DEF BlockInv
  <1>6. \A i \in Slot : IsThere(block.results[i], block.ops)'
    BY <1>1 DEF BlockInv, IsThere
  <1>7. BlockInv'
    BY <1>4, <1>5, <1>6 DEF BlockInv
  <1> QED
    BY <1>2, <1>7

\* A kept selection stays true: its candidates stay, or it is known to be
\* stale.
LEMMA FacadeHeldInv ==
  ASSUME RewriteInv, MeaningNext,
         \/ held' = held /\ \A s \in Symbol : Known(s) => terms[s] \subseteq terms'[s]
         \/ held' = [held EXCEPT !.live = FALSE]
  PROVE  HeldInv'
PROOF
  <1>1. MeaningInv /\ HeldInv
    BY DEF RewriteInv
  <1>2. \A s \in Symbol : Known(s) => Known(s)' /\ means'[s] = means[s]
    BY <1>1, KnownStays
  <1>3. \A i \in Slot : means'[targets'[i]] = means[targets[i]]
    <2>1. [\A j \in Slot : means'[targets'[j]] = means[targets[j]]]_meaningVars
      BY <1>1, ResultsStep
    <2> QED
      BY <2>1 DEF meaningVars, vars, ir
  <1>4. /\ held' = [live |-> held'.live, explicit |-> held'.explicit, roots |-> held'.roots,
                    map |-> held'.map]
        /\ held'.roots = held.roots /\ held'.explicit = held.explicit /\ held'.map = held.map
    BY <1>1 DEF HeldInv
  <1> SUFFICES ASSUME held' # NoSelection
               PROVE  /\ DOMAIN held'.roots = Slot
                      /\ (\A i \in Slot : held.roots[i] \in Symbol /\ Known(held.roots[i]))'
                      /\ ~held'.explicit =>
                           \A i \in Slot : means'[held'.roots[i]] = means'[targets'[i]]
                      /\ \A s \in DOMAIN held'.map :
                           s \in Symbol /\ Known(s)' /\ (IsOperation(s)' \/ IsAlias(s)')
    BY <1>4 DEF HeldInv
  <1>5. held # NoSelection
    BY <1>1 DEF HeldInv, NoSelection
  <1>6. DOMAIN held'.roots = Slot /\ (\A i \in Slot : held.roots[i] \in Symbol /\ Known(held.roots[i]))'
    <2>1. \A i \in Slot : held.roots[i] \in Symbol /\ Known(held.roots[i])
      BY <1>1, <1>5 DEF HeldInv
    <2> QED
      BY <1>1, <1>2, <1>4, <1>5, <2>1 DEF HeldInv, Known
  <1>7. ~held'.explicit => \A i \in Slot : means'[held'.roots[i]] = means'[targets'[i]]
    BY <1>1, <1>2, <1>3, <1>4, <1>5 DEF HeldInv
  <1>8. ASSUME NEW s \in DOMAIN held'.map
        PROVE  s \in Symbol /\ Known(s)' /\ (IsOperation(s)' \/ IsAlias(s)')
    <2>1. s \in DOMAIN held.map /\ s \in Symbol /\ Known(s) /\ (IsOperation(s) \/ IsAlias(s))
      BY <1>1, <1>4, <1>5 DEF HeldInv
    <2>2. CASE IsOperation(s)
      <3>1. CASE held' = held /\ terms[s] \subseteq terms'[s]
        <4>1. IsOperation(s)'
          BY <2>2, <3>1 DEF IsOperation
        <4> QED
          BY <1>2, <2>1, <4>1
      <3>2. CASE held' = [held EXCEPT !.live = FALSE]
        <4>1. ~held'.live
          BY <1>1, <3>2 DEF HeldInv
        <4>2. IsOperation(s)'
          BY <1>4, <2>2, <4>1 DEF IsOperation
        <4> QED
          BY <1>2, <2>1, <4>2
      <3> QED
        BY <2>1, <2>2, <3>1, <3>2
    <2>3. CASE IsAlias(s)
      BY <1>2, <1>4, <2>1, <2>3 DEF IsAlias
    <2> QED
      BY <1>2, <2>1, <2>2, <2>3
  <1> QED
    BY <1>6, <1>7, <1>8

\* Steps of the graph happen between calls.
LEMMA FacadeCallInv ==
  ASSUME RewriteInv, call = "none", UNCHANGED <<call, values, extracted>>
  PROVE  CallInv'
BY DEF RewriteInv, CallInv

\* Unions and interning keep the invariant.
LEMMA GrowInv ==
  ASSUME RewriteInv, Grow
  PROVE  RewriteInv' /\ \A i \in Slot : ResultValue(i)' = ResultValue(i)
PROOF
  <1>1. MeaningInv /\ MeaningNext
    BY StepOfFacade DEF Grow, RewriteInv, MeaningNext, MeaningRunning
  <1>2. call = "none" /\ held' = held
        /\ UNCHANGED <<block, computed, call, oldOps, active, values, extracted>>
    BY DEF Grow, frame
  <1>3. \A s \in Symbol : Known(s) => terms[s] \subseteq terms'[s]
    <2>1. CASE SoundUnion
      BY <2>1 DEF SoundUnion, UnionValueTuples, ir
    <2>2. CASE \E p \in work : UnionLeaderSymbols(p)
      BY <2>2 DEF UnionLeaderSymbols, ir
    <2>3. ASSUME NEW t \in Term, NEW n \in Symbol, MeaningIntern(t, n)
          PROVE  \A s \in Symbol : Known(s) => terms[s] \subseteq terms'[s]
      <3>1. ~Known(n)
        BY <2>3 DEF MeaningIntern, Intern, IsFresh, EClass, Known
      <3>2. \A s \in Symbol : s # n => terms'[s] = terms[s]
        BY <1>1, <2>3 DEF MeaningIntern, Intern, MeaningInv, Inv, TypeOK
      <3> QED
        BY <3>1, <3>2
    <2> QED
      BY <2>1, <2>2, <2>3 DEF Grow
  <1>4. MeaningInv'
    BY <1>1, MeaningNextInv
  <1>5. BlockInv' /\ \A i \in Slot : ResultValue(i)' = ResultValue(i)
    BY <1>1, <1>2, FacadeBlockInv
  <1>6. HeldInv'
    BY <1>1, <1>2, <1>3, FacadeHeldInv
  <1>7. CallInv'
    BY <1>2, FacadeCallInv
  <1> QED
    BY <1>4, <1>5, <1>6, <1>7 DEF RewriteInv

\* So does a rebuild, which makes kept selections stale.
LEMMA ReindexInv ==
  ASSUME RewriteInv, Reindex
  PROVE  RewriteInv' /\ \A i \in Slot : ResultValue(i)' = ResultValue(i)
PROOF
  <1>1. MeaningInv /\ MeaningNext
    BY DEF Reindex, RewriteInv, MeaningNext, MeaningRunning
  <1>2. call = "none" /\ held' = [held EXCEPT !.live = FALSE]
        /\ UNCHANGED <<block, computed, call, oldOps, active, values, extracted>>
    BY DEF Reindex, frame
  <1>3. MeaningInv'
    BY <1>1, MeaningNextInv
  <1>4. BlockInv' /\ \A i \in Slot : ResultValue(i)' = ResultValue(i)
    BY <1>1, <1>2, FacadeBlockInv
  <1>5. HeldInv'
    BY <1>1, <1>2, FacadeHeldInv
  <1>6. CallInv'
    BY <1>2, FacadeCallInv
  <1> QED
    BY <1>3, <1>4, <1>5, <1>6 DEF RewriteInv

-----------------------------------------------------------------------------
\* Extraction selects from the graph as it is, and a call begins.

\* What a selection holds are candidates of today's graph.
LEMMA SelectionFacts ==
  ASSUME NEW sel \in Selections, NEW s \in DOMAIN sel
  PROVE  s \in defined /\ sel[s] \in Candidates(s)
BY DEF Selections

\* A selection that is made now is true and current.
LEMMA RunExtractInv ==
  ASSUME RewriteInv, UNCHANGED meaningVars,
         NEW explicit \in BOOLEAN, NEW roots \in [Slot -> defined], NEW sel \in Selections,
         ~explicit => roots = targets,
         RunExtract(explicit, roots, sel)
  PROVE  /\ HeldInv'
         /\ held' # NoSelection
         /\ IsCurrent(held)'
PROOF
  <1>1. MeaningInv /\ MeaningSound /\ Inv
    BY DEF RewriteInv, MeaningInv
  <1>2. UNCHANGED <<defined, terms, aliases, targets, parent, means>>
    BY DEF meaningVars, vars, ir
  <1>3. /\ held' = [live |-> TRUE, explicit |-> explicit, roots |-> held'.roots, map |-> sel]
        /\ held'.live = TRUE /\ held'.explicit = explicit /\ held'.map = sel
        /\ held'.roots = [i \in Slot |-> Leader[roots[i]]]
    BY DEF RunExtract
  <1>4. held' # NoSelection
    BY <1>3 DEF NoSelection
  <1>5. DOMAIN held'.roots = Slot
    BY <1>3
  <1>6. ASSUME NEW i \in Slot
        PROVE  /\ held'.roots[i] \in Symbol /\ held'.roots[i] \in defined
               /\ ~explicit => means[held'.roots[i]] = means[targets[i]]
    <2>1. roots[i] \in defined /\ held'.roots[i] = Leader[roots[i]]
      BY <1>3
    <2>2. Leader[roots[i]] \in defined /\ roots[i] \in Symbol
      BY <1>1, <2>1, LeaderDefined
    <2>3. defined \subseteq Symbol
      BY <1>1 DEF Inv, TypeOK
    <2> QED
      BY <1>1, <2>1, <2>2, <2>3 DEF MeaningSound
  <1>7. (\A i \in Slot : held.roots[i] \in Symbol /\ Known(held.roots[i]))'
    BY <1>2, <1>6 DEF Known
  <1>8. ~held'.explicit => \A i \in Slot : means'[held'.roots[i]] = means'[targets'[i]]
    BY <1>2, <1>3, <1>6
  <1>9. ASSUME NEW s \in DOMAIN sel
        PROVE  s \in Symbol /\ Known(s)' /\ (IsOperation(s)' \/ IsAlias(s)')
    <2>1. s \in defined /\ s \in Symbol /\ sel[s] \in Candidates(s)
      BY <1>1, SelectionFacts DEF Inv, TypeOK
    <2>2. Known(s)'
      BY <1>2, <2>1 DEF Known
    <2>3. CASE \E t \in terms[s] : sel[s] = <<"op", t>>
      BY <1>2, <1>3, <2>1, <2>2, <2>3 DEF IsOperation
    <2>4. CASE \E m \in aliases[s] : sel[s] = <<"alias", m>>
      <3>1. PICK m \in aliases[s] : sel[s] = <<"alias", m>>
        BY <2>4
      <3>2. m \in Symbol /\ m \in defined /\ means[m] = means[s]
        BY <1>1, <2>1 DEF MeaningSound, Inv, TypeOK, IRVerifies
      <3>3. IsAlias(s)'
        BY <1>2, <1>3, <3>1, <3>2 DEF IsAlias, Known
      <3> QED
        BY <2>1, <2>2, <3>3
    <2> QED
      BY <2>1, <2>3, <2>4 DEF Candidates
  <1>10. IsCurrent(held)'
    BY <1>3 DEF IsCurrent
  <1>11. HeldInv'
    BY <1>3, <1>5, <1>7, <1>8, <1>9 DEF HeldInv
  <1> QED
    BY <1>4, <1>10, <1>11

\* A request is for the return targets, or for explicit roots.
LEMMA RequestFacts ==
  ASSUME RewriteInv, NEW how, NEW r \in Requests(how)
  PROVE  /\ r[1] \in BOOLEAN /\ r[2] \in [Slot -> defined]
         /\ ~r[1] => r[2] = targets
PROOF
  <1>1. targets \in [Slot -> defined]
    BY DEF RewriteInv, MeaningInv, Inv, TypeOK, IRVerifies
  <1>2. CASE r = <<FALSE, targets>>
    <2>1. r[1] = FALSE /\ r[2] = targets
      BY <1>2
    <2> QED
      BY <1>1, <2>1
  <1>3. CASE \E roots \in [Slot -> defined] : r = <<TRUE, roots>>
    <2>1. PICK roots \in [Slot -> defined] : r = <<TRUE, roots>>
      BY <1>3
    <2>2. r[1] = TRUE /\ r[2] = roots
      BY <2>1
    <2> QED
      BY <2>2
  <1> QED
    BY <1>2, <1>3 DEF Requests

\* Starting the materializer keeps the invariant.
LEMMA StartInv ==
  ASSUME RewriteInv, NEW how \in {"state", "info"}, NEW selection, Start(how, selection),
         how = "state" => ~extracted,
         held' # NoSelection, IsCurrent(held)',
         UNCHANGED <<meaningVars, block, computed, extracted>>
  PROVE  /\ BlockInv' /\ CallInv'
         /\ \A i \in Slot : ResultValue(i)' = ResultValue(i)
PROOF
  <1>1. UNCHANGED <<targets, means>>
    BY DEF meaningVars, vars, ir
  <1>2. /\ call = "none" /\ call' = how
        /\ oldOps' = block.ops /\ values' = <<>>
    BY DEF Start
  <1>3. \A i \in Slot : ResultValue(i)' = ResultValue(i)
    BY <1>1 DEF ResultValue, ValueOf
  <1>4. BlockInv'
    <2>1. \A i \in Slot : IsThere(block.results[i], block.ops)
      BY <1>2 DEF RewriteInv, BlockInv
    <2>2. \A i \in Slot : IsThere(block.results[i], oldOps)'
      BY <1>2, <2>1 DEF IsThere
    <2>3. ~extracted' => \A i \in Slot : ResultValue(i)' = means'[targets'[i]]
      BY <1>1, <1>3 DEF RewriteInv, BlockInv
    <2> QED
      BY <1>2, <2>2, <2>3 DEF RewriteInv, BlockInv
  <1>5. CallInv'
    BY <1>2 DEF CallInv, RewriteInv, BlockInv
  <1> QED
    BY <1>3, <1>4, <1>5

\* Selecting for later keeps the invariant.
LEMMA ExtractInfoInv ==
  ASSUME RewriteInv, NEW r \in Requests("info"), NEW sel \in Selections,
         ExtractInfo(r[1], r[2], sel)
  PROVE  RewriteInv' /\ \A i \in Slot : ResultValue(i)' = ResultValue(i)
PROOF
  <1>1. /\ UNCHANGED <<meaningVars, block, computed, call, oldOps, active, values, extracted>>
        /\ UNCHANGED <<targets, means>>
        /\ call = "none" /\ RunExtract(r[1], r[2], sel)
    BY DEF ExtractInfo, frame, meaningVars, vars, ir
  <1>2. HeldInv'
    BY <1>1, RunExtractInv, RequestFacts
  <1>3. \A i \in Slot : ResultValue(i)' = ResultValue(i)
    BY <1>1 DEF ResultValue, ValueOf
  <1>4. BlockInv' /\ CallInv'
    BY <1>1, <1>3 DEF RewriteInv, BlockInv, CallInv, IsThere
  <1>5. MeaningInv'
    BY <1>1, MeaningNextInv DEF RewriteInv
  <1> QED
    BY <1>2, <1>3, <1>4, <1>5 DEF RewriteInv

\* So does selecting and starting to materialize at once.
LEMMA ExtractIntoBlockInv ==
  ASSUME RewriteInv, NEW r \in Requests("state"), NEW sel \in Selections,
         ExtractIntoBlock(r[1], r[2], sel)
  PROVE  RewriteInv' /\ \A i \in Slot : ResultValue(i)' = ResultValue(i)
PROOF
  <1>1. /\ UNCHANGED <<meaningVars, block, computed, extracted>>
        /\ ~extracted /\ RunExtract(r[1], r[2], sel) /\ Start("state", held')
    BY DEF ExtractIntoBlock
  <1>2. HeldInv' /\ held' # NoSelection /\ IsCurrent(held)'
    BY <1>1, RunExtractInv, RequestFacts
  <1>3. BlockInv' /\ CallInv' /\ \A i \in Slot : ResultValue(i)' = ResultValue(i)
    BY <1>1, <1>2, StartInv
  <1>4. MeaningInv'
    BY <1>1, MeaningNextInv DEF RewriteInv
  <1> QED
    BY <1>2, <1>3, <1>4 DEF RewriteInv

\* So does starting on a kept selection.
LEMMA MaterializeInfoInv ==
  ASSUME RewriteInv, MaterializeInfo
  PROVE  RewriteInv' /\ \A i \in Slot : ResultValue(i)' = ResultValue(i)
PROOF
  <1>1. /\ UNCHANGED <<meaningVars, block, computed, held, extracted>>
        /\ held # NoSelection /\ IsCurrent(held) /\ Start("info", held)
    BY DEF MaterializeInfo
  <1>2. HeldInv' /\ IsCurrent(held)'
    BY <1>1 DEF RewriteInv, HeldInv, IsOperation, IsAlias, Known, IsCurrent, meaningVars, vars, ir
  <1>3. BlockInv' /\ CallInv' /\ \A i \in Slot : ResultValue(i)' = ResultValue(i)
    BY <1>1, <1>2, StartInv
  <1>4. MeaningInv'
    BY <1>1, MeaningNextInv DEF RewriteInv
  <1> QED
    BY <1>2, <1>3, <1>4 DEF RewriteInv

-----------------------------------------------------------------------------
\* The steps of the materializer.

\* What holds of a kept selection depends on the graph and it alone.
LEMMA HeldSame ==
  ASSUME RewriteInv, UNCHANGED <<meaningVars, held>>
  PROVE  MeaningInv' /\ HeldInv' /\ (IsCurrent(held) => IsCurrent(held)')
PROOF
  <1>1. MeaningInv'
    BY MeaningNextInv DEF RewriteInv
  <1>2. UNCHANGED <<defined, terms, aliases, targets, parent, means>>
    BY DEF meaningVars, vars, ir
  <1> QED
    BY <1>1, <1>2 DEF RewriteInv, HeldInv, IsOperation, IsAlias, Known, IsCurrent

\* Cached values stay, and a name gets one that means the same.
LEMMA ReturnCallInv ==
  ASSUME RewriteInv, call # "none", NEW value \in BlockValue, Return(value),
         \A w \in BlockValue : IsClone(w) => IsClone(w)' /\ ValueOf(w)' = ValueOf(w),
         IsClone(value)', ValueOf(value)' = means[Top],
         Len(oldOps) <= Len(block'.ops),
         \A k \in 1..Len(oldOps) : block'.ops[k] = oldOps[k]
  PROVE  CallInv'
PROOF
  <1>1. UNCHANGED <<meaningVars, held, call, oldOps, extracted>> /\ means' = means
    BY DEF Return, meaningVars
  <1>2. IsCurrent(held)'
    BY <1>1, HeldSame DEF RewriteInv, CallInv
  <1>3. /\ DOMAIN values' = DOMAIN values \cup {Top}
        /\ \A s \in DOMAIN values' : values'[s] = IF s = Top THEN value ELSE values[s]
    BY DEF Return
  <1>4. ASSUME NEW s \in DOMAIN values', NEW w, w = values'[s]
        PROVE  w \in BlockValue /\ IsClone(w)' /\ ValueOf(w)' = means'[s]
    <2>1. CASE s = Top
      BY <1>1, <1>3, <1>4, <2>1
    <2>2. CASE s # Top
      <3>1. s \in DOMAIN values /\ w = values[s]
        BY <1>3, <1>4, <2>2
      <3>2. w \in BlockValue /\ IsClone(w) /\ ValueOf(w) = means[s]
        BY <3>1 DEF RewriteInv, CallInv
      <3> QED
        BY <1>1, <3>2
    <2> QED
      BY <2>1, <2>2
  <1>5. (\A s \in DOMAIN values :
           values[s] \in BlockValue /\ IsClone(values[s]) /\ ValueOf(values[s]) = means[s])'
    BY <1>4 DEF IsClone, ValueOf
  <1>6. /\ call' \in {"none", "state", "info"} /\ call' # "none"
        /\ extracted' \in BOOLEAN /\ (call' = "state" => ~extracted')
        /\ held' # NoSelection /\ oldOps' \in Seq(Operation)
        /\ Len(oldOps') <= Len(block'.ops)
        /\ \A k \in 1..Len(oldOps') : block'.ops[k] = oldOps'[k]
    BY <1>1 DEF RewriteInv, CallInv
  <1> QED
    BY <1>2, <1>5, <1>6 DEF CallInv

\* The same, for a value that was there before.
LEMMA ReturnInv ==
  ASSUME RewriteInv, call # "none", NEW value \in BlockValue, Return(value),
         UNCHANGED <<block, computed>>, IsClone(value), ValueOf(value) = means[Top]
  PROVE  RewriteInv' /\ \A i \in Slot : ResultValue(i)' = ResultValue(i)
PROOF
  <1>1. UNCHANGED <<meaningVars, held, call, oldOps, extracted, targets, means>>
    BY DEF Return, meaningVars, vars, ir
  <1>2. MeaningInv' /\ HeldInv'
    BY <1>1, HeldSame
  <1>3. \A i \in Slot : ResultValue(i)' = ResultValue(i)
    BY <1>1 DEF ResultValue, ValueOf
  <1>4. BlockInv'
    BY <1>1, <1>3 DEF RewriteInv, BlockInv, IsThere
  <1>5. \A v \in BlockValue : (IsClone(v) => IsClone(v)') /\ ValueOf(v)' = ValueOf(v)
    BY <1>1 DEF IsClone, ValueOf
  <1>6. CallInv'
    BY <1>5, ReturnCallInv DEF RewriteInv, CallInv
  <1> QED
    BY <1>2, <1>3, <1>4, <1>6 DEF RewriteInv

\* Recursing keeps the invariant.
LEMMA EnterInv ==
  ASSUME RewriteInv, Enter
  PROVE  RewriteInv' /\ \A i \in Slot : ResultValue(i)' = ResultValue(i)
PROOF
  <1>1. UNCHANGED <<meaningVars, block, computed, held, call, oldOps, values, extracted, targets, means>>
    BY DEF Enter, meaningVars, vars, ir
  <1>2. MeaningInv' /\ HeldInv' /\ (IsCurrent(held) => IsCurrent(held)')
    BY <1>1, HeldSame
  <1>3. \A i \in Slot : ResultValue(i)' = ResultValue(i)
    BY <1>1 DEF ResultValue, ValueOf
  <1>4. BlockInv' /\ CallInv'
    BY <1>1, <1>2, <1>3 DEF RewriteInv, BlockInv, CallInv, IsThere, IsClone, ValueOf
  <1> QED
    BY <1>2, <1>3, <1>4 DEF RewriteInv

\* The value of an input is the argument it stands for.
LEMMA MaterializeInputInv ==
  ASSUME RewriteInv, MaterializeInput
  PROVE  RewriteInv' /\ \A i \in Slot : ResultValue(i)' = ResultValue(i)
PROOF
  <1>1. PICK i \in Inputs : Return(<<"arg", i>>)
    BY DEF MaterializeInput
  <1>2. i \in 1..block.args /\ ArgName(i) = Top /\ block.args \in Nat
    BY DEF Inputs, RewriteInv, BlockInv
  <1>3. <<"arg", i>> \in BlockValue
    BY <1>2 DEF BlockValue
  <1>4. IsClone(<<"arg", i>>) /\ ValueOf(<<"arg", i>>) = means[Top]
    BY <1>2 DEF IsClone, ValueOf
  <1> QED
    BY <1>1, <1>3, <1>4, ReturnInv DEF MaterializeInput

\* The value of an alias is that of the name it yields.
LEMMA MaterializeAliasInv ==
  ASSUME RewriteInv, MaterializeAlias
  PROVE  RewriteInv' /\ \A i \in Slot : ResultValue(i)' = ResultValue(i)
PROOF
  <1>1. /\ call # "none" /\ active # <<>> /\ Top \in DOMAIN held.map
        /\ AllMade /\ held.map[Top][1] = "alias"
        /\ UNCHANGED <<block, computed>>
    BY DEF MaterializeAlias, Ready
  <1>2. held # NoSelection /\ (IsOperation(Top) \/ IsAlias(Top))
    BY <1>1 DEF RewriteInv, HeldInv, CallInv
  <1>3. PICK m \in Symbol : held.map[Top] = <<"alias", m>> /\ means[m] = means[Top]
    BY <1>1, <1>2 DEF IsOperation, IsAlias
  <1>4. held.map[Top][2] = m /\ Names = <<m>>
    BY <1>1, <1>3 DEF Names, Payloads
  <1>5. m \in DOMAIN values
    BY <1>1, <1>4 DEF AllMade, IsMade
  <1>6. Return(values[m])
    BY <1>4 DEF MaterializeAlias
  <1>7. values[m] \in BlockValue /\ IsClone(values[m]) /\ ValueOf(values[m]) = means[m]
    BY <1>5 DEF RewriteInv, CallInv
  <1> QED
    BY <1>1, <1>3, <1>6, <1>7, ReturnInv

\* The operation on top computes, from the values of its operands, what its name means.
LEMMA OperandFacts ==
  ASSUME RewriteInv, Ready("op"), NEW t, t = held.map[Top][2]
  PROVE  /\ t \in Term /\ TermValue(means, t) = means[Top]
         /\ Operands(t) \in Seq(BlockValue) /\ DOMAIN Operands(t) = 1..Arity[t.op]
         /\ \A i \in 1..Arity[t.op] : ValueOf(Operands(t)[i]) = means[t.args[i]]
PROOF
  <1>1. /\ call # "none" /\ Top \in DOMAIN held.map /\ active # <<>>
        /\ AllMade /\ held.map[Top][1] = "op"
    BY DEF Ready
  <1>2. held # NoSelection /\ IsCurrent(held) /\ Top \in Symbol /\ (IsOperation(Top) \/ IsAlias(Top))
    BY <1>1 DEF RewriteInv, HeldInv, CallInv
  <1>3. held.live
    BY <1>1, <1>2 DEF IsCurrent
  <1>4. held.map[Top] = <<"op", t>> /\ t \in terms[Top]
    BY <1>1, <1>2, <1>3 DEF IsOperation, IsAlias
  <1>5. t \in Term /\ TermValue(means, t) = means[Top]
    BY <1>2, <1>4 DEF RewriteInv, MeaningInv, Inv, TypeOK, MeaningSound
  <1>6. Names = t.args
    BY <1>1, <1>4 DEF Names, Payloads
  <1>7. t.op \in Op /\ t.args \in [1..Arity[t.op] -> Symbol] /\ Arity[t.op] \in Nat
    BY <1>5, TermFields, ConstantsOK
  <1>8. ASSUME NEW i \in 1..Arity[t.op]
        PROVE  /\ Operands(t)[i] \in BlockValue
               /\ ValueOf(Operands(t)[i]) = means[t.args[i]]
    <2>1. t.args[i] \in DOMAIN values
      BY <1>1, <1>6, <1>7 DEF AllMade, IsMade
    <2>2. Operands(t)[i] = values[t.args[i]]
      BY DEF Operands
    <2> QED
      BY <2>1, <2>2 DEF RewriteInv, CallInv
  <1>9. Operands(t) \in [1..Arity[t.op] -> BlockValue]
    BY <1>8 DEF Operands
  <1> QED
    BY <1>5, <1>7, <1>8, <1>9

\* A clone computes the value its name means.
LEMMA MaterializeOperationInv ==
  ASSUME RewriteInv, MaterializeOperation
  PROVE  RewriteInv' /\ \A i \in Slot : ResultValue(i)' = ResultValue(i)
PROOF
  <1> DEFINE t == held.map[Top][2]
  <1>1. PICK n \in 1..MaxId :
          /\ n \notin Ids(block)
          /\ block' = [block EXCEPT !.ops = Append(@, Clone(t, n))]
          /\ computed' = [m \in DOMAIN computed \cup {n} |->
                            IF m = n
                            THEN Eval(t.op, [i \in 1..Arity[t.op] |-> ValueOf(Operands(t)[i])])
                            ELSE computed[m]]
          /\ Return(<<"op", n>>)
    BY DEF MaterializeOperation, IsNextId
  <1>2. /\ t \in Term /\ TermValue(means, t) = means[Top]
        /\ Operands(t) \in Seq(BlockValue)
        /\ \A i \in 1..Arity[t.op] : ValueOf(Operands(t)[i]) = means[t.args[i]]
    BY OperandFacts DEF MaterializeOperation
  <1>3. UNCHANGED <<meaningVars, held, call, oldOps, extracted, targets, means>> /\ call # "none"
    BY <1>1 DEF MaterializeOperation, Return, Ready, meaningVars, vars, ir
  <1>4. MeaningInv' /\ HeldInv'
    BY <1>3, HeldSame
  <1>5. Clone(t, n) \in Operation /\ Clone(t, n).id = n
    <2>1. t.op \in Op /\ n \in Nat
      BY <1>2, TermFields
    <2> QED
      BY <1>2, <2>1 DEF Clone, Operation, Stems
  <1>6. /\ block' \in [args : Nat, ops : Seq(Operation), results : [Slot -> BlockValue]]
        /\ block'.args = block.args /\ block'.results = block.results
        /\ Len(block'.ops) = Len(block.ops) + 1
        /\ block'.ops[Len(block.ops) + 1] = Clone(t, n)
        /\ \A k \in 1..Len(block.ops) : block'.ops[k] = block.ops[k]
    <2> DEFINE longer == Append(block.ops, Clone(t, n))
    <2>1. block \in [args : Nat, ops : Seq(Operation), results : [Slot -> BlockValue]]
      BY DEF RewriteInv, BlockInv
    <2>2. block.ops \in Seq(Operation)
      BY <2>1
    <2> HIDE DEF t
    <2>3. /\ longer \in Seq(Operation) /\ Len(longer) = Len(block.ops) + 1
          /\ longer[Len(block.ops) + 1] = Clone(t, n)
          /\ \A k \in 1..Len(block.ops) : longer[k] = block.ops[k]
      BY <1>5, <2>2
    <2>4. block' = [block EXCEPT !.ops = longer]
      BY <1>1
    <2> HIDE DEF longer
    <2>5. block'.ops = longer /\ block'.args = block.args /\ block'.results = block.results
          /\ block' \in [args : Nat, ops : Seq(Operation), results : [Slot -> BlockValue]]
      BY <2>1, <2>3, <2>4
    <2> QED
      BY <2>3, <2>5
  <1>7. Ids(block') = Ids(block) \cup {n}
    <2>1. block.ops \in Seq(Operation) /\ block'.ops \in Seq(Operation)
      BY <1>6 DEF RewriteInv, BlockInv
    <2>2. DOMAIN block.ops = 1..Len(block.ops) /\ DOMAIN block'.ops = 1..(Len(block.ops) + 1)
          /\ Len(block.ops) \in Nat
      BY <1>6, <2>1
    <2>3. DOMAIN block'.ops = DOMAIN block.ops \cup {Len(block.ops) + 1}
      BY <2>2
    <2>4. \A k \in DOMAIN block.ops : block'.ops[k].id = block.ops[k].id
      BY <1>6, <2>2
    <2>5. block'.ops[Len(block.ops) + 1].id = n
      BY <1>5, <1>6
    <2> QED
      BY <2>3, <2>4, <2>5 DEF Ids
  <1>8. /\ DOMAIN computed' = Ids(block')
        /\ computed'[n] = means[Top]
        /\ \A m \in Ids(block) : computed'[m] = computed[m]
    <2>1. DOMAIN computed = Ids(block)
      BY DEF RewriteInv, BlockInv
    <2>2. computed'[n] = Eval(t.op, [i \in 1..Arity[t.op] |-> ValueOf(Operands(t)[i])])
      BY <1>1
    <2>3. [i \in 1..Arity[t.op] |-> ValueOf(Operands(t)[i])]
            = [i \in 1..Arity[t.op] |-> means[t.args[i]]]
      BY <1>2
    <2>4. computed'[n] = means[Top]
      BY <1>2, <2>2, <2>3 DEF TermValue
    <2> QED
      BY <1>1, <1>7, <2>1, <2>4
  <1>9. oldOps \in Seq(Operation) /\ Len(oldOps) <= Len(block.ops)
        /\ \A k \in 1..Len(oldOps) : block.ops[k] = oldOps[k]
    BY <1>3 DEF RewriteInv, CallInv
  <1>10. Len(block.ops) \in Nat /\ Len(oldOps) \in Nat
    BY <1>9 DEF RewriteInv, BlockInv
  <1>11. ASSUME NEW i \in Slot
         PROVE  ResultValue(i)' = ResultValue(i)
    <2>1. IsThere(block.results[i], oldOps)
      BY <1>3 DEF RewriteInv, BlockInv
    <2>2. CASE block.results[i][1] = "arg"
      BY <1>3, <1>6, <2>2 DEF ResultValue, ValueOf
    <2>3. CASE block.results[i][1] = "op" /\ \E k \in DOMAIN oldOps : oldOps[k].id = block.results[i][2]
      <3>1. PICK k \in 1..Len(oldOps) : oldOps[k].id = block.results[i][2]
        BY <1>9, <2>3
      <3>2. k \in DOMAIN block.ops /\ block.ops[k].id = block.results[i][2]
        BY <1>9, <1>10, <3>1 DEF RewriteInv, BlockInv
      <3>3. block.results[i][2] \in Ids(block)
        BY <3>2 DEF Ids
      <3> QED
        BY <1>6, <1>8, <2>3, <3>3 DEF ResultValue, ValueOf
    <2> QED
      BY <2>1, <2>2, <2>3 DEF IsThere
  <1>12. BlockInv'
    <2>1. \A i \in Slot : IsThere(block.results[i], oldOps)'
      BY <1>3, <1>6 DEF RewriteInv, BlockInv, IsThere
    <2>2. ~extracted' => \A i \in Slot : ResultValue(i)' = means'[targets'[i]]
      BY <1>3, <1>11 DEF RewriteInv, BlockInv
    <2>3. \A i \in 1..block'.args : ArgName(i) \in Input
      BY <1>6 DEF RewriteInv, BlockInv
    <2> QED
      BY <1>3, <1>6, <1>8, <2>1, <2>2, <2>3 DEF BlockInv
  <1>13. ASSUME NEW w \in BlockValue, IsClone(w)
         PROVE  IsClone(w)' /\ ValueOf(w)' = ValueOf(w)
    <2>1. CASE w[1] = "arg" /\ w[2] \in 1..block.args
      BY <1>3, <1>6, <2>1 DEF IsClone, ValueOf
    <2>2. CASE w[1] = "op" /\ \E k \in (Len(oldOps)+1)..Len(block.ops) : block.ops[k].id = w[2]
      <3>1. PICK k \in (Len(oldOps)+1)..Len(block.ops) : block.ops[k].id = w[2]
        BY <2>2
      <3>2. k \in DOMAIN block.ops /\ block'.ops[k] = block.ops[k]
            /\ k \in (Len(oldOps)+1)..Len(block'.ops)
        BY <1>6, <1>10, <3>1 DEF RewriteInv, BlockInv
      <3>3. w[2] \in Ids(block)
        BY <3>1, <3>2 DEF Ids
      <3>4. IsClone(w)'
        BY <1>3, <2>2, <3>1, <3>2 DEF IsClone
      <3> QED
        BY <1>8, <2>2, <3>3, <3>4 DEF ValueOf
    <2> QED
      BY <1>13, <2>1, <2>2 DEF IsClone
  <1>14. IsClone(<<"op", n>>)' /\ ValueOf(<<"op", n>>)' = means[Top] /\ <<"op", n>> \in BlockValue
    <2>1. <<"op", n>>[1] = "op" /\ <<"op", n>>[2] = n /\ "op" # "arg" /\ n \in Nat
      OBVIOUS
    <2>2. Len(block.ops) + 1 \in (Len(oldOps)+1)..Len(block'.ops)
          /\ block'.ops[Len(block.ops) + 1].id = n
      BY <1>5, <1>6, <1>9, <1>10
    <2>3. IsClone(<<"op", n>>)'
      BY <1>3, <2>1, <2>2 DEF IsClone
    <2>4. ValueOf(<<"op", n>>)' = means[Top]
      BY <1>8, <2>1 DEF ValueOf
    <2> QED
      BY <2>1, <2>3, <2>4 DEF BlockValue
  <1>15. Len(oldOps) <= Len(block'.ops) /\ \A k \in 1..Len(oldOps) : block'.ops[k] = oldOps[k]
    BY <1>6, <1>9, <1>10
  <1>16. CallInv'
    BY <1>1, <1>3, <1>13, <1>14, <1>15, ReturnCallInv
  <1> QED
    BY <1>4, <1>11, <1>12, <1>16 DEF RewriteInv

-----------------------------------------------------------------------------
\* The end of a call.

\* What is still there keeps its value.
LEMMA FinishValue ==
  ASSUME Finish, UNCHANGED meaningVars, NEW v, IsThere(v, block.ops)'
  PROVE  ValueOf(v)' = ValueOf(v)
PROOF
  <1>1. means' = means /\ computed' = [n \in Ids(block') |-> computed[n]]
    BY DEF Finish, meaningVars
  <1>2. CASE v[1] = "arg"
    BY <1>1, <1>2 DEF ValueOf
  <1>3. CASE v[1] = "op" /\ \E k \in DOMAIN block'.ops : block'.ops[k].id = v[2]
    <2>1. v[2] \in Ids(block')
      BY <1>3 DEF Ids
    <2> QED
      BY <1>1, <1>3, <2>1 DEF ValueOf
  <1> QED
    BY <1>2, <1>3 DEF IsThere

\* Ending a call keeps the invariant if the results are right.
LEMMA FinishInv ==
  ASSUME RewriteInv, Finish, UNCHANGED meaningVars, extracted' \in BOOLEAN,
         block' \in [args : Nat, ops : Seq(Operation), results : [Slot -> BlockValue]],
         block'.args = block.args,
         (\A i \in Slot : IsThere(block.results[i], block.ops))',
         ~extracted' => \A i \in Slot : ResultValue(i)' = means[targets[i]]
  PROVE  RewriteInv'
PROOF
  <1>1. UNCHANGED <<defined, terms, aliases, targets, parent, means>>
    BY DEF meaningVars, vars, ir
  <1>2. /\ call' = "none" /\ computed' = [n \in Ids(block') |-> computed[n]]
        /\ held' = NoSelection \/ held' = held
        /\ values' = <<>>
    BY DEF Finish
  <1>3. MeaningInv'
    BY MeaningNextInv DEF RewriteInv
  <1>4. HeldInv'
    <2>1. CASE held' = held
      BY <2>1, HeldSame
    <2>2. CASE held' = NoSelection
      BY <2>2 DEF HeldInv, NoSelection
    <2> QED
      BY <1>2, <2>1, <2>2
  <1>5. BlockInv'
    <2>1. \A i \in 1..block'.args : ArgName(i) \in Input
      BY DEF RewriteInv, BlockInv
    <2> QED
      BY <1>1, <1>2, <2>1 DEF BlockInv
  <1>6. CallInv'
    BY <1>2 DEF CallInv
  <1> QED
    BY <1>3, <1>4, <1>5, <1>6 DEF RewriteInv

\* The old operations come before the clones.
LEMMA OldOpsFacts ==
  ASSUME RewriteInv, call # "none"
  PROVE  /\ block \in [args : Nat, ops : Seq(Operation), results : [Slot -> BlockValue]]
         /\ block.ops \in Seq(Operation) /\ oldOps \in Seq(Operation)
         /\ Len(block.ops) \in Nat /\ Len(oldOps) \in Nat /\ Len(oldOps) <= Len(block.ops)
         /\ \A k \in 1..Len(oldOps) : block.ops[k] = oldOps[k]
         /\ SubSeq(block.ops, 1, Len(oldOps)) = oldOps
PROOF
  <1>1. block \in [args : Nat, ops : Seq(Operation), results : [Slot -> BlockValue]]
    BY DEF RewriteInv, BlockInv
  <1>2. /\ block.ops \in Seq(Operation) /\ oldOps \in Seq(Operation)
        /\ Len(block.ops) \in Nat /\ Len(oldOps) \in Nat /\ Len(oldOps) <= Len(block.ops)
        /\ \A k \in 1..Len(oldOps) : block.ops[k] = oldOps[k]
    BY <1>1 DEF RewriteInv, CallInv
  <1>3. SubSeq(block.ops, 1, Len(oldOps)) = oldOps
    BY <1>2
  <1> QED
    BY <1>1, <1>2, <1>3

\* The rollback leaves the old operations and results.
LEMMA MaterializeFailsInv ==
  ASSUME RewriteInv, MaterializeFails
  PROVE  /\ RewriteInv' /\ \A i \in Slot : ResultValue(i)' = ResultValue(i)
         /\ call = "state" => block' = [block EXCEPT !.ops = oldOps]
PROOF
  <1>1. /\ call # "none" /\ Finish /\ UNCHANGED <<meaningVars, extracted, means, targets>>
        /\ block' = IF call = "state" THEN [block EXCEPT !.ops = SubSeq(block.ops, 1, Len(oldOps))]
                    ELSE block
    BY DEF MaterializeFails, Rollback, meaningVars, vars, ir
  <1>2. /\ block \in [args : Nat, ops : Seq(Operation), results : [Slot -> BlockValue]]
        /\ oldOps \in Seq(Operation) /\ SubSeq(block.ops, 1, Len(oldOps)) = oldOps
        /\ Len(block.ops) \in Nat /\ Len(oldOps) \in Nat /\ Len(oldOps) <= Len(block.ops)
        /\ \A k \in 1..Len(oldOps) : block.ops[k] = oldOps[k]
        /\ block.ops \in Seq(Operation)
    BY <1>1, OldOpsFacts
  <1>3. call = "state" => block' = [block EXCEPT !.ops = oldOps]
    BY <1>1, <1>2
  <1>4. /\ block' \in [args : Nat, ops : Seq(Operation), results : [Slot -> BlockValue]]
        /\ block'.args = block.args /\ block'.results = block.results
        /\ block'.ops = oldOps \/ block'.ops = block.ops
    BY <1>1, <1>2, <1>3
  <1>5. \A k \in DOMAIN oldOps : k \in DOMAIN block'.ops /\ block'.ops[k] = oldOps[k]
    BY <1>2, <1>4
  <1>6. (\A i \in Slot : IsThere(block.results[i], block.ops))'
    <2>1. \A i \in Slot : IsThere(block.results[i], oldOps)
      BY <1>1 DEF RewriteInv, BlockInv
    <2> QED
      BY <1>4, <1>5, <2>1 DEF IsThere
  <1>7. ASSUME NEW i \in Slot PROVE ResultValue(i)' = ResultValue(i)
    <2> DEFINE v == block.results[i]
    <2>1. (block.results[i])' = v
      BY <1>4
    <2>2. ASSUME NEW w, w = v PROVE ValueOf(w)' = ValueOf(w)
      BY <1>1, <1>6, <2>1, <2>2, FinishValue DEF IsThere
    <2> QED
      BY <2>1, <2>2 DEF ResultValue, ValueOf
  <1>8. ~extracted' => \A i \in Slot : ResultValue(i)' = means[targets[i]]
    BY <1>1, <1>7 DEF RewriteInv, BlockInv
  <1>9. RewriteInv'
    <2>1. extracted' \in BOOLEAN
      BY <1>1 DEF RewriteInv, CallInv
    <2> QED
      BY <1>1, <1>4, <1>6, <1>8, <2>1, FinishInv
  <1> QED
    BY <1>3, <1>7, <1>9

\* The step of ResultsAsRequested.
Kept(i) ==
  ResultValue(i)' = IF extracted' # extracted /\ held.explicit
                    THEN means[held.roots[i]] ELSE ResultValue(i)

\* The replaced block has the results asked for.
LEMMA MaterializeEndsInv ==
  ASSUME RewriteInv, MaterializeEnds
  PROVE  RewriteInv' /\ \A i \in Slot : Kept(i)
PROOF
  <1>1. /\ call # "none" /\ active = <<>> /\ AllMade /\ Finish
        /\ UNCHANGED <<meaningVars, means, targets>>
        /\ extracted' = (extracted \/ call = "state")
        /\ block' = IF call = "state" THEN Rewritten ELSE block
    BY DEF MaterializeEnds, meaningVars, vars, ir
  <1>2. /\ block \in [args : Nat, ops : Seq(Operation), results : [Slot -> BlockValue]]
        /\ oldOps \in Seq(Operation) /\ block.ops \in Seq(Operation)
        /\ Len(block.ops) \in Nat /\ Len(oldOps) \in Nat /\ Len(oldOps) <= Len(block.ops)
        /\ \A k \in 1..Len(oldOps) : block.ops[k] = oldOps[k]
    BY <1>1, OldOpsFacts
  <1>3. /\ DOMAIN held.roots = Slot
        /\ ~held.explicit => \A i \in Slot : means[held.roots[i]] = means[targets[i]]
    BY <1>1 DEF RewriteInv, HeldInv, CallInv
  <1>4. ASSUME NEW i \in Slot
        PROVE  /\ values[held.roots[i]] \in BlockValue /\ IsClone(values[held.roots[i]])
               /\ ValueOf(values[held.roots[i]]) = means[held.roots[i]]
    <2>1. held.roots[i] \in DOMAIN values
      BY <1>1, <1>3 DEF AllMade, IsMade, Names
    <2> QED
      BY <2>1 DEF RewriteInv, CallInv
  <1>5. CASE call = "state"
    <2>1. ~extracted /\ extracted'
      BY <1>1, <1>5 DEF RewriteInv, CallInv
    <2> DEFINE rest == SubSeq(block.ops, Len(oldOps) + 1, Len(block.ops))
               res == [i \in Slot |-> values[held.roots[i]]]
    <2>2. /\ rest \in Seq(Operation) /\ Len(rest) = Len(block.ops) - Len(oldOps)
          /\ \A k \in 1..Len(rest) : rest[k] = block.ops[Len(oldOps) + k]
      BY <1>2
    <2>3. res \in [Slot -> BlockValue] /\ \A i \in Slot : res[i] = values[held.roots[i]]
      BY <1>4
    <2>4. block' = [block EXCEPT !.results = res, !.ops = rest]
      BY <1>1, <1>5 DEF Rewritten
    <2> HIDE DEF rest, res
    <2>5. /\ block' \in [args : Nat, ops : Seq(Operation), results : [Slot -> BlockValue]]
          /\ block'.args = block.args /\ block'.results = res /\ block'.ops = rest
      BY <1>2, <2>2, <2>3, <2>4
    <2>6. ASSUME NEW w \in BlockValue, IsClone(w) PROVE IsThere(w, block.ops)'
      <3>1. CASE w[1] = "arg" /\ w[2] \in 1..block.args
        BY <2>5, <3>1 DEF IsThere
      <3>2. CASE w[1] = "op" /\ \E k \in (Len(oldOps)+1)..Len(block.ops) : block.ops[k].id = w[2]
        <4>1. PICK k \in (Len(oldOps)+1)..Len(block.ops) : block.ops[k].id = w[2]
          BY <3>2
        <4>2. k - Len(oldOps) \in 1..Len(rest) /\ rest[k - Len(oldOps)] = block.ops[k]
          BY <1>2, <2>2, <4>1
        <4>3. k - Len(oldOps) \in DOMAIN rest
          BY <2>2, <4>2
        <4> QED
          BY <2>5, <3>2, <4>1, <4>2, <4>3 DEF IsThere
      <3> QED
        BY <2>6, <3>1, <3>2 DEF IsClone
    <2>7. ASSUME NEW i \in Slot, NEW w, w = values[held.roots[i]]
          PROVE  (block.results[i])' = w /\ IsThere(w, block.ops)' /\ ValueOf(w)' = means[held.roots[i]]
      <3>1. w \in BlockValue /\ IsClone(w) /\ ValueOf(w) = means[held.roots[i]]
        BY <1>4, <2>7
      <3>2. IsThere(w, block.ops)'
        BY <2>6, <3>1
      <3>3. ValueOf(w)' = ValueOf(w)
        BY <1>1, <3>2, FinishValue
      <3> QED
        BY <2>3, <2>5, <2>7, <3>1, <3>2, <3>3
    <2>8. (\A i \in Slot : IsThere(block.results[i], block.ops))'
      BY <2>7 DEF IsThere
    <2>9. \A i \in Slot : ResultValue(i)' = means[held.roots[i]]
      BY <2>7 DEF ResultValue, ValueOf
    <2>10. RewriteInv'
      BY <1>1, <2>1, <2>5, <2>8, FinishInv
    <2>11. ~held.explicit => \A i \in Slot : ResultValue(i) = means[held.roots[i]]
      BY <1>3, <2>1 DEF RewriteInv, BlockInv
    <2> QED
      BY <2>1, <2>9, <2>10, <2>11 DEF Kept
  <1>6. CASE call # "state"
    <2>1. block' = block /\ extracted' = extracted /\ extracted' \in BOOLEAN
      BY <1>1, <1>6 DEF RewriteInv, CallInv
    <2>2. \A k \in DOMAIN oldOps : k \in DOMAIN block.ops /\ block.ops[k] = oldOps[k]
      BY <1>2
    <2>3. (\A i \in Slot : IsThere(block.results[i], block.ops))'
      <3>1. \A i \in Slot : IsThere(block.results[i], oldOps)
        BY <1>1 DEF RewriteInv, BlockInv
      <3> QED
        BY <2>1, <2>2, <3>1 DEF IsThere
    <2>4. ASSUME NEW i \in Slot PROVE ResultValue(i)' = ResultValue(i)
      <3> DEFINE v == block.results[i]
      <3>1. ASSUME NEW w, w = v PROVE ValueOf(w)' = ValueOf(w)
        BY <1>1, <2>1, <2>3, <3>1, FinishValue DEF IsThere
      <3> QED
        BY <2>1, <3>1 DEF ResultValue, ValueOf
    <2>5. ~extracted' => \A i \in Slot : ResultValue(i)' = means[targets[i]]
      BY <2>1, <2>4 DEF RewriteInv, BlockInv
    <2>6. RewriteInv'
      BY <1>1, <1>2, <2>1, <2>3, <2>5, FinishInv
    <2> QED
      BY <2>1, <2>4, <2>6 DEF Kept
  <1> QED
    BY <1>5, <1>6

-----------------------------------------------------------------------------
\* Every step keeps the invariant, and the results.
LEMMA RewriteNextInv ==
  ASSUME RewriteInv, [RewriteNext]_rewriteVars
  PROVE  RewriteInv' /\ \A i \in Slot : Kept(i)
PROOF
  <1>1. CASE UNCHANGED rewriteVars
    <2>1. UNCHANGED <<meaningVars, block, computed, held, call, oldOps, active, values, extracted,
                      means, targets>>
      BY <1>1 DEF rewriteVars, frame, meaningVars, vars, ir
    <2>2. MeaningInv' /\ HeldInv' /\ (IsCurrent(held) => IsCurrent(held)')
      BY <2>1, HeldSame
    <2>3. BlockInv' /\ CallInv' /\ \A i \in Slot : ResultValue(i)' = ResultValue(i)
      BY <2>1, <2>2 DEF RewriteInv, BlockInv, CallInv, IsThere, IsClone, ValueOf, ResultValue
    <2> QED
      BY <2>1, <2>2, <2>3 DEF RewriteInv, Kept
  <1>2. CASE Grow
    <2>1. extracted' = extracted
      BY <1>2 DEF Grow
    <2> QED
      BY <1>2, <2>1, GrowInv DEF Kept
  <1>3. CASE Reindex
    <2>1. extracted' = extracted
      BY <1>3 DEF Reindex
    <2> QED
      BY <1>3, <2>1, ReindexInv DEF Kept
  <1>4. ASSUME NEW r \in Requests("info"), NEW sel \in Selections, ExtractInfo(r[1], r[2], sel)
        PROVE  RewriteInv' /\ \A i \in Slot : Kept(i)
    <2>1. extracted' = extracted
      BY <1>4 DEF ExtractInfo
    <2> QED
      BY <1>4, <2>1, ExtractInfoInv DEF Kept
  <1>5. ASSUME NEW r \in Requests("state"), NEW sel \in Selections, ExtractIntoBlock(r[1], r[2], sel)
        PROVE  RewriteInv' /\ \A i \in Slot : Kept(i)
    <2>1. extracted' = extracted
      BY <1>5 DEF ExtractIntoBlock
    <2> QED
      BY <1>5, <2>1, ExtractIntoBlockInv DEF Kept
  <1>6. CASE MaterializeInfo
    <2>1. extracted' = extracted
      BY <1>6 DEF MaterializeInfo
    <2> QED
      BY <1>6, <2>1, MaterializeInfoInv DEF Kept
  <1>7. CASE Materializing
    <2>1. CASE Enter
      BY <2>1, EnterInv DEF Kept, Enter
    <2>2. CASE MaterializeInput
      BY <2>2, MaterializeInputInv DEF Kept, MaterializeInput, Return
    <2>3. CASE MaterializeAlias
      BY <2>3, MaterializeAliasInv DEF Kept, MaterializeAlias, Return
    <2>4. CASE MaterializeOperation
      BY <2>4, MaterializeOperationInv DEF Kept, MaterializeOperation, Return
    <2>5. CASE MaterializeFails
      BY <2>5, MaterializeFailsInv DEF Kept, MaterializeFails
    <2>6. CASE MaterializeEnds
      BY <2>6, MaterializeEndsInv
    <2> QED
      BY <1>7, <2>1, <2>2, <2>3, <2>4, <2>5, <2>6 DEF Materializing
  <1> QED
    BY <1>1, <1>2, <1>3, <1>4, <1>5, <1>6, <1>7 DEF RewriteNext

\* A call on the block that ends without extraction restores it.
LEMMA FailureStep ==
  ASSUME RewriteInv, [RewriteNext]_rewriteVars, call = "state", call' = "none", ~extracted'
  PROVE  block' = [block EXCEPT !.ops = oldOps]
PROOF
  <1>1. MaterializeFails \/ MaterializeEnds
    BY DEF RewriteNext, rewriteVars, frame, Grow, Reindex, ExtractInfo, ExtractIntoBlock, Start,
           MaterializeInfo, Materializing, Enter, MaterializeInput, MaterializeAlias,
           MaterializeOperation, Return
  <1>2. ~MaterializeEnds
    BY DEF MaterializeEnds
  <1> QED
    BY <1>1, <1>2, MaterializeFailsInv

\* At any moment of a block's life: every value made so far means what its name
\* does, and the results of the block are those it had.
THEOREM RewriteAlways == RewriteSpec => []RewriteInv
PROOF
  <1>1. RewriteInit => RewriteInv
    BY RewriteInitInv
  <1>2. RewriteInv /\ [RewriteNext]_rewriteVars => RewriteInv'
    BY RewriteNextInv
  <1> QED
    BY <1>1, <1>2, PTL DEF RewriteSpec

(***************************************************************************)
(* Whatever is selected, however stale, each value that is materialized    *)
(* means what its name means.                                              *)
(***************************************************************************)
THEOREM MaterializedAlwaysSound == RewriteSpec => []MaterializedSound
PROOF
  <1>1. RewriteInv => MaterializedSound
    BY DEF RewriteInv, CallInv, MaterializedSound
  <1> QED
    BY <1>1, RewriteAlways, PTL

(***************************************************************************)
(* No operation is cloned that is not a candidate of the graph any more.   *)
(***************************************************************************)
THEOREM ClonesAlwaysCurrent == RewriteSpec => []ClonesCurrent
PROOF
  <1>1. RewriteInv => ClonesCurrent
    <2> SUFFICES ASSUME RewriteInv, call # "none",
                        NEW s \in DOMAIN held.map, held.map[s][1] = "op"
                 PROVE  held.map[s] \in Candidates(s)
      BY DEF ClonesCurrent
    <2>1. held # NoSelection /\ held.live
      BY DEF RewriteInv, CallInv, IsCurrent
    <2>2. IsOperation(s) \/ IsAlias(s)
      BY <2>1 DEF RewriteInv, HeldInv
    <2>3. ~IsAlias(s)
      BY DEF IsAlias
    <2>4. held.map[s] = <<"op", held.map[s][2]>> /\ held.map[s][2] \in terms[s]
      BY <2>1, <2>2, <2>3 DEF IsOperation
    <2> QED
      BY <2>4 DEF Candidates
  <1> QED
    BY <1>1, RewriteAlways, PTL

(***************************************************************************)
(* The results of a block keep their values, in every algebra, through its *)
(* import, any rewriting by sound clients, and extraction; those a client  *)
(* asked for by other roots have the values of these.                      *)
(***************************************************************************)
THEOREM ResultsAlwaysAsRequested == RewriteSpec => ResultsAsRequested
PROOF
  <1>1. RewriteInit => RewriteInv
    BY RewriteInitInv
  <1>2. RewriteInv /\ [RewriteNext]_rewriteVars => RewriteInv'
    BY RewriteNextInv
  <1>3. RewriteInv /\ [RewriteNext]_rewriteVars =>
          [\A i \in Slot : ResultValue(i)' = IF extracted' # extracted /\ held.explicit
                                            THEN means[held.roots[i]] ELSE ResultValue(i)]_rewriteVars
    BY RewriteNextInv DEF Kept
  <1> QED
    BY <1>1, <1>2, <1>3, PTL DEF RewriteSpec, ResultsAsRequested

(***************************************************************************)
(* An extraction that fails after it has cloned leaves the block as it was *)
(* when the call began.                                                    *)
(***************************************************************************)
THEOREM FailureAlwaysLeavesBlock == RewriteSpec => FailureLeavesBlock
PROOF
  <1>1. RewriteInit => RewriteInv
    BY RewriteInitInv
  <1>2. RewriteInv /\ [RewriteNext]_rewriteVars => RewriteInv'
    BY RewriteNextInv
  <1>3. RewriteInv /\ [RewriteNext]_rewriteVars =>
          [call = "state" /\ call' = "none" /\ ~extracted' =>
             block' = [block EXCEPT !.ops = oldOps]]_rewriteVars
    BY FailureStep
  <1> QED
    BY <1>1, <1>2, <1>3, PTL DEF RewriteSpec, FailureLeavesBlock
-----------------------------------------------------------------------------
(***************************************************************************)
(* The block stays importable.                                             *)
(***************************************************************************)

\* The order on the naturals, as a relation.
Less == {p \in Nat \X Nat : p[1] < p[2]}

\* A set of numbers that is not empty has a least one.
LEMMA LeastNatural ==
  ASSUME NEW T \in SUBSET Nat, T # {}
  PROVE  \E n \in T : \A m \in T : ~(m < n)
<1>1. IsWellFoundedOn(Less, Nat)
  BY NatLessThanWellFounded DEF OpToRel, Less
<1>2. PICK x \in T : \A y \in T : ~(<<y, x>> \in Less)
  BY <1>1, WFMin, Zenon
<1> QED BY <1>2 DEF Less

\* What an operation of a part of a block may use, if the part is to stand alone.
Since(b, first, k) ==
  {<<"arg", i>> : i \in 1..b.args} \cup {<<"op", b.ops[j].id>> : j \in first..(k-1)}

OpsValid(b) ==
  \A k \in DOMAIN b.ops :
    /\ b.ops[k].plain /\ b.ops[k].outputs = 1 /\ ~b.ops[k].escapes
    /\ \A i \in DOMAIN b.ops[k].operands : b.ops[k].operands[i] \in Since(b, 1, k)

Distinct(ops) == \A j, k \in DOMAIN ops : ops[j].id = ops[k].id => j = k

\* What an operation computes from the values c of operations and m of names.
Computed(o, c, m) ==
  Eval(o.op, [i \in DOMAIN o.operands |->
                IF o.operands[i][1] = "arg" THEN m[ArgName(o.operands[i][2])]
                ELSE c[o.operands[i][2]]])

Computes(b, c, m) ==
  /\ c = [n \in Ids(b) |-> c[n]]
  /\ \A k \in DOMAIN b.ops : c[b.ops[k].id] = Computed(b.ops[k], c, m)

\* The block b2 holds the operations of b from first to last.
IsPart(b2, b, first, last) ==
  b2.ops = SubSeq(b.ops, first, last) /\ b2.args = b.args

StandsAlone(b, first, last) ==
  \A k \in first..last : \A i \in DOMAIN b.ops[k].operands :
    b.ops[k].operands[i] \in Since(b, first, k)

\* The values of what stays, and those with one more.
ValuesOf(b, c) == [n \in Ids(b) |-> c[n]]

ValuesWith(b, c, m, o) ==
  [n \in Ids(b) \cup {o.id} |-> IF n = o.id THEN Computed(o, c, m) ELSE c[n]]

\* Clones use arguments and other clones, never what is to be erased.
ClonesApart ==
  call # "none" => StandsAlone(block, Len(oldOps) + 1, Len(block.ops))

ValidInv ==
  /\ OpsValid(block) /\ Distinct(block.ops)
  /\ Computes(block, computed, means)
  /\ ClonesApart

\* A part that uses only its own operations is a block like the whole.
LEMMA PartValid ==
  ASSUME NEW b, NEW b2, NEW c, NEW c2, NEW m, NEW first \in Nat \ {0}, NEW last \in Nat,
         first <= last + 1, last <= Len(b.ops), b.ops \in Seq(Operation),
         IsPart(b2, b, first, last),
         c2 = ValuesOf(b2, c),
         OpsValid(b), Distinct(b.ops), Computes(b, c, m),
         StandsAlone(b, first, last)
  PROVE  OpsValid(b2) /\ Distinct(b2.ops) /\ Computes(b2, c2, m)
<1> USE DEF IsPart, ValuesOf, StandsAlone
<1> DEFINE at(k) == first + k - 1
<1>1. /\ DOMAIN b2.ops = 1..(last - first + 1)
      /\ \A k \in DOMAIN b2.ops : /\ at(k) \in first..last /\ at(k) \in DOMAIN b.ops
                                  /\ b2.ops[k] = b.ops[at(k)]
  OBVIOUS
<1>2. \A j \in first..last : j - first + 1 \in DOMAIN b2.ops /\ at(j - first + 1) = j
  BY <1>1
<1>3. Distinct(b2.ops)
  <2>1. ASSUME NEW j \in DOMAIN b2.ops, NEW k \in DOMAIN b2.ops, b2.ops[j].id = b2.ops[k].id
        PROVE  j = k
    <3>1. at(j) \in DOMAIN b.ops /\ at(k) \in DOMAIN b.ops /\ b.ops[at(j)].id = b.ops[at(k)].id
      BY <1>1, <2>1
    <3>2. at(j) = at(k)
      BY <3>1 DEF Distinct
    <3> QED BY <1>1, <3>2
  <2> QED BY <2>1 DEF Distinct
<1>4. ASSUME NEW k \in DOMAIN b2.ops, NEW i \in DOMAIN b2.ops[k].operands
      PROVE  /\ b2.ops[k].operands[i] \in Since(b2, 1, k)
             /\ b2.ops[k].operands[i][1] # "arg" =>
                  c2[b2.ops[k].operands[i][2]] = c[b2.ops[k].operands[i][2]]
  <2> DEFINE v == b2.ops[k].operands[i]
  <2>1. v \in Since(b, first, at(k))
    BY <1>1, <1>4
  <2>2. CASE \E a \in 1..b.args : v = <<"arg", a>>
    <3>1. PICK a \in 1..b.args : v = <<"arg", a>>
      BY <2>2
    <3>2. v \in Since(b2, 1, k) /\ v[1] = "arg"
      BY <3>1 DEF Since
    <3> QED BY <3>2
  <2>3. CASE \E j \in first..(at(k) - 1) : v = <<"op", b.ops[j].id>>
    <3>1. PICK j \in first..(at(k) - 1) : v = <<"op", b.ops[j].id>>
      BY <2>3
    <3> DEFINE l == j - first + 1
    <3>2. l \in 1..(k - 1) /\ l \in DOMAIN b2.ops /\ b2.ops[l] = b.ops[j]
      BY <1>1, <3>1
    <3> HIDE DEF l
    <3>3. v = <<"op", b2.ops[l].id>> /\ v[2] = b2.ops[l].id
      BY <3>1, <3>2
    <3>4. b2.ops[l].id \in Ids(b2)
      BY <3>2 DEF Ids
    <3>5. v \in Since(b2, 1, k)
      BY <3>2, <3>3 DEF Since
    <3> QED BY <3>3, <3>4, <3>5
  <2> QED BY <2>1, <2>2, <2>3 DEF Since
<1>5. OpsValid(b2)
  <2>1. ASSUME NEW k \in DOMAIN b2.ops
        PROVE  b2.ops[k].plain /\ b2.ops[k].outputs = 1 /\ ~b2.ops[k].escapes
    BY <1>1, <2>1 DEF OpsValid
  <2> QED BY <1>4, <2>1 DEF OpsValid
<1>6. ASSUME NEW k \in DOMAIN b2.ops
      PROVE  c2[b2.ops[k].id] = Computed(b2.ops[k], c2, m)
  <2>1. c2[b2.ops[k].id] = c[b2.ops[k].id]
    BY <1>6 DEF Ids
  <2>2. c[b2.ops[k].id] = Computed(b2.ops[k], c, m)
    BY <1>1, <1>6 DEF Computes
  <2>3. Computed(b2.ops[k], c2, m) = Computed(b2.ops[k], c, m)
    <3> DEFINE o == b2.ops[k]
               w(d) == [i \in DOMAIN o.operands |->
                          IF o.operands[i][1] = "arg" THEN m[ArgName(o.operands[i][2])]
                          ELSE d[o.operands[i][2]]]
    <3>1. w(c2) = w(c)
      BY <1>4, <1>6
    <3>2. Computed(o, c2, m) = Eval(o.op, w(c2)) /\ Computed(o, c, m) = Eval(o.op, w(c))
      BY DEF Computed
    <3> HIDE DEF w
    <3> QED BY <3>1, <3>2
  <2> QED BY <2>1, <2>2, <2>3
<1>7. c2 = [n \in Ids(b2) |-> c2[n]]
  OBVIOUS
<1> QED BY <1>3, <1>5, <1>6, <1>7 DEF Computes

\* The step of the recursion of Evaluated.
EvalStep(b, arguments, f, n) ==
  LET o == OpOf(b, n) IN
  Eval(o.op, [i \in DOMAIN o.operands |->
                IF o.operands[i][1] = "arg" THEN arguments[o.operands[i][2]]
                ELSE f[o.operands[i][2]]])

(***************************************************************************)
(* In an ordered block, what the operations compute is determined: any c   *)
(* that computes agrees with Evaluated on the first operation, the second, *)
(* and so on.                                                              *)
(***************************************************************************)
LEMMA ComputesEvaluated ==
  ASSUME NEW b, b.ops \in Seq(Operation), OpsValid(b), Distinct(b.ops),
         NEW c, NEW m, Computes(b, c, m)
  PROVE  c = Evaluated(b, Eval, [i \in 1..b.args |-> m[ArgName(i)]])
<1> DEFINE arguments == [i \in 1..b.args |-> m[ArgName(i)]]
           g == CHOOSE f : f = [n \in Ids(b) |-> EvalStep(b, arguments, f, n)]
<1>1. Evaluated(b, Eval, arguments) = g
  BY DEF Evaluated, EvalStep
<1>2. ASSUME NEW k \in DOMAIN b.ops
      PROVE  OpOf(b, b.ops[k].id) = b.ops[k]
  BY <1>2 DEF OpOf, Distinct
<1>3. ASSUME NEW k \in DOMAIN b.ops, NEW i \in DOMAIN b.ops[k].operands
      PROVE  LET v == b.ops[k].operands[i] IN
             \/ v[1] = "arg" /\ arguments[v[2]] = m[ArgName(v[2])]
             \/ v[1] # "arg" /\ \E j \in 1..(k-1) : v[2] = b.ops[j].id
  <2> DEFINE v == b.ops[k].operands[i]
  <2>1. v \in Since(b, 1, k)
    BY <1>3 DEF OpsValid
  <2>2. CASE \E a \in 1..b.args : v = <<"arg", a>>
    BY <2>2
  <2>3. CASE \E j \in 1..(k-1) : v = <<"op", b.ops[j].id>>
    BY <2>3
  <2> QED BY <2>1, <2>2, <2>3 DEF Since
<1> HIDE DEF arguments
<1>4. ASSUME NEW k \in DOMAIN b.ops
      PROVE  c[b.ops[k].id] = EvalStep(b, arguments, c, b.ops[k].id)
  <2> DEFINE o == b.ops[k]
             v == [i \in DOMAIN o.operands |->
                     IF o.operands[i][1] = "arg" THEN m[ArgName(o.operands[i][2])] ELSE c[o.operands[i][2]]]
             w == [i \in DOMAIN o.operands |->
                     IF o.operands[i][1] = "arg" THEN arguments[o.operands[i][2]] ELSE c[o.operands[i][2]]]
  <2>1. v = w
    BY <1>3
  <2>2. c[o.id] = Eval(o.op, v)
    BY DEF Computes, Computed
  <2>3. EvalStep(b, arguments, c, o.id) = Eval(o.op, w)
    BY <1>2 DEF EvalStep
  <2> HIDE DEF v, w
  <2> QED BY <2>1, <2>2, <2>3
<1>5. c = [n \in Ids(b) |-> EvalStep(b, arguments, c, n)]
  <2>1. \A n \in Ids(b) : c[n] = EvalStep(b, arguments, c, n)
    BY <1>4 DEF Ids
  <2> QED BY <2>1 DEF Computes
<1>6. g = [n \in Ids(b) |-> EvalStep(b, arguments, g, n)]
  BY <1>5
<1> HIDE DEF g
<1>7. ASSUME NEW k \in DOMAIN b.ops, \A j \in 1..(k-1) : c[b.ops[j].id] = g[b.ops[j].id]
      PROVE  c[b.ops[k].id] = g[b.ops[k].id]
  <2> DEFINE o == b.ops[k]
             v(f) == [i \in DOMAIN o.operands |->
                        IF o.operands[i][1] = "arg" THEN arguments[o.operands[i][2]]
                        ELSE f[o.operands[i][2]]]
  <2>1. v(c) = v(g)
    BY <1>3, <1>7
  <2>2. EvalStep(b, arguments, c, o.id) = Eval(o.op, v(c))
    BY <1>2 DEF EvalStep
  <2>3. EvalStep(b, arguments, g, o.id) = Eval(o.op, v(g))
    BY <1>2 DEF EvalStep
  <2>4. o.id \in Ids(b)
    BY DEF Ids
  <2>5. g[o.id] = EvalStep(b, arguments, g, o.id)
    BY <1>6, <2>4
  <2> HIDE DEF v
  <2> QED BY <1>4, <2>1, <2>2, <2>3, <2>5
<1>8. \A k \in DOMAIN b.ops : c[b.ops[k].id] = g[b.ops[k].id]
  <2> DEFINE T == {k \in DOMAIN b.ops : c[b.ops[k].id] # g[b.ops[k].id]}
  <2>1. T \in SUBSET Nat
    OBVIOUS
  <2>2. ASSUME T # {}
        PROVE  FALSE
    <3> HIDE DEF T
    <3>1. PICK k \in T : \A j \in T : ~(j < k)
      BY <2>1, <2>2, LeastNatural
    <3> USE DEF T
    <3>2. \A j \in 1..(k-1) : j \in DOMAIN b.ops /\ j < k
      OBVIOUS
    <3>3. \A j \in 1..(k-1) : c[b.ops[j].id] = g[b.ops[j].id]
      BY <3>1, <3>2
    <3> QED BY <1>7, <3>3
  <2> QED BY <2>2
<1>9. \A n \in Ids(b) : c[n] = g[n]
  BY <1>8 DEF Ids
<1>10. c = g
  BY <1>6, <1>9 DEF Computes
<1> QED BY <1>1, <1>10 DEF arguments

\* Distinct ids are as many as the operations.
LEMMA DistinctCount ==
  ASSUME NEW ops \in Seq(Operation)
  PROVE  Distinct(ops) <=> Cardinality({ops[k].id : k \in DOMAIN ops}) = Len(ops)
<1> DEFINE S == {ops[k].id : k \in DOMAIN ops}
           f == [k \in 1..Len(ops) |-> ops[k].id]
<1>1. DOMAIN ops = 1..Len(ops) /\ Len(ops) \in Nat
  OBVIOUS
<1>2. f \in Surjection(1..Len(ops), S)
  BY <1>1 DEF Surjection
<1>3. IsFiniteSet(1..Len(ops)) /\ Cardinality(1..Len(ops)) = Len(ops)
  BY <1>1, FS_Interval
<1>4. ASSUME Distinct(ops)
      PROVE  Cardinality(S) = Len(ops)
  <2>1. f \in Injection(1..Len(ops), S)
    BY <1>1, <1>2, <1>4 DEF Distinct, Injection, Surjection, IsInjective
  <2>2. ExistsBijection(1..Len(ops), S)
    BY <1>2, <2>1 DEF Bijection, ExistsBijection
  <2> HIDE DEF S
  <2> QED BY <1>1, <2>2, FS_CountingElements
<1>5. ASSUME Cardinality(S) = Len(ops)
      PROVE  Distinct(ops)
  <2> HIDE DEF S
  <2>1. f \in Injection(1..Len(ops), S)
    BY <1>2, <1>3, <1>5, FS_SurjSameCardinalityImpliesInj
  <2>2. \A j, k \in 1..Len(ops) : f[j] = f[k] => j = k
    BY <2>1 DEF Injection, IsInjective
  <2> QED BY <1>1, <2>2 DEF Distinct
<1> QED BY <1>4, <1>5

\* An operation that uses what is there may be added at the end.
LEMMA AppendValid ==
  ASSUME NEW b, NEW b2, NEW c, NEW c2, NEW m, NEW o \in Operation, b.ops \in Seq(Operation),
         b2.ops = Append(b.ops, o), b2.args = b.args,
         o.id \notin Ids(b), o.plain, o.outputs = 1, ~o.escapes,
         \A i \in DOMAIN o.operands : o.operands[i] \in Since(b, 1, Len(b.ops) + 1),
         OpsValid(b), Distinct(b.ops), Computes(b, c, m),
         c2 = ValuesWith(b, c, m, o)
  PROVE  OpsValid(b2) /\ Distinct(b2.ops) /\ Computes(b2, c2, m)
<1> USE DEF ValuesWith
<1> DEFINE N == Len(b.ops) + 1
<1>1. /\ N \in Nat /\ DOMAIN b.ops = 1..(N - 1) /\ DOMAIN b2.ops = 1..N
      /\ \A k \in 1..(N - 1) : b2.ops[k] = b.ops[k]
      /\ b2.ops[N] = o
  OBVIOUS
<1> HIDE DEF N
<1>2. Distinct(b2.ops)
  <2>1. ASSUME NEW j \in DOMAIN b2.ops, NEW k \in DOMAIN b2.ops, b2.ops[j].id = b2.ops[k].id
        PROVE  j = k
    <3>1. \A l \in DOMAIN b.ops : b.ops[l].id # o.id
      BY DEF Ids
    <3> QED BY <1>1, <2>1, <3>1 DEF Distinct
  <2> QED BY <2>1 DEF Distinct
<1>3. Ids(b2) = Ids(b) \cup {o.id}
  <2>1. DOMAIN b2.ops = DOMAIN b.ops \cup {N}
    BY <1>1
  <2> QED BY <1>1, <2>1 DEF Ids
<1>4. ASSUME NEW k \in 1..N
      PROVE  Since(b, 1, k) = Since(b2, 1, k)
  BY <1>1 DEF Since
<1>5. ASSUME NEW k \in DOMAIN b2.ops
      PROVE  /\ b2.ops[k].plain /\ b2.ops[k].outputs = 1 /\ ~b2.ops[k].escapes
             /\ \A i \in DOMAIN b2.ops[k].operands : b2.ops[k].operands[i] \in Since(b, 1, k)
  <2>1. CASE k \in DOMAIN b.ops
    BY <1>1, <2>1 DEF OpsValid
  <2>2. CASE k = N
    BY <1>1, <2>2 DEF N
  <2> QED BY <1>1, <2>1, <2>2
<1>6. OpsValid(b2)
  BY <1>1, <1>4, <1>5 DEF OpsValid
<1>7. \A n \in Ids(b) : c2[n] = c[n]
  OBVIOUS
<1>8. ASSUME NEW k \in DOMAIN b2.ops
      PROVE  Computed(b2.ops[k], c2, m) = Computed(b2.ops[k], c, m)
  <2> DEFINE q == b2.ops[k]
             v(d) == [i \in DOMAIN q.operands |->
                        IF q.operands[i][1] = "arg" THEN m[ArgName(q.operands[i][2])]
                        ELSE d[q.operands[i][2]]]
  <2>1. ASSUME NEW i \in DOMAIN q.operands
        PROVE  q.operands[i][1] = "arg" \/ q.operands[i][2] \in Ids(b)
    <3> DEFINE w == q.operands[i]
    <3>1. w \in Since(b, 1, k)
      BY <1>5
    <3>2. CASE \E a \in 1..b.args : w = <<"arg", a>>
      BY <3>2
    <3>3. CASE \E j \in 1..(k - 1) : w = <<"op", b.ops[j].id>>
      <4>1. PICK j \in 1..(k - 1) : w = <<"op", b.ops[j].id>>
        BY <3>3
      <4>2. w[2] = b.ops[j].id /\ j \in DOMAIN b.ops
        BY <1>1, <4>1
      <4> QED BY <4>2 DEF Ids
    <3> QED BY <3>1, <3>2, <3>3 DEF Since
  <2>2. v(c2) = v(c)
    BY <1>7, <2>1
  <2>3. Computed(q, c2, m) = Eval(q.op, v(c2)) /\ Computed(q, c, m) = Eval(q.op, v(c))
    BY DEF Computed
  <2> HIDE DEF v
  <2> QED BY <2>2, <2>3
<1>9. ASSUME NEW k \in DOMAIN b2.ops
      PROVE  c2[b2.ops[k].id] = Computed(b2.ops[k], c, m)
  <2>1. CASE k \in DOMAIN b.ops
    <3>1. b2.ops[k] = b.ops[k] /\ b.ops[k].id \in Ids(b)
      BY <1>1, <2>1 DEF Ids
    <3> QED BY <1>7, <2>1, <3>1 DEF Computes
  <2>2. CASE k = N
    BY <1>1, <2>2
  <2> QED BY <1>1, <2>1, <2>2
<1>10. c2 = [n \in Ids(b2) |-> c2[n]]
  BY <1>3
<1> QED BY <1>2, <1>6, <1>8, <1>9, <1>10 DEF Computes

-----------------------------------------------------------------------------
\* A value that is there comes before the end of the block.
LEMMA ThereIsBefore ==
  ASSUME NEW v \in BlockValue, IsThere(v, block.ops), block.ops \in Seq(Operation)
  PROVE  v \in Since(block, 1, Len(block.ops) + 1)
<1>1. v = <<v[1], v[2]>>
  BY DEF BlockValue
<1>2. CASE v[1] = "arg" /\ v[2] \in 1..block.args
  BY <1>1, <1>2 DEF Since
<1>3. CASE v[1] = "op" /\ \E k \in DOMAIN block.ops : block.ops[k].id = v[2]
  <2>1. PICK k \in 1..Len(block.ops) : block.ops[k].id = v[2]
    BY <1>3
  <2>2. k \in 1..((Len(block.ops) + 1) - 1) /\ v = <<"op", block.ops[k].id>>
    BY <1>1, <1>3, <2>1
  <2> QED BY <2>2 DEF Since
<1> QED BY <1>2, <1>3 DEF IsThere

\* What was made for a name comes after the old operations.
LEMMA CloneIsSince ==
  ASSUME NEW v \in BlockValue, IsClone(v), block.ops \in Seq(Operation), Len(oldOps) \in Nat
  PROVE  v \in Since(block, Len(oldOps) + 1, Len(block.ops) + 1)
<1>1. v = <<v[1], v[2]>>
  BY DEF BlockValue
<1>2. CASE v[1] = "arg" /\ v[2] \in 1..block.args
  BY <1>1, <1>2 DEF Since
<1>3. CASE v[1] = "op" /\ \E k \in (Len(oldOps)+1)..Len(block.ops) : block.ops[k].id = v[2]
  <2>1. PICK k \in (Len(oldOps)+1)..Len(block.ops) : block.ops[k].id = v[2]
    BY <1>3
  <2>2. k \in (Len(oldOps)+1)..((Len(block.ops) + 1) - 1) /\ v = <<"op", block.ops[k].id>>
    BY <1>1, <1>3, <2>1
  <2> QED BY <2>2 DEF Since
<1> QED BY <1>2, <1>3 DEF IsClone

\* ValidInv says that the block is valid.
LEMMA ValidBlock ==
  ASSUME RewriteInv, ValidInv
  PROVE  BlockValid
<1>1. /\ block \in [args : Nat, ops : Seq(Operation), results : [Slot -> BlockValue]]
      /\ \A i \in Slot : IsThere(block.results[i], IF call = "none" THEN block.ops ELSE oldOps)
  BY DEF RewriteInv, BlockInv
<1>2. block.ops \in Seq(Operation) /\ DOMAIN block.results = Slot
      /\ \A i \in Slot : block.results[i] \in BlockValue
  BY <1>1
<1>3. \A i \in Slot : IsThere(block.results[i], block.ops)
  <2>1. CASE call = "none"
    BY <1>1, <2>1
  <2>2. CASE call # "none"
    <3>1. \A k \in DOMAIN oldOps : k \in DOMAIN block.ops /\ block.ops[k] = oldOps[k]
      BY <2>2, OldOpsFacts
    <3> QED BY <1>1, <2>2, <3>1 DEF IsThere
  <2> QED BY <2>1, <2>2
<1>4. \A i \in Slot : block.results[i] \in Since(block, 1, Len(block.ops) + 1)
  BY <1>2, <1>3, ThereIsBefore
<1>5. \A k : Before(block, k) = Since(block, 1, k)
  BY DEF Before, Since
<1>6. IsImportable(block)
  BY <1>2, <1>4, <1>5 DEF IsImportable, ValidInv, OpsValid
<1>7. Cardinality(Ids(block)) = Len(block.ops)
  BY <1>2, DistinctCount DEF ValidInv, Ids
<1>8. computed = Evaluated(block, Eval, [i \in 1..block.args |-> means[ArgName(i)]])
  BY <1>2, ComputesEvaluated DEF ValidInv
<1> QED BY <1>6, <1>7, <1>8 DEF BlockValid

\* An operation of the block computes what its name means in the graph.
LEMMA ValidInit ==
  ASSUME RewriteInit
  PROVE  ValidInv
<1>1. /\ block \in [args : Nat, ops : Seq(Operation), results : [Slot -> BlockValue]]
      /\ IsImportable(block) /\ Cardinality(Ids(block)) = Len(block.ops)
      /\ \A i \in 1..block.args : NameOf(block, <<"arg", i>>) = ArgName(i)
      /\ \A k \in DOMAIN block.ops : NameOf(block, <<"op", block.ops[k].id>>) \in Symbol
      /\ Imported(block) \in Graphs
  BY BlocksOK DEF RewriteInit
<1>2. block.ops \in Seq(Operation)
  BY <1>1
<1>3. OpsValid(block)
  <2>1. \A k : Before(block, k) = Since(block, 1, k)
    BY DEF Before, Since
  <2> QED BY <1>1, <2>1 DEF IsImportable, OpsValid
<1>4. Distinct(block.ops)
  BY <1>1, <1>2, DistinctCount DEF Ids
<1>5. computed = [n \in Ids(block) |-> means[NameOf(block, <<"op", n>>)]] /\ call = "none"
  BY DEF RewriteInit
<1>6. ASSUME NEW k \in DOMAIN block.ops
      PROVE  computed[block.ops[k].id] = Computed(block.ops[k], computed, means)
  <2> DEFINE o == block.ops[k]
             s == NameOf(block, <<"op", o.id>>)
             t == [op |-> o.op, args |-> [i \in DOMAIN o.operands |-> NameOf(block, o.operands[i])]]
  <2>1. computed[o.id] = means[s]
    BY <1>5 DEF Ids
  <2>2. s \in Symbol /\ t \in terms[s]
    <3>1. s \in Symbol
      BY <1>1
    <3>2. terms = Imported(block).terms
      BY DEF RewriteInit, ir
    <3> HIDE DEF s
    <3>3. Imported(block).terms[s]
            = {[op |-> block.ops[j].op,
                args |-> [i \in DOMAIN block.ops[j].operands |-> NameOf(block, block.ops[j].operands[i])]] :
               j \in {l \in DOMAIN block.ops : NameOf(block, <<"op", block.ops[l].id>>) = s}}
      BY <3>1 DEF Imported
    <3> QED BY <3>1, <3>2, <3>3 DEF s
  <2> HIDE DEF s
  <2>3. t \in Term /\ TermValue(means, t) = means[s]
    <3>1. TypeOK
      BY InitInv DEF RewriteInit, MeaningInit, Inv
    <3>2. t \in Term
      BY <2>2, <3>1 DEF TypeOK
    <3>3. IsBody(Imported(block)) /\ terms = Imported(block).terms /\ defined = Imported(block).defined
      BY <1>1, ConstantsOK DEF RewriteInit, ir
    <3>4. s \in defined
      BY <2>2, <3>3 DEF IsBody
    <3> HIDE DEF t
    <3>5. TermValue(means, t) = means[s]
      BY <2>2, <3>4 DEF RewriteInit, MeaningInit, IsModel
    <3> QED BY <3>2, <3>5
  <2>4. DOMAIN o.operands = 1..Arity[o.op]
    <3>1. t.args \in [1..Arity[t.op] -> Symbol]
      BY <2>3, TermFields
    <3> QED BY <3>1
  <2>5. ASSUME NEW i \in DOMAIN o.operands
        PROVE  means[NameOf(block, o.operands[i])]
                 = IF o.operands[i][1] = "arg" THEN means[ArgName(o.operands[i][2])]
                   ELSE computed[o.operands[i][2]]
    <3> DEFINE v == o.operands[i]
    <3>1. v \in Since(block, 1, k)
      BY <1>3, <1>6 DEF OpsValid
    <3>2. CASE \E a \in 1..block.args : v = <<"arg", a>>
      <4>1. PICK a \in 1..block.args : v = <<"arg", a>>
        BY <3>2
      <4>2. NameOf(block, v) = ArgName(a) /\ v[1] = "arg" /\ v[2] = a
        BY <1>1, <4>1
      <4> QED BY <4>2
    <3>3. CASE \E j \in 1..(k - 1) : v = <<"op", block.ops[j].id>>
      <4>1. PICK j \in 1..(k - 1) : v = <<"op", block.ops[j].id>>
        BY <3>3
      <4>2. v[1] # "arg" /\ v[2] = block.ops[j].id /\ j \in DOMAIN block.ops
        BY <1>2, <1>6, <4>1
      <4>3. block.ops[j].id \in Ids(block)
        BY <4>2 DEF Ids
      <4>4. computed[block.ops[j].id] = means[NameOf(block, v)]
        BY <1>5, <4>1, <4>3
      <4> QED BY <4>2, <4>4
    <3> QED BY <3>1, <3>2, <3>3 DEF Since
  <2> DEFINE v == [i \in 1..Arity[o.op] |-> means[NameOf(block, o.operands[i])]]
             w == [i \in DOMAIN o.operands |->
                     IF o.operands[i][1] = "arg" THEN means[ArgName(o.operands[i][2])]
                     ELSE computed[o.operands[i][2]]]
  <2>6. v = w
    BY <2>4, <2>5
  <2>7. TermValue(means, t) = Eval(o.op, v)
    BY <2>4 DEF TermValue
  <2>8. Computed(o, computed, means) = Eval(o.op, w)
    BY DEF Computed
  <2> HIDE DEF v, w
  <2> QED BY <2>1, <2>3, <2>6, <2>7, <2>8
<1>7. Computes(block, computed, means)
  BY <1>5, <1>6 DEF Computes
<1> QED BY <1>3, <1>4, <1>5, <1>7 DEF ValidInv, ClonesApart

\* Steps that leave the block alone keep it valid, and a call may begin.
LEMMA SameBlock ==
  ASSUME RewriteInv, ValidInv, block' = block, computed' = computed,
         \A i \in 1..block.args : means'[ArgName(i)] = means[ArgName(i)],
         \/ call' = "none"
         \/ call # "none" /\ oldOps' = oldOps
         \/ oldOps' = block.ops
  PROVE  ValidInv'
<1>1. Computes(block, computed, means)'
  <2>1. ASSUME NEW k \in DOMAIN block.ops
        PROVE  Computed(block.ops[k], computed, means') = Computed(block.ops[k], computed, means)
    <3> DEFINE o == block.ops[k]
               v(m) == [i \in DOMAIN o.operands |->
                          IF o.operands[i][1] = "arg" THEN m[ArgName(o.operands[i][2])]
                          ELSE computed[o.operands[i][2]]]
    <3>1. ASSUME NEW i \in DOMAIN o.operands, o.operands[i][1] = "arg"
          PROVE  o.operands[i][2] \in 1..block.args
      BY <2>1, <3>1 DEF ValidInv, OpsValid, Since
    <3>2. v(means') = v(means)
      BY <3>1
    <3>3. Computed(o, computed, means') = Eval(o.op, v(means')) /\ Computed(o, computed, means) = Eval(o.op, v(means))
      BY DEF Computed
    <3> HIDE DEF v
    <3> QED BY <3>2, <3>3
  <2> QED BY <2>1 DEF ValidInv, Computes
<1>2. ClonesApart'
  <2>1. CASE call' # "none" /\ oldOps' = block.ops
    <3>1. Len(block.ops) \in Nat
      BY DEF RewriteInv, BlockInv
    <3> QED BY <2>1, <3>1 DEF ClonesApart, StandsAlone
  <2> QED BY <2>1 DEF ValidInv, ClonesApart, StandsAlone, Since
<1> QED BY <1>1, <1>2 DEF ValidInv

\* The arguments keep their values.
LEMMA ArgumentsKeep ==
  ASSUME RewriteInv, [RewriteNext]_rewriteVars
  PROVE  \A i \in 1..block.args : means'[ArgName(i)] = means[ArgName(i)]
<1> SUFFICES ASSUME NEW i \in 1..block.args
             PROVE  means'[ArgName(i)] = means[ArgName(i)]
  OBVIOUS
<1>1. [MeaningNext]_meaningVars /\ MeaningInv
  BY StepOfFacade DEF RewriteInv
<1>2. ArgName(i) \in Symbol /\ Known(ArgName(i))
  BY ConstantsOK DEF RewriteInv, BlockInv, Known
<1> QED BY <1>1, <1>2, KnownStays DEF meaningVars

\* A clone comes after what it uses.
LEMMA CloneValid ==
  ASSUME RewriteInv, ValidInv, MaterializeOperation
  PROVE  ValidInv'
<1> DEFINE t == held.map[Top][2]
<1>1. PICK n \in 1..MaxId :
        /\ n \notin Ids(block)
        /\ block' = [block EXCEPT !.ops = Append(@, Clone(t, n))]
        /\ computed' = [m \in DOMAIN computed \cup {n} |->
                          IF m = n
                          THEN Eval(t.op, [i \in 1..Arity[t.op] |-> ValueOf(Operands(t)[i])])
                          ELSE computed[m]]
        /\ Return(<<"op", n>>)
  BY DEF MaterializeOperation, IsNextId
<1>2. /\ t \in Term
      /\ Operands(t) \in Seq(BlockValue) /\ DOMAIN Operands(t) = 1..Arity[t.op]
      /\ AllMade /\ call # "none"
  BY OperandFacts DEF MaterializeOperation, Ready
<1> DEFINE o == Clone(t, n)
<1>3. /\ o \in Operation /\ o.id = n /\ o.op = t.op /\ o.operands = Operands(t)
      /\ o.plain /\ o.outputs = 1 /\ ~o.escapes
  <2>1. t.op \in Op /\ n \in Nat
    BY <1>2, TermFields
  <2> HIDE DEF t
  <2> QED BY <1>2, <2>1 DEF Clone, Operation, Stems
<1>4. /\ block \in [args : Nat, ops : Seq(Operation), results : [Slot -> BlockValue]]
      /\ block.ops \in Seq(Operation) /\ Len(block.ops) \in Nat
      /\ Len(oldOps) \in Nat /\ Len(oldOps) <= Len(block.ops)
  BY <1>2, OldOpsFacts
<1>5. ASSUME NEW i \in DOMAIN o.operands
      PROVE  o.operands[i] \in BlockValue /\ IsClone(o.operands[i])
  <2>1. active # <<>> /\ Top \in DOMAIN held.map /\ held.map[Top][1] = "op"
    BY DEF MaterializeOperation, Ready
  <2>2. Names = t.args
    BY <2>1 DEF Names, Payloads
  <2>3. i \in 1..Arity[t.op] /\ DOMAIN t.args = 1..Arity[t.op]
    BY <1>2, <1>3, <1>5, TermFields
  <2>4. t.args[i] \in DOMAIN values
    BY <1>2, <2>2, <2>3 DEF AllMade, IsMade
  <2>5. o.operands[i] = values[t.args[i]]
    BY <1>3, <2>3 DEF Operands
  <2> QED BY <2>4, <2>5 DEF RewriteInv, CallInv
<1>6. \A i \in DOMAIN o.operands : o.operands[i] \in Since(block, Len(oldOps) + 1, Len(block.ops) + 1)
  BY <1>4, <1>5, CloneIsSince
<1>7. Since(block, Len(oldOps) + 1, Len(block.ops) + 1) \subseteq Since(block, 1, Len(block.ops) + 1)
  BY <1>4 DEF Since
<1>8. block'.ops = Append(block.ops, o) /\ block'.args = block.args
  BY <1>1, <1>4
<1>9. computed' = [m \in Ids(block) \cup {o.id} |->
                     IF m = o.id THEN Computed(o, computed, means) ELSE computed[m]]
  <2> DEFINE v == [i \in 1..Arity[t.op] |-> ValueOf(Operands(t)[i])]
             w == [i \in DOMAIN o.operands |->
                     IF o.operands[i][1] = "arg" THEN means[ArgName(o.operands[i][2])]
                     ELSE computed[o.operands[i][2]]]
  <2>1. v = w
    BY <1>2, <1>3 DEF ValueOf
  <2>2. Computed(o, computed, means) = Eval(t.op, w)
    BY <1>3 DEF Computed
  <2>3. DOMAIN computed = Ids(block)
    BY DEF RewriteInv, BlockInv
  <2>4. computed' = [m \in DOMAIN computed \cup {n} |-> IF m = n THEN Eval(t.op, v) ELSE computed[m]]
    BY <1>1
  <2> HIDE DEF v, w
  <2> QED BY <1>3, <2>1, <2>2, <2>3, <2>4
<1>10. means' = means /\ call' = call /\ oldOps' = oldOps
  BY <1>1 DEF Return, meaningVars
<1> HIDE DEF o
<1>11. OpsValid(block') /\ Distinct(block'.ops) /\ Computes(block', computed', means)
  <2>1. OpsValid(block) /\ Distinct(block.ops) /\ Computes(block, computed, means)
    BY DEF ValidInv
  <2>2. o.id \notin Ids(block)
    BY <1>1, <1>3
  <2>3. \A i \in DOMAIN o.operands : o.operands[i] \in Since(block, 1, Len(block.ops) + 1)
    BY <1>6, <1>7
  <2>4. o \in Operation /\ o.plain /\ o.outputs = 1 /\ ~o.escapes /\ block.ops \in Seq(Operation)
    BY <1>3, <1>4
  <2>5. PICK b2, c2 : b2 = block' /\ c2 = computed'
    OBVIOUS
  <2>6. OpsValid(b2) /\ Distinct(b2.ops) /\ Computes(b2, c2, means)
    <3>1. b2.ops = Append(block.ops, o) /\ b2.args = block.args
      BY <1>8, <2>5
    <3>2. c2 = ValuesWith(block, computed, means, o)
      BY <1>9, <2>5 DEF ValuesWith
    <3> QED BY <2>1, <2>2, <2>3, <2>4, <3>1, <3>2, AppendValid
  <2> QED BY <2>5, <2>6
<1>12. ClonesApart'
  <2> DEFINE f == Len(oldOps) + 1
             N == Len(block.ops) + 1
  <2>1. /\ f \in Nat \ {0} /\ N \in Nat /\ Len(block'.ops) = N
        /\ \A k \in 1..(N - 1) : block'.ops[k] = block.ops[k]
        /\ block'.ops[N] = o
    BY <1>3, <1>4, <1>8
  <2>2. ASSUME NEW k \in f..N
        PROVE  Since(block', f, k) = Since(block, f, k)
    BY <1>8, <2>1 DEF Since
  <2> HIDE DEF f, N
  <2>3. ASSUME NEW k \in f..N, NEW i \in DOMAIN block'.ops[k].operands
        PROVE  block'.ops[k].operands[i] \in Since(block', f, k)
    <3>1. CASE k = N
      <4>1. o.operands[i] \in Since(block, f, N)
        BY <1>6, <2>1, <2>3, <3>1 DEF f, N
      <4> QED BY <2>1, <2>2, <2>3, <3>1, <4>1
    <3>2. CASE k # N
      <4>1. k \in f..(N - 1) /\ k \in 1..(N - 1)
        BY <2>1, <2>3, <3>2
      <4>2. block.ops[k].operands[i] \in Since(block, f, k)
        <5>1. k \in (Len(oldOps) + 1)..Len(block.ops) /\ i \in DOMAIN block.ops[k].operands
          BY <1>4, <2>1, <2>3, <4>1 DEF f, N
        <5> QED BY <1>2, <5>1 DEF ValidInv, ClonesApart, StandsAlone, f
      <4> QED BY <2>1, <2>2, <2>3, <4>1, <4>2
    <3> QED BY <3>1, <3>2
  <2> QED BY <1>10, <2>1, <2>3 DEF ClonesApart, StandsAlone, f
<1> QED BY <1>10, <1>11, <1>12 DEF ValidInv

\* The values of what stays are kept when a call ends, and no call is on.
LEMMA PartOfBlock ==
  ASSUME RewriteInv, ValidInv, call # "none", UNCHANGED meaningVars, Finish,
         NEW first \in Nat \ {0}, NEW last \in Nat, first <= last + 1, last <= Len(block.ops),
         IsPart(block', block, first, last),
         first = 1 \/ first = Len(oldOps) + 1
  PROVE  ValidInv'
<1>1. block.ops \in Seq(Operation) /\ Len(oldOps) \in Nat /\ Len(block.ops) \in Nat
  BY OldOpsFacts
<1>2. StandsAlone(block, first, last)
  <2>1. CASE first = 1
    BY <1>1, <2>1 DEF ValidInv, OpsValid, StandsAlone
  <2>2. CASE first = Len(oldOps) + 1
    BY <1>1, <2>2 DEF ValidInv, ClonesApart, StandsAlone
  <2> QED BY <2>1, <2>2
<1>3. OpsValid(block) /\ Distinct(block.ops) /\ Computes(block, computed, means)
  BY DEF ValidInv
<1>4. computed' = [n \in Ids(block') |-> computed[n]] /\ means' = means /\ call' = "none"
  BY DEF Finish, meaningVars
<1>5. OpsValid(block') /\ Distinct(block'.ops) /\ Computes(block', computed', means)
  <2>1. PICK b2, c2 : b2 = block' /\ c2 = computed'
    OBVIOUS
  <2>2. IsPart(b2, block, first, last) /\ c2 = ValuesOf(b2, computed)
    BY <1>4, <2>1 DEF IsPart, ValuesOf
  <2>3. OpsValid(b2) /\ Distinct(b2.ops) /\ Computes(b2, c2, means)
    BY <1>1, <1>2, <1>3, <2>2, PartValid
  <2> QED BY <2>1, <2>3
<1> QED BY <1>4, <1>5 DEF ValidInv, ClonesApart

\* Every step keeps the block valid.
LEMMA ValidNext ==
  ASSUME RewriteInv, ValidInv, [RewriteNext]_rewriteVars
  PROVE  ValidInv'
<1>0. \A i \in 1..block.args : means'[ArgName(i)] = means[ArgName(i)]
  BY ArgumentsKeep
<1>a. ASSUME call # "none", Finish, block' = block
      PROVE  ValidInv'
  <2>1. computed' = computed
    BY <1>a DEF Finish, ValidInv, Computes
  <2> QED BY <1>0, <1>a, <2>1, SameBlock DEF Finish
<1>1. CASE UNCHANGED rewriteVars
  BY <1>0, <1>1, SameBlock DEF rewriteVars, frame
<1>2. CASE Grow \/ Reindex
  BY <1>0, <1>2, SameBlock DEF Grow, Reindex
<1>3. ASSUME NEW r \in Requests("info"), NEW sel \in Selections, ExtractInfo(r[1], r[2], sel)
      PROVE  ValidInv'
  BY <1>0, <1>3, SameBlock DEF ExtractInfo
<1>4. ASSUME NEW r \in Requests("state"), NEW sel \in Selections, ExtractIntoBlock(r[1], r[2], sel)
      PROVE  ValidInv'
  BY <1>0, <1>4, SameBlock DEF ExtractIntoBlock, Start
<1>5. CASE MaterializeInfo
  BY <1>0, <1>5, SameBlock DEF MaterializeInfo, Start
<1>6. CASE Enter
  BY <1>0, <1>6, SameBlock DEF Enter
<1>7. CASE MaterializeInput
  BY <1>0, <1>7, SameBlock DEF MaterializeInput, Return
<1>8. CASE MaterializeAlias
  BY <1>0, <1>8, SameBlock DEF MaterializeAlias, Return, Ready
<1>9. CASE MaterializeOperation
  BY <1>9, CloneValid
<1>10. CASE MaterializeFails
  <2>1. call # "none" /\ Finish /\ UNCHANGED meaningVars
    BY <1>10 DEF MaterializeFails
  <2>2. CASE call = "state"
    <3>1. block' = [block EXCEPT !.ops = SubSeq(block.ops, 1, Len(oldOps))]
      BY <1>10, <2>2 DEF MaterializeFails, Rollback
    <3>2. Len(oldOps) \in Nat /\ Len(oldOps) <= Len(block.ops)
          /\ block \in [args : Nat, ops : Seq(Operation), results : [Slot -> BlockValue]]
      BY <2>1, OldOpsFacts
    <3>3. IsPart(block', block, 1, Len(oldOps))
      BY <3>1, <3>2 DEF IsPart
    <3> QED BY <2>1, <3>2, <3>3, PartOfBlock
  <2>3. CASE call # "state"
    BY <1>10, <1>a, <2>1, <2>3 DEF MaterializeFails
  <2> QED BY <2>2, <2>3
<1>11. CASE MaterializeEnds
  <2>1. call # "none" /\ Finish /\ UNCHANGED meaningVars
    BY <1>11 DEF MaterializeEnds
  <2>2. CASE call = "state"
    <3>1. block' = [block EXCEPT !.results = [i \in Slot |-> values[held.roots[i]]],
                                 !.ops = SubSeq(block.ops, Len(oldOps) + 1, Len(block.ops))]
      BY <1>11, <2>2 DEF MaterializeEnds, Rewritten
    <3>2. Len(oldOps) \in Nat /\ Len(block.ops) \in Nat /\ Len(oldOps) <= Len(block.ops)
          /\ block \in [args : Nat, ops : Seq(Operation), results : [Slot -> BlockValue]]
      BY <2>1, OldOpsFacts
    <3>3. IsPart(block', block, Len(oldOps) + 1, Len(block.ops))
      BY <3>1, <3>2 DEF IsPart
    <3>4. Len(oldOps) + 1 \in Nat \ {0} /\ Len(oldOps) + 1 <= Len(block.ops) + 1
      BY <3>2
    <3> QED BY <2>1, <3>2, <3>3, <3>4, PartOfBlock
  <2>3. CASE call # "state"
    BY <1>11, <1>a, <2>1, <2>3 DEF MaterializeEnds
  <2> QED BY <2>2, <2>3
<1> QED
  BY <1>1, <1>2, <1>3, <1>4, <1>5, <1>6, <1>7, <1>8, <1>9, <1>10, <1>11 DEF RewriteNext, Materializing

(***************************************************************************)
(* The block can always be imported, in the middle of a call too: clones   *)
(* never use what will be erased and erasing leaves no dangling operand.   *)
(* What its operations compute is what the history says.                   *)
(***************************************************************************)
THEOREM BlockAlwaysValid == RewriteSpec => []BlockValid
<1>1. RewriteInit => RewriteInv /\ ValidInv
  BY RewriteInitInv, ValidInit
<1>2. RewriteInv /\ ValidInv /\ [RewriteNext]_rewriteVars => (RewriteInv /\ ValidInv)'
  BY RewriteNextInv, ValidNext
<1>3. RewriteInv /\ ValidInv => BlockValid
  BY ValidBlock
<1> QED BY <1>1, <1>2, <1>3, PTL DEF RewriteSpec

-----------------------------------------------------------------------------
(***************************************************************************)
(* The recursion of the materializer.  The stack begins with a root, and   *)
(* every other name on it is a payload of the one below.                   *)
(***************************************************************************)
StackInv ==
  call # "none" =>
    /\ active \in Seq(Symbol)
    /\ active # <<>> => \E i \in Slot : active[1] = held.roots[i]
    /\ \A k \in 2..Len(active) : active[k-1] \in DOMAIN held.map /\ active[k] \in Needs(active[k-1])

\* What is asked for is a root or a payload of the name on top.
LEMMA NeededIs ==
  ASSUME RewriteInv, call # "none", NEW s \in Needed
  PROVE  /\ s \in Symbol
         /\ \/ active = <<>> /\ \E i \in Slot : s = held.roots[i]
            \/ active # <<>> /\ Top \in DOMAIN held.map /\ s \in Needs(Top)
PROOF
  <1>1. PICK j \in DOMAIN Names : s = Names[j]
    BY DEF Needed
  <1>2. /\ DOMAIN held.roots = Slot
        /\ \A i \in Slot : held.roots[i] \in Symbol
        /\ \A x \in DOMAIN held.map : x \in Symbol /\ (IsOperation(x) \/ IsAlias(x))
        /\ IsCurrent(held)
    BY DEF RewriteInv, HeldInv, CallInv
  <1>3. CASE active = <<>>
    BY <1>1, <1>2, <1>3 DEF Names
  <1>4. CASE active # <<>>
    <2>1. Top \in DOMAIN held.map
      BY <1>1, <1>4 DEF Names
    <2>2. Names = Payloads(held.map[Top])
      BY <1>4, <2>1 DEF Names
    <2>3. s \in Needs(Top)
      BY <1>1, <2>2 DEF Needs
    <2>4. CASE IsAlias(Top)
      <3>1. PICK m \in Symbol : held.map[Top] = <<"alias", m>>
        BY <2>4 DEF IsAlias
      <3>2. Names = <<m>>
        BY <2>2, <3>1 DEF Payloads
      <3> QED BY <1>1, <1>4, <2>1, <2>3, <3>2
    <2>5. CASE IsOperation(Top)
      <3>1. held.map[Top][1] = "op" /\ held.map[Top][2] \in terms[Top] /\ Top \in Symbol
        BY <1>2, <2>1, <2>5 DEF IsOperation, IsCurrent
      <3>2. held.map[Top][2] \in Term
        BY <3>1 DEF RewriteInv, MeaningInv, Inv, TypeOK
      <3>3. Names = held.map[Top][2].args
        BY <2>2, <3>1 DEF Payloads
      <3> QED BY <1>1, <1>4, <2>1, <2>3, <3>2, <3>3, TermFields
    <2> QED BY <1>2, <2>1, <2>4, <2>5
  <1> QED BY <1>3, <1>4

\* Every step keeps the stack a chain of payloads.
LEMMA StackNext ==
  ASSUME RewriteInv, StackInv, [RewriteNext]_rewriteVars
  PROVE  StackInv'
PROOF
  <1>1. ASSUME call' = "none"
        PROVE  StackInv'
    BY <1>1 DEF StackInv
  <1>2. ASSUME active' = <<>>
        PROVE  StackInv'
    BY <1>2 DEF StackInv
  <1>3. ASSUME UNCHANGED <<call, held, active>>
        PROVE  StackInv'
    BY <1>3 DEF StackInv, Needs
  <1>4. ASSUME call # "none", active # <<>>, UNCHANGED <<call, held>>,
               active' = SubSeq(active, 1, Len(active) - 1)
        PROVE  StackInv'
    <2>1. active \in Seq(Symbol)
      BY <1>4 DEF StackInv
    <2>2. /\ active' \in Seq(Symbol) /\ Len(active') = Len(active) - 1
          /\ \A k \in 1..Len(active') : active'[k] = active[k]
      <3> DEFINE n == Len(active) - 1
                 rest == SubSeq(active, 1, n)
      <3>1. n \in Nat /\ n <= Len(active) /\ Len(active) \in Nat
        BY <1>4, <2>1
      <3> HIDE DEF n
      <3>2. \A k \in 1..n : k \in DOMAIN active
        BY <2>1, <3>1
      <3>3. rest = [k \in 1..n |-> active[k]]
        BY <2>1, <3>1
      <3>4. Len(rest) = n /\ rest \in Seq(Symbol)
        BY <2>1, <3>1, <3>2, <3>3
      <3> HIDE DEF rest
      <3>5. active' = rest
        BY <1>4 DEF rest, n
      <3> QED BY <3>3, <3>4, <3>5 DEF n
    <2>3. active' # <<>> => \E i \in Slot : active'[1] = held'.roots[i]
      BY <1>4, <2>1, <2>2 DEF StackInv
    <2>4. \A k \in 2..Len(active') :
            active'[k-1] \in DOMAIN held.map /\ active'[k] \in Needs(active'[k-1])
      BY <1>4, <2>1, <2>2 DEF StackInv
    <2> QED BY <1>4, <2>2, <2>3, <2>4 DEF StackInv, Needs
  <1>5. CASE Enter
    <2>1. PICK s \in Needed : active' = Append(active, s)
      BY <1>5 DEF Enter
    <2>2. call # "none" /\ UNCHANGED <<call, held>> /\ active \in Seq(Symbol)
      BY <1>5 DEF Enter, StackInv
    <2>3. /\ s \in Symbol
          /\ \/ active = <<>> /\ \E i \in Slot : s = held.roots[i]
             \/ active # <<>> /\ Top \in DOMAIN held.map /\ s \in Needs(Top)
      BY <2>2, NeededIs
    <2>4. /\ active' \in Seq(Symbol) /\ Len(active') = Len(active) + 1
          /\ \A k \in 1..Len(active) : active'[k] = active[k]
          /\ active'[Len(active) + 1] = s
      BY <2>1, <2>2, <2>3
    <2>5. \E i \in Slot : active'[1] = held'.roots[i]
      BY <2>2, <2>3, <2>4 DEF StackInv
    <2>6. \A k \in 2..Len(active') : active'[k-1] \in DOMAIN held.map /\ active'[k] \in Needs(active'[k-1])
      <3> SUFFICES ASSUME NEW k \in 2..Len(active')
                   PROVE  active'[k-1] \in DOMAIN held.map /\ active'[k] \in Needs(active'[k-1])
        OBVIOUS
      <3>1. CASE k \in 2..Len(active)
        BY <2>2, <2>4, <3>1 DEF StackInv
      <3>2. CASE k = Len(active) + 1
        BY <2>2, <2>3, <2>4, <3>2 DEF Top
      <3> QED BY <2>2, <2>4, <3>1, <3>2
    <2> QED BY <2>2, <2>4, <2>5, <2>6 DEF StackInv, Needs
  <1>6. CASE MaterializeInput
    BY <1>4, <1>6 DEF MaterializeInput, Return
  <1>7. CASE MaterializeAlias
    BY <1>4, <1>7 DEF MaterializeAlias, Return, Ready
  <1>8. CASE MaterializeOperation
    BY <1>4, <1>8 DEF MaterializeOperation, Return, Ready
  <1>9. CASE MaterializeFails \/ MaterializeEnds
    BY <1>1, <1>9 DEF MaterializeFails, MaterializeEnds, Finish
  <1>10. CASE Grow \/ Reindex
    BY <1>1, <1>10 DEF Grow, Reindex
  <1>11. ASSUME NEW r \in Requests("info"), NEW sel \in Selections, ExtractInfo(r[1], r[2], sel)
         PROVE  StackInv'
    BY <1>1, <1>11 DEF ExtractInfo
  <1>12. ASSUME NEW r \in Requests("state"), NEW sel \in Selections, ExtractIntoBlock(r[1], r[2], sel)
         PROVE  StackInv'
    BY <1>2, <1>12 DEF ExtractIntoBlock, Start
  <1>13. CASE MaterializeInfo
    BY <1>2, <1>13 DEF MaterializeInfo, Start
  <1>14. CASE UNCHANGED rewriteVars
    BY <1>3, <1>14 DEF rewriteVars, frame
  <1> QED
    BY <1>5, <1>6, <1>7, <1>8, <1>9, <1>10, <1>11, <1>12, <1>13, <1>14 DEF RewriteNext, Materializing

\* A grounded name is an argument, or all that its candidate needs is grounded.
LEMMA GroundedIs ==
  ASSUME RewriteInv, call # "none", NEW s \in Symbol, Grounded(s)
  PROVE  /\ s \notin DOMAIN held.map => s \in Arguments
         /\ s \in DOMAIN held.map => \A u \in Needs(s) \cap Symbol : Grounded(u)
PROOF
  <1> DEFINE G == {x \in Symbol : Grounded(x)}
             Rest == G \ {s}
  <1>1. \A x \in DOMAIN held.map : x \in Symbol
    BY DEF RewriteInv, HeldInv, CallInv
  <1>2. Arguments \subseteq Symbol
    BY ConstantsOK DEF Arguments, RewriteInv, BlockInv
  <1>3. ~IsGroundedBy(Rest)
    BY DEF Grounded
  <1>4. Arguments \ DOMAIN held.map \subseteq G
    BY <1>2 DEF Grounded, IsGroundedBy
  <1>5. ASSUME NEW x \in DOMAIN held.map, Needs(x) \subseteq G
        PROVE  x \in G
    BY <1>1, <1>5 DEF Grounded, IsGroundedBy
  <1>6. CASE s \notin DOMAIN held.map
    <2>1. s \in Arguments
      BY <1>3, <1>4, <1>5, <1>6 DEF IsGroundedBy
    <2> QED BY <1>6, <2>1
  <1>7. CASE s \in DOMAIN held.map
    <2>1. Needs(s) \subseteq G
      <3> HIDE DEF G
      <3> QED BY <1>3, <1>4, <1>5, <1>7 DEF IsGroundedBy
    <2> QED BY <1>7, <2>1
  <1> QED BY <1>6, <1>7

\* Names that need each other are not grounded.
LEMMA CycleIsNotGrounded ==
  ASSUME RewriteInv, call # "none",
         NEW K \in SUBSET DOMAIN held.map, \A x \in K : Needs(x) \cap K # {},
         NEW s \in K
  PROVE  ~Grounded(s)
PROOF
  <1>1. \A x \in DOMAIN held.map : x \in Symbol
    BY DEF RewriteInv, HeldInv, CallInv
  <1>2. Arguments \subseteq Symbol
    BY ConstantsOK DEF Arguments, RewriteInv, BlockInv
  <1>3. IsGroundedBy(Symbol \ K)
    BY <1>1, <1>2 DEF IsGroundedBy
  <1> QED BY <1>3 DEF Grounded

\* If the roots are grounded, the recursion goes on.
LEMMA GroundedGoesOn ==
  ASSUME RewriteInv, StackInv
  PROVE  FailsOnlyUngrounded
PROOF
  <1> SUFFICES ASSUME call # "none", IsStuck, \A i \in Slot : Grounded(held.roots[i])
               PROVE  FALSE
    BY DEF FailsOnlyUngrounded
  <1>1. /\ active \in Seq(Symbol)
        /\ active # <<>> => \E i \in Slot : active[1] = held.roots[i]
        /\ \A k \in 2..Len(active) : active[k-1] \in DOMAIN held.map /\ active[k] \in Needs(active[k-1])
    BY DEF StackInv
  <1>2. \A k \in 1..Len(active) : Grounded(active[k])
    <2> DEFINE T == {k \in 1..Len(active) : ~Grounded(active[k])}
    <2>1. T \in SUBSET Nat
      OBVIOUS
    <2>2. ASSUME T # {}
          PROVE  FALSE
      <3> HIDE DEF T
      <3>1. PICK k \in T : \A j \in T : ~(j < k)
        BY <2>1, <2>2, LeastNatural
      <3> USE DEF T
      <3>2. k # 1
        BY <1>1, <3>1
      <3>3. k \in 2..Len(active) /\ k - 1 \in 1..Len(active) /\ k - 1 < k
        BY <1>1, <3>1, <3>2
      <3>4. Grounded(active[k-1])
        BY <3>1, <3>3
      <3>5. Grounded(active[k])
        BY <1>1, <3>3, <3>4, GroundedIs
      <3> QED BY <3>1, <3>5
    <2> QED BY <2>2
  <1>3. ASSUME NEW s \in Needed, IsActive(s)
        PROVE  FALSE
    <2>1. PICK i \in 1..Len(active) : active[i] = s
      BY <1>1, <1>3 DEF IsActive
    <2>2. Top \in DOMAIN held.map /\ s \in Needs(Top)
      BY <1>1, <1>3, <2>1, NeededIs
    <2> DEFINE K == {active[j] : j \in i..Len(active)}
    <2>3. ASSUME NEW j \in i..Len(active)
          PROVE  active[j] \in DOMAIN held.map /\ Needs(active[j]) \cap K # {}
      <3>1. CASE j = Len(active)
        BY <1>1, <2>1, <2>2, <3>1 DEF Top
      <3>2. CASE j # Len(active)
        <4>1. j + 1 \in 2..Len(active) /\ j + 1 \in i..Len(active) /\ (j + 1) - 1 = j
          BY <1>1, <2>3, <3>2
        <4>2. active[j] \in DOMAIN held.map /\ active[j + 1] \in Needs(active[j])
          BY <1>1, <4>1
        <4> QED BY <4>1, <4>2
      <3> QED BY <3>1, <3>2
    <2>4. K \subseteq DOMAIN held.map /\ \A x \in K : Needs(x) \cap K # {}
      <3> SUFFICES ASSUME NEW x \in K
                   PROVE  x \in DOMAIN held.map /\ Needs(x) \cap K # {}
        OBVIOUS
      <3>1. PICK j \in i..Len(active) : x = active[j]
        OBVIOUS
      <3> HIDE DEF K
      <3> QED BY <2>3, <3>1
    <2>a. s \in K
      BY <1>1, <2>1
    <2> HIDE DEF K
    <2>5. ~Grounded(s)
      BY <2>4, <2>a, CycleIsNotGrounded
    <2> QED BY <1>2, <2>1, <2>5
  <1>4. ASSUME active # <<>>, Top \notin DOMAIN held.map, Inputs = {}
        PROVE  FALSE
    <2>1. Len(active) \in 1..Len(active)
      BY <1>1, <1>4
    <2>2. Top \in Symbol /\ Grounded(Top)
      BY <1>1, <1>2, <2>1 DEF Top
    <2>3. Top \in Arguments
      BY <1>4, <2>2, GroundedIs
    <2> QED BY <1>4, <2>3 DEF Arguments, Inputs
  <1> QED
    BY <1>3, <1>4 DEF IsStuck, MayEnter

(***************************************************************************)
(* Whatever the selection, the stale ones of a kept EGraphExtractInfo too: *)
(* the cycle check and the missing-selection error of the materializer are *)
(* met only if some root has no finite term in it.                         *)
(***************************************************************************)
THEOREM FailsAlwaysUngrounded == RewriteSpec => []FailsOnlyUngrounded
PROOF
  <1>1. RewriteInit => RewriteInv /\ StackInv
    BY RewriteInitInv DEF RewriteInit, StackInv
  <1>2. RewriteInv /\ StackInv /\ [RewriteNext]_rewriteVars => (RewriteInv /\ StackInv)'
    BY RewriteNextInv, StackNext
  <1>3. RewriteInv /\ StackInv => FailsOnlyUngrounded
    BY GroundedGoesOn
  <1> QED
    BY <1>1, <1>2, <1>3, PTL DEF RewriteSpec
=============================================================================
