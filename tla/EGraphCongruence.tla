-------------------------- MODULE EGraphCongruence --------------------------
(***************************************************************************)
(* What a rebuild achieves: congruence is closed, references are canonical *)
(* and the hash-cons table is sound, and all of the facade's calls keep to *)
(* CongruenceGraph, for any names, operations and bodies.                  *)
(***************************************************************************)
EXTENDS EGraphTheorems, EGraphRefinement, EGraphExtractable

USE DEF HasCandidates

\* Rewriting to leaders is absorbed by rewriting to the leaders of later.
LEMMA CanonAgain ==
  ASSUME NEW leader \in [Symbol -> Symbol], NEW later \in [Symbol -> Symbol],
         \A s \in Symbol : later[leader[s]] = later[s],
         NEW t \in Term
  PROVE  Canon(later, Canon(leader, t)) = Canon(later, t)
PROOF
  <1> DEFINE c == Canon(leader, t)
             n == Arity[t.op]
  <1>1. \A i \in 1..n : t.args[i] \in Symbol
    BY TermFields
  <1>2. c.op = t.op /\ c.args = [i \in 1..n |-> leader[t.args[i]]]
    BY DEF Canon
  <1>3. \A i \in 1..n : later[c.args[i]] = later[t.args[i]]
    BY <1>1, <1>2
  <1>4. Canon(later, c) = [op |-> t.op, args |-> [i \in 1..n |-> later[c.args[i]]]]
    BY <1>2 DEF Canon
  <1>5. [i \in 1..n |-> later[c.args[i]]] = [i \in 1..n |-> later[t.args[i]]]
    <2> HIDE DEF c, n
    <2> QED
      BY <1>3
  <1> QED
    BY <1>4, <1>5 DEF Canon

\* The entry of a key has a candidate congruent to it.
LEMMA IndexSound ==
  ASSUME NEW leader \in [Symbol -> Symbol], NEW candidates \in [Symbol -> SUBSET Term],
         \A s \in Symbol : leader[leader[s]] = leader[s],
         NEW k \in DOMAIN Index(leader, candidates)
  PROVE  /\ Index(leader, candidates)[k] \in Symbol
         /\ \E t \in candidates[Index(leader, candidates)[k]] :
              Canon(leader, t) = k /\ Canon(leader, t) = Canon(leader, k)
PROOF
  <1> DEFINE o == Index(leader, candidates)[k]
  <1>1. o \in Symbol /\ \E t \in candidates[o] : Canon(leader, t) = k
    BY IndexEntries
  <1> HIDE DEF o
  <1>2. PICK t \in candidates[o] : Canon(leader, t) = k
    BY <1>1
  <1>3. t \in Term
    BY <1>1
  <1>4. Canon(leader, k) = Canon(leader, t)
    BY <1>2, <1>3, CanonAgain
  <1> QED
    BY <1>1, <1>2, <1>4 DEF o

-----------------------------------------------------------------------------
(***************************************************************************)
(* Congruence.  While a rebuild round has united nothing so far, the       *)
(* references are canonical and two e-classes with one key are either in   *)
(* one class already or in a pair still to be processed.                   *)
(***************************************************************************)
RoundInv ==
  pc = "collide" /\ ~changed =>
    /\ \A i \in Slot : Leader[targets[i]] = targets[i]
    /\ \A s \in Symbol : \A t \in terms[s] :
         /\ Canon(Leader, t) = t
         /\ t \in DOMAIN hashcons
         /\ \/ Leader[hashcons[t]] = Leader[s]
            \/ UnionPair(Leader, hashcons[t], s) \in work

\* Every step keeps RoundInv.
LEMMA RoundInvNext ==
  ASSUME Inv, RoundInv, [Next]_vars
  PROVE  RoundInv'
PROOF
  <1> SUFFICES ASSUME pc' = "collide", ~changed'
               PROVE  /\ \A i \in Slot : Leader'[targets'[i]] = targets'[i]
                      /\ \A s \in Symbol : \A t \in terms'[s] :
                           /\ Canon(Leader', t) = t
                           /\ t \in DOMAIN hashcons'
                           /\ \/ Leader'[hashcons'[t]] = Leader'[s]
                              \/ UnionPair(Leader', hashcons'[t], s) \in work'
    BY DEF RoundInv
  <1>1. ASSUME NEW P, UnionValueTuples(P) PROVE FALSE
    BY <1>1 DEF UnionValueTuples
  <1>2. ASSUME NEW p \in work, UnionLeaderSymbols(p)
        PROVE  /\ \A i \in Slot : Leader'[targets'[i]] = targets'[i]
               /\ \A s \in Symbol : \A t \in terms'[s] :
                    /\ Canon(Leader', t) = t
                    /\ t \in DOMAIN hashcons'
                    /\ \/ Leader'[hashcons'[t]] = Leader'[s]
                       \/ UnionPair(Leader', hashcons'[t], s) \in work'
    <2>1. /\ pc = "collide" /\ ~changed /\ Leader[p[1]] = Leader[p[2]]
          /\ UNCHANGED <<defined, terms, aliases, targets, hashcons, parent>>
          /\ work' = work \ {p}
      BY <1>2 DEF UnionLeaderSymbols, ir, Inv, TypeOK
    <2>2. Leader' = Leader
      BY <2>1 DEF Leader
    <2>3. ASSUME NEW s \in Symbol, NEW t \in terms[s], UnionPair(Leader, hashcons[t], s) = p
          PROVE  Leader[hashcons[t]] = Leader[s]
      <3>1. hashcons[t] \in Symbol
        BY <2>1 DEF RoundInv, Inv, TypeOK
      <3>2. \/ p = <<Leader[hashcons[t]], Leader[s]>>
            \/ p = <<Leader[s], Leader[hashcons[t]]>>
        BY <2>3 DEF UnionPair
      <3> QED
        BY <2>1, <3>1, <3>2, LeaderProps DEF Inv
    <2> QED
      BY <2>1, <2>2, <2>3 DEF RoundInv
  <1>3. ASSUME NEW t \in Term, NEW s \in Symbol, Intern(t, s) PROVE FALSE
    BY <1>3 DEF Intern
  <1>4. ASSUME RebuildRound
        PROVE  /\ \A i \in Slot : Leader'[targets'[i]] = targets'[i]
               /\ \A s \in Symbol : \A t \in terms'[s] :
                    /\ Canon(Leader', t) = t
                    /\ t \in DOMAIN hashcons'
                    /\ \/ Leader'[hashcons'[t]] = Leader'[s]
                       \/ UnionPair(Leader', hashcons'[t], s) \in work'
    <2> DEFINE rewritten == [s \in Symbol |-> {Canon(Leader, t) : t \in terms[s]}]
               table == Index(Leader, rewritten)
    <2>1. /\ UNCHANGED <<defined, parent>> /\ terms' = rewritten
          /\ targets' = [i \in Slot |-> Leader[targets[i]]]
          /\ hashcons' = table /\ work' = Collisions(Leader, table, rewritten)
      BY <1>4 DEF RebuildRound
    <2>2. Leader' = Leader
      BY <2>1 DEF Leader
    <2>3. /\ Leader \in [Symbol -> Symbol]
          /\ \A s \in Symbol : Leader[Leader[s]] = Leader[s]
      BY LeaderProps DEF Inv
    <2>4. rewritten \in [Symbol -> SUBSET Term]
      BY RewriteVerifies
    <2>5. \A i \in Slot : Leader[Leader[targets[i]]] = Leader[targets[i]]
      BY <2>3 DEF Inv, TypeOK
    <2>6. ASSUME NEW s \in Symbol, NEW u \in rewritten[s]
          PROVE  /\ Canon(Leader, u) = u
                 /\ u \in DOMAIN table
                 /\ \/ Leader[table[u]] = Leader[s]
                    \/ UnionPair(Leader, table[u], s) \in Collisions(Leader, table, rewritten)
      <3>1. PICK t \in terms[s] : u = Canon(Leader, t)
        OBVIOUS
      <3>2. t \in Term
        BY DEF Inv, TypeOK
      <3>3. Canon(Leader, u) = u
        BY <2>3, <3>1, <3>2, CanonAgain
      <3>4. u \in DOMAIN table
        BY <2>3, <2>4, <2>6, <3>3, IndexEntries
      <3>5. CASE table[u] = s
        BY <3>3, <3>4, <3>5
      <3>6. CASE table[u] # s
        <4> HIDE DEF table, rewritten
        <4>1. UnionPair(Leader, table[u], s) \in
                {UnionPair(Leader, table[Canon(Leader, v)], s) :
                   v \in {w \in rewritten[s] : table[Canon(Leader, w)] # s}}
          BY <2>6, <3>3, <3>6
        <4> QED
          BY <4>1, <3>3, <3>4 DEF Collisions
      <3> QED
        BY <3>5, <3>6
    <2> HIDE DEF table, rewritten
    <2> QED
      BY <2>1, <2>2, <2>5, <2>6
  <1>5. ASSUME RebuildFinish PROVE FALSE
    BY <1>5 DEF RebuildFinish
  <1>6. CASE UNCHANGED vars
    <2>1. Leader' = Leader
      BY <1>6 DEF vars, Leader
    <2> QED
      BY <1>6, <2>1 DEF vars, RoundInv
  <1> QED
    BY <1>1, <1>2, <1>3, <1>4, <1>5, <1>6 DEF Next, ClientUnion

\* No round is in progress at first.
LEMMA RoundInvInit == Init => RoundInv
BY DEF Init, RoundInv

(***************************************************************************)
(* The last round united nothing, so the candidates an e-class absorbs are *)
(* canonical, and the owner of a key is in the class of every other one.   *)
(***************************************************************************)
LEMMA FinishSettles ==
  ASSUME Inv, RoundInv, RebuildFinish
  PROVE  Settled'
PROOF
  <1> DEFINE T == AbsorbedTerms(Leader)
             A == AbsorbedAliases(Leader)
             R == [i \in Slot |-> Leader[targets[i]]]
             table == Index(Leader, T)
  <1>1. /\ terms' = T /\ aliases' = A /\ targets' = R
        /\ defined' \subseteq defined
        /\ hashcons' = table
        /\ pc = "collide" /\ ~changed /\ work = {} /\ parent' = parent
    BY DEF RebuildFinish
  <1>2. Leader' = Leader
    BY <1>1 DEF Leader
  <1>3. /\ Leader \in [Symbol -> Symbol]
        /\ \A s \in Symbol : Leader[Leader[s]] = Leader[s]
    BY LeaderProps DEF Inv
  <1>4. /\ T \in [Symbol -> SUBSET Term]
        /\ \A s \in Symbol : \A t \in T[s] :
             \E m \in defined : (Leader[m] = s \/ m = s) /\ t \in terms[m]
    BY AbsorbVerifies
  <1>5. \A i \in Slot : Leader[R[i]] = R[i]
    BY <1>3 DEF Inv, TypeOK
  <1>6. ASSUME NEW s \in Symbol, NEW t \in T[s]
        PROVE  /\ t \in Term /\ Canon(Leader, t) = t
               /\ Leader[hashcons[t]] = Leader[s]
    <2> HIDE DEF T
    <2>1. PICK m \in defined : (Leader[m] = s \/ m = s) /\ t \in terms[m]
      BY <1>4
    <2>2. m \in Symbol
      BY DEF Inv, TypeOK
    <2>3. Canon(Leader, t) = t /\ Leader[hashcons[t]] = Leader[m]
      BY <1>1, <2>1, <2>2 DEF RoundInv
    <2> QED
      BY <1>3, <1>4, <2>1, <2>2, <2>3
  <1> HIDE DEF T
  <1>7. ASSUME NEW s \in Symbol, NEW t \in T[s]
        PROVE  /\ Canon(Leader, t) = t
               /\ t \in DOMAIN table
               /\ Leader[table[t]] = Leader[s]
    <2>1. Canon(Leader, t) = t
      BY <1>6
    <2>2. t \in DOMAIN table
      BY <1>3, <1>4, <2>1, IndexEntries
    <2>3. table[t] \in Symbol /\ \E u \in T[table[t]] : Canon(Leader, u) = t
      BY <1>3, <1>4, <2>2, IndexSound
    <2> HIDE DEF table
    <2>4. PICK u \in T[table[t]] : Canon(Leader, u) = t
      BY <2>3
    <2>5. u = t
      BY <1>6, <2>3, <2>4
    <2> QED
      BY <1>6, <2>1, <2>2, <2>3, <2>4, <2>5
  <1>8. ASSUME NEW s \in defined', IsAbsorbed(Leader, s)'
        PROVE  /\ T[s] = {} /\ A[s] = {}
               /\ s \in Input => s \in A[Leader[s]]
    <2>1. s \in Symbol /\ s \in defined
      BY <1>1 DEF Inv, TypeOK
    <2>2. Leader[s] # s /\ Leader[s] \in EClass \cap defined
      BY <1>1, <1>2, <1>8 DEF IsAbsorbed
    <2>3. IsAbsorbed(Leader, s)
      BY <2>2 DEF IsAbsorbed
    <2>4. ~IsAbsorbed(Leader, Leader[s]) /\ Leader[s] \in Symbol
      BY <1>3, <2>1 DEF IsAbsorbed
    <2>5. T[s] = {} /\ A[s] = {}
      BY <2>1, <2>3 DEF T, AbsorbedTerms, AbsorbedAliases
    <2>6. Members(Leader, Leader[s]) \cap Input \subseteq A[Leader[s]]
      BY <2>2, <2>4 DEF AbsorbedAliases
    <2>7. s \in Members(Leader, Leader[s])
      BY <2>1 DEF Members
    <2> QED
      BY <2>5, <2>6, <2>7
  <1> HIDE DEF A, R, table
  <1> QED
    BY <1>1, <1>2, <1>5, <1>7, <1>8 DEF Settled

\* A call that touches nothing leaves a settled graph settled.
LEMMA SettledStays ==
  ASSUME Inv, Settled, touched = {}, touched' = {}, Next, ~RebuildFinish
  PROVE  Settled'
PROOF
  <1> USE DEF Settled
  <1>1. CASE ClientUnion
    <2>1. UNCHANGED <<defined, terms, aliases, targets, parent, hashcons>>
      BY <1>1 DEF ClientUnion, UnionValueTuples, ir
    <2>2. Leader' = Leader
      BY <2>1 DEF Leader
    <2> QED
      BY <2>1, <2>2 DEF IsAbsorbed
  <1>2. ASSUME NEW p \in work, UnionLeaderSymbols(p) PROVE Settled'
    <2>1. UNCHANGED <<defined, terms, aliases, targets, parent, hashcons>>
      BY <1>2 DEF UnionLeaderSymbols, ir
    <2>2. Leader' = Leader
      BY <2>1 DEF Leader
    <2> QED
      BY <2>1, <2>2 DEF IsAbsorbed
  <1>3. ASSUME NEW t \in Term, NEW n \in Symbol, Intern(t, n) PROVE Settled'
    <2> DEFINE key == Canon(Leader, t)
    <2>1. /\ UNCHANGED <<aliases, targets, parent>>
          /\ n \in EClass /\ n \notin defined /\ parent[n] = n
          /\ key \notin DOMAIN hashcons
          /\ defined' = defined \cup {n}
          /\ terms' = [terms EXCEPT ![n] = {key}]
          /\ hashcons' = [k \in DOMAIN hashcons \cup {key} |->
                            IF k = key THEN n ELSE hashcons[k]]
      BY <1>3 DEF Intern, IsFresh
    <2>2. Leader' = Leader
      BY <2>1 DEF Leader
    <2>3. /\ Leader \in [Symbol -> Symbol]
          /\ \A s \in Symbol : Leader[Leader[s]] = Leader[s]
          /\ Leader[n] = n
      BY <2>1, LeaderProps DEF Inv
    <2>4. Canon(Leader, key) = key
      BY <2>3, CanonAgain
    <2> HIDE DEF key
    <2>5. terms'[n] = {key} /\ \A s \in Symbol : s # n => terms'[s] = terms[s]
      BY <2>1 DEF Inv, TypeOK
    <2>6. ASSUME NEW s \in Symbol, NEW u \in terms'[s]
          PROVE  /\ Canon(Leader, u) = u
                 /\ u \in DOMAIN hashcons'
                 /\ Leader[hashcons'[u]] = Leader[s]
      <3>1. CASE s = n
        BY <3>1, <2>1, <2>4, <2>5, <2>6
      <3>2. CASE s # n
        BY <3>2, <2>1, <2>5, <2>6
      <3> QED
        BY <3>1, <3>2
    <2>7. ASSUME NEW s \in defined', IsAbsorbed(Leader, s)'
          PROVE  /\ terms'[s] = {} /\ aliases[s] = {}
                 /\ s \in Input => s \in aliases[Leader[s]]
      <3>1. s # n /\ s \in defined /\ s \in Symbol
        BY <2>1, <2>2, <2>3, <2>7 DEF IsAbsorbed, Inv, TypeOK
      <3>2. Leader[s] # n
        BY <2>1, <2>2, <2>7, <3>1, LeaderDefined
      <3>3. IsAbsorbed(Leader, s)
        BY <2>1, <2>2, <2>7, <3>2 DEF IsAbsorbed
      <3> QED
        BY <2>5, <3>1, <3>3
    <2>8. \A i \in Slot : Leader'[targets'[i]] = targets'[i]
      BY <2>1, <2>2
    <2>9. \A s \in Symbol : \A u \in terms'[s] :
            /\ Canon(Leader', u) = u
            /\ u \in DOMAIN hashcons'
            /\ Leader'[hashcons'[u]] = Leader'[s]
      BY <2>2, <2>6
    <2>10. \A s \in defined' : IsAbsorbed(Leader, s)' =>
             /\ terms'[s] = {} /\ aliases'[s] = {}
             /\ s \in Input => s \in aliases'[Leader'[s]]
      BY <2>1, <2>2, <2>7
    <2> QED
      BY <2>8, <2>9, <2>10
  <1>4. ASSUME RebuildRound PROVE Settled'
    <2> DEFINE rewritten == [s \in Symbol |-> {Canon(Leader, t) : t \in terms[s]}]
               table == Index(Leader, rewritten)
    <2>1. /\ UNCHANGED <<defined, aliases, parent>>
          /\ terms' = rewritten /\ hashcons' = table
          /\ targets' = [i \in Slot |-> Leader[targets[i]]]
      BY <1>4 DEF RebuildRound
    <2>2. Leader' = Leader
      BY <2>1 DEF Leader
    <2>3. /\ Leader \in [Symbol -> Symbol]
          /\ \A s \in Symbol : Leader[Leader[s]] = Leader[s]
      BY LeaderProps DEF Inv
    <2>4. terms \in [Symbol -> SUBSET Term] /\ targets \in [Slot -> Symbol]
      BY DEF Inv, TypeOK
    <2>5. \A s \in Symbol : {Canon(Leader, t) : t \in terms[s]} = terms[s]
      OBVIOUS
    <2>6. rewritten = terms
      BY <2>4, <2>5
    <2>7. targets' = targets
      BY <2>1, <2>4
    <2>8. ASSUME NEW s \in Symbol, NEW t \in terms[s]
          PROVE  t \in DOMAIN table /\ Leader[table[t]] = Leader[s]
      <3> HIDE DEF rewritten
      <3>1. table = Index(Leader, terms)
        BY <2>6
      <3> HIDE DEF table
      <3>2. t \in DOMAIN table
        BY <2>3, <2>4, <2>8, <3>1, IndexEntries
      <3>3. table[t] \in Symbol /\ \E u \in terms[table[t]] : Canon(Leader, u) = t
        BY <2>3, <2>4, <3>1, <3>2, IndexSound
      <3>4. t \in terms[table[t]]
        BY <3>3
      <3> QED
        BY <2>8, <3>2, <3>3, <3>4
    <2> HIDE DEF rewritten, table
    <2>9. UNCHANGED <<terms, targets, defined, aliases>>
      BY <2>1, <2>6, <2>7
    <2> QED
      BY <2>1, <2>2, <2>8, <2>9 DEF IsAbsorbed
  <1> QED
    BY <1>1, <1>2, <1>3, <1>4 DEF Next

\* The step form of RebuildSettles.
LEMMA RebuildSettlesStep ==
  Inv /\ RoundInv /\ [Next]_vars =>
    [\/ pc = "collide" /\ pc' = "idle"
     \/ touched = {} /\ touched' = {} /\ Settled
     => Settled']_vars
PROOF
  <1> SUFFICES ASSUME Inv, RoundInv, Next,
                      \/ pc = "collide" /\ pc' = "idle"
                      \/ touched = {} /\ touched' = {} /\ Settled
               PROVE  Settled'
    OBVIOUS
  <1>1. CASE RebuildFinish
    BY <1>1, FinishSettles
  <1>2. CASE ~RebuildFinish
    <2>1. ~(pc = "collide" /\ pc' = "idle")
      BY <1>2 DEF Next, ClientUnion, UnionValueTuples, UnionLeaderSymbols, Intern, RebuildRound
    <2> QED
      BY <1>2, <2>1, SettledStays
  <1> QED
    BY <1>1, <1>2

(***************************************************************************)
(* Whatever was united and interned before, a rebuild returns a graph in   *)
(* which congruent candidates are in one class, references are canonical   *)
(* and the table finds every candidate; interning on it keeps it so.       *)
(***************************************************************************)
THEOREM RebuildAlwaysSettles == Spec => RebuildSettles
PROOF
  <1>1. Init => Inv /\ RoundInv
    BY InitInv, RoundInvInit
  <1>2. Inv /\ RoundInv /\ [Next]_vars => Inv' /\ RoundInv'
    BY NextInv, RoundInvNext
  <1>3. Inv /\ RoundInv /\ [Next]_vars =>
          [\/ pc = "collide" /\ pc' = "idle"
           \/ touched = {} /\ touched' = {} /\ Settled
           => Settled']_vars
    BY RebuildSettlesStep
  <1> QED
    BY <1>1, <1>2, <1>3, PTL DEF Spec, RebuildSettles

-----------------------------------------------------------------------------
(***************************************************************************)
(* The hash-cons table.  A key is looked up with the leaders of today and  *)
(* was entered with the leaders of an earlier day, so what must survive a  *)
(* union is that the entry's class holds a candidate congruent to the key. *)
(***************************************************************************)

\* A table just built is sound when the owners of candidates are in the block.
LEMMA IndexHashConsSound ==
  ASSUME NEW leader \in [Symbol -> Symbol], NEW candidates \in [Symbol -> SUBSET Term],
         \A s \in Symbol : leader[leader[s]] = leader[s],
         NEW block, \A s \in Symbol : candidates[s] # {} => s \in block,
         NEW k \in DOMAIN Index(leader, candidates)
  PROVE  \E s \in block :
           /\ leader[s] = leader[Index(leader, candidates)[k]]
           /\ \E t \in candidates[s] : Canon(leader, t) = Canon(leader, k)
PROOF
  <1> DEFINE o == Index(leader, candidates)[k]
  <1>1. /\ o \in Symbol
        /\ \E t \in candidates[o] : Canon(leader, t) = Canon(leader, k)
    BY IndexSound
  <1> HIDE DEF o
  <1>2. o \in block
    BY <1>1
  <1> QED
    BY <1>1, <1>2 DEF o

\* The first table is sound.
LEMMA HashConsInit == Init => HashConsSound
PROOF
  <1> SUFFICES ASSUME Init PROVE HashConsSound
    OBVIOUS
  <1>1. Inv
    BY InitInv
  <1>2. hashcons = Index(Leader, terms)
    BY DEF Init, Leader
  <1>3. /\ Leader \in [Symbol -> Symbol]
        /\ \A s \in Symbol : Leader[Leader[s]] = Leader[s]
    BY <1>1, LeaderProps DEF Inv
  <1>4. /\ terms \in [Symbol -> SUBSET Term]
        /\ \A s \in Symbol : terms[s] # {} => s \in defined
    BY <1>1 DEF Inv, TypeOK, IRVerifies
  <1> QED
    BY <1>2, <1>3, <1>4, IndexHashConsSound DEF HashConsSound

\* A union keeps entries congruent, though their keys are stale then.
LEMMA HashConsUnion ==
  ASSUME Inv, HashConsSound, NEW p \in work, UnionLeaderSymbols(p)
  PROVE  HashConsSound'
PROOF
  <1> DEFINE l == Leader[p[1]]
             m == Leader[p[2]]
  <1>1. UNCHANGED <<defined, terms, hashcons>>
    BY DEF UnionLeaderSymbols, ir
  <1>2. p[1] \in Symbol /\ p[2] \in Symbol
    BY DEF Inv, TypeOK
  <1>3. /\ Leader \in [Symbol -> Symbol]
        /\ \A s \in Symbol : Leader[s] \in Symbol /\ Leader[Leader[s]] = Leader[s]
    BY LeaderProps DEF Inv
  <1>4. /\ Leader' \in [Symbol -> Symbol]
        /\ \/ Leader' = Leader
           \/ \A s \in Symbol : Leader'[s] = IF Leader[s] = m THEN l ELSE Leader[s]
    <2>1. CASE l = m
      <3>1. Leader' = Leader
        BY <2>1 DEF UnionLeaderSymbols, Leader
      <3> QED
        BY <1>3, <3>1
    <2>2. CASE l # m
      <3>1. parent' = Link(parent, l, m)
        BY <2>2 DEF UnionLeaderSymbols
      <3>2. /\ l \in Symbol /\ m \in Symbol /\ parent[l] = l /\ parent[m] = m
        BY <1>2, LeaderProps DEF Inv
      <3>3. Leader' = [s \in Symbol |-> IF Leader[s] = m THEN l ELSE Leader[s]]
        BY <2>2, <3>1, <3>2, LinkMovesOneClass DEF Inv, TypeOK, UnionForest, Leader
      <3> QED
        BY <1>3, <3>2, <3>3
    <2> QED
      BY <2>1, <2>2
  <1>5. /\ \A s \in Symbol : Leader'[Leader[s]] = Leader'[s]
        /\ \A r, s \in Symbol : Leader[r] = Leader[s] => Leader'[r] = Leader'[s]
    BY <1>3, <1>4
  <1>6. \A t \in Term : Canon(Leader', Canon(Leader, t)) = Canon(Leader', t)
    BY <1>3, <1>4, <1>5, CanonAgain
  <1> SUFFICES ASSUME NEW k \in DOMAIN hashcons
               PROVE  \E s \in defined :
                        /\ Leader'[s] = Leader'[hashcons[k]]
                        /\ \E t \in terms[s] : Canon(Leader', t) = Canon(Leader', k)
    BY <1>1 DEF HashConsSound
  <1>7. PICK s \in defined :
          /\ Leader[s] = Leader[hashcons[k]]
          /\ \E t \in terms[s] : Canon(Leader, t) = Canon(Leader, k)
    BY DEF HashConsSound
  <1>8. PICK t \in terms[s] : Canon(Leader, t) = Canon(Leader, k)
    BY <1>7
  <1>9. s \in Symbol /\ hashcons[k] \in Symbol /\ k \in Term /\ t \in Term
    BY DEF Inv, TypeOK
  <1>10. Canon(Leader', t) = Canon(Leader', k)
    BY <1>6, <1>8, <1>9
  <1> QED
    BY <1>5, <1>7, <1>9, <1>10

\* The entry that intern adds is of the candidate it adds.
LEMMA HashConsIntern ==
  ASSUME Inv, HashConsSound, NEW t \in Term, NEW n \in Symbol, Intern(t, n)
  PROVE  HashConsSound'
PROOF
  <1> DEFINE key == Canon(Leader, t)
  <1>1. /\ n \notin defined /\ parent' = parent
        /\ defined' = defined \cup {n}
        /\ terms' = [terms EXCEPT ![n] = {key}]
        /\ hashcons' = [k \in DOMAIN hashcons \cup {key} |->
                          IF k = key THEN n ELSE hashcons[k]]
    BY DEF Intern, IsFresh
  <1>2. Leader' = Leader
    BY <1>1 DEF Leader
  <1> HIDE DEF key
  <1>3. terms'[n] = {key} /\ \A s \in Symbol : s # n => terms'[s] = terms[s]
    BY <1>1 DEF Inv, TypeOK
  <1> SUFFICES ASSUME NEW k \in DOMAIN hashcons'
               PROVE  \E s \in defined' :
                        /\ Leader[s] = Leader[hashcons'[k]]
                        /\ \E u \in terms'[s] : Canon(Leader, u) = Canon(Leader, k)
    BY <1>2 DEF HashConsSound
  <1>4. CASE k = key
    BY <1>1, <1>3, <1>4
  <1>5. CASE k # key
    <2>1. k \in DOMAIN hashcons /\ hashcons'[k] = hashcons[k]
      BY <1>1, <1>5
    <2>2. PICK s \in defined :
            /\ Leader[s] = Leader[hashcons[k]]
            /\ \E u \in terms[s] : Canon(Leader, u) = Canon(Leader, k)
      BY <2>1 DEF HashConsSound
    <2>3. s \in Symbol /\ s # n
      BY <1>1 DEF Inv, TypeOK
    <2>4. s \in defined' /\ terms'[s] = terms[s]
      BY <1>1, <1>3, <2>3
    <2> QED
      BY <2>1, <2>2, <2>4
  <1> QED
    BY <1>4, <1>5

\* A round builds the table anew.
LEMMA HashConsRound ==
  ASSUME Inv, RebuildRound
  PROVE  HashConsSound'
PROOF
  <1> DEFINE rewritten == [s \in Symbol |-> {Canon(Leader, t) : t \in terms[s]}]
  <1>1. /\ UNCHANGED <<defined, parent>> /\ terms' = rewritten
        /\ hashcons' = Index(Leader, rewritten)
    BY DEF RebuildRound
  <1>2. Leader' = Leader
    BY <1>1 DEF Leader
  <1>3. /\ Leader \in [Symbol -> Symbol]
        /\ \A s \in Symbol : Leader[Leader[s]] = Leader[s]
    BY LeaderProps DEF Inv
  <1>4. /\ rewritten \in [Symbol -> SUBSET Term]
        /\ \A s \in Symbol : rewritten[s] = {} <=> terms[s] = {}
    BY RewriteVerifies
  <1> HIDE DEF rewritten
  <1>5. \A s \in Symbol : rewritten[s] # {} => s \in defined
    BY <1>4 DEF Inv, IRVerifies
  <1>6. ASSUME NEW k \in DOMAIN Index(Leader, rewritten)
        PROVE  \E s \in defined :
                 /\ Leader[s] = Leader[Index(Leader, rewritten)[k]]
                 /\ \E t \in rewritten[s] : Canon(Leader, t) = Canon(Leader, k)
    BY <1>3, <1>4, <1>5, IndexHashConsSound
  <1> QED
    BY <1>1, <1>2, <1>6 DEF HashConsSound

\* So does the end of a rebuild.
LEMMA HashConsFinish ==
  ASSUME Inv, RebuildFinish
  PROVE  HashConsSound'
PROOF
  <1>1. /\ terms' = AbsorbedTerms(Leader) /\ parent' = parent
        /\ hashcons' = Index(Leader, terms')
    BY DEF RebuildFinish
  <1>2. Leader' = Leader
    BY <1>1 DEF Leader
  <1>3. /\ Leader \in [Symbol -> Symbol]
        /\ \A s \in Symbol : Leader[Leader[s]] = Leader[s]
    BY LeaderProps DEF Inv
  <1>4. Inv'
    BY RebuildFinishInv
  <1>5. /\ terms' \in [Symbol -> SUBSET Term]
        /\ \A s \in Symbol : terms'[s] # {} => s \in defined'
    BY <1>4 DEF Inv, TypeOK, IRVerifies
  <1>6. ASSUME NEW k \in DOMAIN Index(Leader, terms')
        PROVE  \E s \in defined' :
                 /\ Leader[s] = Leader[Index(Leader, terms')[k]]
                 /\ \E t \in terms'[s] : Canon(Leader, t) = Canon(Leader, k)
    BY <1>3, <1>5, IndexHashConsSound
  <1> QED
    BY <1>1, <1>2, <1>6 DEF HashConsSound

\* Every step keeps the table sound.
LEMMA HashConsNext ==
  ASSUME Inv, HashConsSound, [Next]_vars
  PROVE  HashConsSound'
PROOF
  <1>1. CASE ClientUnion \/ UNCHANGED vars
    <2>1. UNCHANGED <<defined, terms, hashcons, parent>>
      BY <1>1 DEF ClientUnion, UnionValueTuples, ir, vars
    <2>2. Leader' = Leader
      BY <2>1 DEF Leader
    <2> QED
      BY <2>1, <2>2 DEF HashConsSound
  <1> QED
    BY <1>1, HashConsUnion, HashConsIntern, HashConsRound, HashConsFinish DEF Next

(***************************************************************************)
(* intern never returns the e-class of a term that is not congruent to the *)
(* one asked for, however many unions the table has not seen.              *)
(***************************************************************************)
THEOREM HashConsAlwaysSound == Spec => []HashConsSound
PROOF
  <1>1. Init => Inv /\ HashConsSound
    BY InitInv, HashConsInit
  <1>2. Inv /\ HashConsSound /\ [Next]_vars => Inv' /\ HashConsSound'
    BY NextInv, HashConsNext
  <1> QED
    BY <1>1, <1>2, PTL DEF Spec

-----------------------------------------------------------------------------
\* The entries of the hash-cons table, and what intern returns.

(***************************************************************************)
(* intern returns e-classes of the block only, and no stale key uses a     *)
(* name that intern may give away again.                                   *)
(***************************************************************************)
TableDefined == \A k \in DOMAIN hashcons : hashcons[k] \in defined /\ Uses(k) \subseteq defined

\* The table of a body just indexed.
LEMMA TableInit == Init => TableDefined
<1> SUFFICES ASSUME Init PROVE TableDefined
  OBVIOUS
<1>1. hashcons = Index(Leader, terms) /\ Inv
  BY InitInv DEF Init, Leader
<1>2. Leader \in [Symbol -> Symbol] /\ terms \in [Symbol -> SUBSET Term]
  BY <1>1, LeaderProps DEF Inv, TypeOK
<1>3. \A s \in defined : Leader[s] \in defined
  BY <1>1, LeaderDefined
<1>4. \A s \in Symbol : \A t \in terms[s] : s \in defined /\ Uses(t) \subseteq defined
  BY <1>1 DEF Inv, IRVerifies, HasCandidates
<1> QED BY <1>1, <1>2, <1>3, <1>4, IndexInBlock DEF TableDefined

\* Only an index drops entries, and intern looks its operands up in the block.
LEMMA TableNext ==
  ASSUME Inv, TableDefined, [Next]_vars
  PROVE  TableDefined'
<1>0. Inv'
  BY NextInv
<1>1. CASE RebuildRound \/ RebuildFinish
  <2>1. hashcons' = Index(Leader, terms') /\ parent' = parent
    BY <1>1 DEF RebuildRound, RebuildFinish
  <2>2. Leader' = Leader
    BY <2>1 DEF Leader
  <2>3. Leader \in [Symbol -> Symbol] /\ terms' \in [Symbol -> SUBSET Term]
    BY <1>0, LeaderProps DEF Inv, TypeOK
  <2>4. \A s \in Symbol : parent'[s] # s => Leader[s] \in defined'
    BY <1>0, <2>2 DEF Inv, LeadersSound
  <2>5. \A s \in defined' : s \in Symbol /\ Leader[s] \in defined'
    BY <1>0, <2>1, <2>4, LeaderProps DEF Inv, TypeOK
  <2>6. \A s \in Symbol : \A t \in terms'[s] : s \in defined' /\ Uses(t) \subseteq defined'
    BY <1>0 DEF Inv, IRVerifies, HasCandidates
  <2> QED BY <2>1, <2>3, <2>5, <2>6, IndexInBlock DEF TableDefined
<1>2. ASSUME NEW t \in Term, NEW r \in Symbol, Intern(t, r) PROVE TableDefined'
  <2> DEFINE key == Canon(Leader, t)
  <2>1. /\ Uses(t) \subseteq defined /\ defined' = defined \cup {r}
        /\ hashcons' = [k \in DOMAIN hashcons \cup {key} |-> IF k = key THEN r ELSE hashcons[k]]
    BY <1>2 DEF Intern
  <2>2. \A u \in Uses(key) : \E v \in Uses(t) : u = Leader[v]
    BY CanonTerm, LeaderProps DEF Inv
  <2>3. Uses(key) \subseteq defined
    BY <2>1, <2>2, LeaderDefined
  <2> HIDE DEF key
  <2> QED BY <2>1, <2>3 DEF TableDefined
<1>3. CASE UNCHANGED <<hashcons, defined>>
  BY <1>3 DEF TableDefined
<1>4. ClientUnion => UNCHANGED <<hashcons, defined>>
  BY DEF ClientUnion, UnionValueTuples, ir
<1>5. (\E p \in work : UnionLeaderSymbols(p)) => UNCHANGED <<hashcons, defined>>
  BY DEF UnionLeaderSymbols, ir
<1> QED BY <1>1, <1>2, <1>3, <1>4, <1>5 DEF Next, vars

\* The class of a hit lists the operation, so it has its type.
LEMMA HitIsTyped ==
  ASSUME Inv, HashConsSound, TableDefined, NEW k \in DOMAIN hashcons
  PROVE  hashcons[k] \in defined /\ TypeOf[hashcons[k]] = ResultType[k.op]
<1>1. PICK s \in defined :
        /\ Leader[s] = Leader[hashcons[k]]
        /\ \E u \in terms[s] : Canon(Leader, u) = Canon(Leader, k)
  BY DEF HashConsSound
<1>2. PICK u \in terms[s] : Canon(Leader, u) = Canon(Leader, k)
  BY <1>1
<1>3. u.op = k.op
  BY <1>2 DEF Canon
<1>4. s \in Symbol /\ ResultType[u.op] = TypeOf[s] /\ hashcons[k] \in Symbol
  BY DEF Inv, TypeOK, IRVerifies
<1>5. TypeOf[hashcons[k]] = TypeOf[s]
  BY <1>1, <1>4 DEF Inv, LeadersSound
<1> QED BY <1>3, <1>4, <1>5 DEF TableDefined

\* A miss is a new e-class of that type.
LEMMA InternReturns ==
  ASSUME Inv, NEW t, NEW r \in Symbol, Intern(t, r)
  PROVE  /\ r \in defined' /\ TypeOf[r] = ResultType[t.op]
         /\ defined \subseteq defined' /\ \A s \in defined : terms'[s] = terms[s]
         /\ UNCHANGED <<parent, pc, work, touched>>
<1>1. TypeOf[r] = ResultType[t.op] /\ UNCHANGED <<parent, pc, work, touched>>
  BY DEF Intern
<1> QED BY <1>1, InternGrows DEF Inv

-----------------------------------------------------------------------------
\* The mapping, as a function of leaders and candidates.
ClassesBy(leader) == [s \in Symbol |-> {x \in Symbol : leader[x] = leader[s]}]

NodeBy(class, s, t) ==
  [class    |-> class[s],
   op       |-> t.op,
   children |-> [i \in 1..Arity[t.op] |-> class[t.args[i]]]]

NodesBy(class, candidates) ==
  UNION {{NodeBy(class, s, t) : t \in candidates[s]} : s \in Symbol}

AliasesBy(class, yields) ==
  UNION {{<<class[s], class[m]>> : m \in {n \in yields[s] : class[n] # class[s]}} :
         s \in Symbol}

\* The mapped variables are those functions, before a step and after it.
LEMMA Mapping ==
  /\ ClassOf = ClassesBy(Leader) /\ ClassOf' = ClassesBy(Leader')
  /\ NodesOf = NodesBy(ClassesBy(Leader), terms)
  /\ NodesOf' = NodesBy(ClassesBy(Leader'), terms')
  /\ AliasesOf = AliasesBy(ClassesBy(Leader), aliases)
  /\ AliasesOf' = AliasesBy(ClassesBy(Leader'), aliases')
PROOF
  <1>1. ClassOf = ClassesBy(Leader) /\ ClassOf' = ClassesBy(Leader')
    BY DEF ClassOf, ClassesBy
  <1>2. /\ NodesOf = NodesBy(ClassOf, terms) /\ NodesOf' = NodesBy(ClassOf', terms')
    BY DEF NodesOf, NodesBy, NodeBy
  <1>3. /\ AliasesOf = AliasesBy(ClassOf, aliases)
        /\ AliasesOf' = AliasesBy(ClassOf', aliases')
    BY DEF AliasesOf, AliasesBy
  <1> QED
    BY <1>1, <1>2, <1>3

\* Names are in one class when they have one leader.
LEMMA ClassesEqual ==
  ASSUME NEW leader \in [Symbol -> Symbol], NEW r \in Symbol, NEW s \in Symbol
  PROVE  /\ ClassesBy(leader)[r] = ClassesBy(leader)[s] <=> leader[r] = leader[s]
         /\ r \in ClassesBy(leader)[s] <=> leader[r] = leader[s]
PROOF
  <1>1. /\ ClassesBy(leader)[r] = {x \in Symbol : leader[x] = leader[r]}
        /\ ClassesBy(leader)[s] = {x \in Symbol : leader[x] = leader[s]}
    BY DEF ClassesBy
  <1> QED
    BY <1>1

\* Which nodes there are.
LEMMA NodeMembers ==
  ASSUME NEW class, NEW candidates
  PROVE  \A x : x \in NodesBy(class, candidates) <=>
           \E s \in Symbol : \E t \in candidates[s] : x = NodeBy(class, s, t)
BY DEF NodesBy

\* Which alias pairs there are.
LEMMA AliasMembers ==
  ASSUME NEW class, NEW yields
  PROVE  \A x : x \in AliasesBy(class, yields) <=>
           \E s \in Symbol : \E n \in yields[s] :
             class[n] # class[s] /\ x = <<class[s], class[n]>>
BY DEF AliasesBy

\* Equal classes make equal nodes.
LEMMA NodesEqual ==
  ASSUME NEW class, NEW r, NEW s, class[r] = class[s], NEW t, NEW u, t.op = u.op,
         \A i \in 1..Arity[t.op] : class[t.args[i]] = class[u.args[i]]
  PROVE  NodeBy(class, r, t) = NodeBy(class, s, u)
PROOF
  <1>1. [i \in 1..Arity[t.op] |-> class[t.args[i]]] = [i \in 1..Arity[u.op] |-> class[u.args[i]]]
    OBVIOUS
  <1> QED
    BY <1>1 DEF NodeBy

-----------------------------------------------------------------------------
(***************************************************************************)
(* One link merges two classes: a is any name of the class whose leader    *)
(* leads from now on, b any name of the other.                             *)
(***************************************************************************)
IsMerge(leader, later, a, b) ==
  /\ leader \in [Symbol -> Symbol] /\ later \in [Symbol -> Symbol]
  /\ a \in Symbol /\ b \in Symbol /\ leader[a] # leader[b]
  /\ \A s \in Symbol : later[s] = IF leader[s] = leader[b] THEN leader[a] ELSE leader[s]

\* The classes after it.
LEMMA MergedClass ==
  ASSUME NEW leader, NEW later, NEW a, NEW b, IsMerge(leader, later, a, b), NEW s \in Symbol
  PROVE  LET before == ClassesBy(leader)
             after  == ClassesBy(later)
         IN  /\ after[s] = Abstract!Merged(before[a], before[b], before[s])
             /\ before[a] # after[s] /\ before[b] # after[s]
PROOF
  <1> DEFINE before == ClassesBy(leader)
             after  == ClassesBy(later)
  <1> USE DEF IsMerge
  <1>1. /\ before[a] = {x \in Symbol : leader[x] = leader[a]}
        /\ before[b] = {x \in Symbol : leader[x] = leader[b]}
        /\ before[s] = {x \in Symbol : leader[x] = leader[s]}
        /\ after[s] = {x \in Symbol : later[x] = later[s]}
    BY DEF ClassesBy
  <1>2. CASE leader[s] = leader[a] \/ leader[s] = leader[b]
    <2>1. after[s] = before[a] \cup before[b]
      BY <1>1, <1>2
    <2>2. before[s] \in {before[a], before[b]}
      BY <1>1, <1>2
    <2>3. a \in after[s] /\ a \notin before[b] /\ b \in after[s] /\ b \notin before[a]
      BY <1>1, <2>1
    <2> QED
      BY <2>1, <2>2, <2>3 DEF Abstract!Merged
  <1>3. CASE leader[s] # leader[a] /\ leader[s] # leader[b]
    <2>1. after[s] = before[s]
      BY <1>1, <1>3
    <2>2. before[s] \notin {before[a], before[b]}
      BY <1>3, ClassesEqual
    <2> QED
      BY <2>1, <2>2 DEF Abstract!Merged
  <1> QED
    BY <1>2, <1>3

\* A node after it.
LEMMA MergedNodes ==
  ASSUME NEW leader, NEW later, NEW a, NEW b, IsMerge(leader, later, a, b),
         NEW s \in Symbol, NEW t \in Term
  PROVE  LET before == ClassesBy(leader)
             after  == ClassesBy(later)
         IN  NodeBy(after, s, t)
               = Abstract!MergedNode(before[a], before[b], NodeBy(before, s, t))
PROOF
  <1> DEFINE before == ClassesBy(leader)
             after  == ClassesBy(later)
             n      == Arity[t.op]
             x      == NodeBy(before, s, t)
             M(e)   == Abstract!Merged(before[a], before[b], e)
  <1>1. \A i \in 1..n : t.args[i] \in Symbol
    BY TermFields
  <1>2. \A r \in Symbol : after[r] = M(before[r])
    BY MergedClass
  <1>3. /\ x.class = before[s] /\ x.op = t.op
        /\ x.children = [i \in 1..n |-> before[t.args[i]]]
    BY DEF NodeBy
  <1>4. Abstract!MergedNode(before[a], before[b], x) =
          [class |-> M(x.class), op |-> x.op,
           children |-> [i \in DOMAIN x.children |-> M(x.children[i])]]
    BY DEF Abstract!MergedNode
  <1>5. NodeBy(after, s, t) =
          [class |-> after[s], op |-> t.op, children |-> [i \in 1..n |-> after[t.args[i]]]]
    BY DEF NodeBy
  <1> HIDE DEF before, after, n, x, M
  <1>6. [i \in 1..n |-> after[t.args[i]]] = [i \in DOMAIN x.children |-> M(x.children[i])]
    BY <1>1, <1>2, <1>3
  <1>7. NodeBy(after, s, t) = Abstract!MergedNode(before[a], before[b], x)
    BY <1>2, <1>3, <1>4, <1>5, <1>6
  <1> QED
    BY <1>7 DEF before, after, x

\* All of the abstract graph after it.
LEMMA LinkMerges ==
  ASSUME TypeOK, NEW a, NEW b, IsMerge(Leader, Leader', a, b),
         UNCHANGED <<terms, aliases, targets>>
  PROVE  /\ Abstract!Merge(ClassOf[a], ClassOf[b])
         /\ ClassOf[a] \in Abstract!Classes \ Abstract!Classes'
         /\ ClassOf[b] \in Abstract!Classes \ Abstract!Classes'
PROOF
  <1> DEFINE before == ClassesBy(Leader)
             after  == ClassesBy(Leader')
             M(e)   == Abstract!Merged(before[a], before[b], e)
             N(x)   == Abstract!MergedNode(before[a], before[b], x)
  <1>1. /\ \A s \in Symbol : after[s] = M(before[s])
        /\ \A s \in Symbol : before[a] # after[s] /\ before[b] # after[s]
        /\ a \in Symbol /\ b \in Symbol
    BY MergedClass DEF IsMerge
  <1>2. ClassOf' = [s \in Symbol |-> M(before[s])]
    BY <1>1, Mapping DEF ClassesBy
  <1>3. NodesOf' = {N(x) : x \in NodesOf}
    <2>1. \A x : x \in NodesOf <=> \E s \in Symbol : \E t \in terms[s] : x = NodeBy(before, s, t)
      BY Mapping, NodeMembers
    <2>2. \A x : x \in NodesOf' <=> \E s \in Symbol : \E t \in terms[s] : x = NodeBy(after, s, t)
      BY Mapping, NodeMembers
    <2>3. \A s \in Symbol : \A t \in terms[s] : NodeBy(after, s, t) = N(NodeBy(before, s, t))
      BY MergedNodes DEF TypeOK
    <2> HIDE DEF before, after, N
    <2> QED
      BY <2>1, <2>2, <2>3
  <1>4. AliasesOf' = {<<M(p[1]), M(p[2])>> : p \in {q \in AliasesOf : M(q[1]) # M(q[2])}}
    <2>1. \A x : x \in AliasesOf <=>
            \E s \in Symbol : \E n \in aliases[s] :
              before[n] # before[s] /\ x = <<before[s], before[n]>>
      BY Mapping, AliasMembers
    <2>2. \A x : x \in AliasesOf' <=>
            \E s \in Symbol : \E n \in aliases[s] :
              after[n] # after[s] /\ x = <<after[s], after[n]>>
      BY Mapping, AliasMembers
    <2>3. \A s \in Symbol : \A n \in aliases[s] : n \in Symbol
      BY DEF TypeOK
    <2> HIDE DEF before, after, M
    <2>4. ASSUME NEW s \in Symbol, NEW n \in aliases[s]
          PROVE  /\ after[s] = M(before[s]) /\ after[n] = M(before[n])
                 /\ after[n] # after[s] => before[n] # before[s]
      BY <1>1, <2>3
    <2>5. ASSUME NEW x \in AliasesOf'
          PROVE  \E q \in AliasesOf : M(q[1]) # M(q[2]) /\ x = <<M(q[1]), M(q[2])>>
      <3>0. PICK s \in Symbol : \E n \in aliases[s] :
              after[n] # after[s] /\ x = <<after[s], after[n]>>
        BY <2>2
      <3>1. PICK n \in aliases[s] : after[n] # after[s] /\ x = <<after[s], after[n]>>
        BY <3>0
      <3>2. <<before[s], before[n]>> \in AliasesOf
        BY <2>1, <2>4, <3>1
      <3> QED
        BY <2>4, <3>1, <3>2
    <2>6. ASSUME NEW q \in AliasesOf, M(q[1]) # M(q[2])
          PROVE  <<M(q[1]), M(q[2])>> \in AliasesOf'
      <3>0. PICK s \in Symbol : \E n \in aliases[s] :
              before[n] # before[s] /\ q = <<before[s], before[n]>>
        BY <2>1
      <3>1. PICK n \in aliases[s] : before[n] # before[s] /\ q = <<before[s], before[n]>>
        BY <3>0
      <3> QED
        BY <2>2, <2>4, <2>6, <3>1
    <2> QED
      BY <2>5, <2>6
  <1>5. [i \in Slot |-> ClassOf[targets[i]]]' = [i \in Slot |-> M([j \in Slot |-> ClassOf[targets[j]]][i])]
    BY <1>1, Mapping DEF TypeOK
  <1>6. Abstract!Merge(ClassOf[a], ClassOf[b])
    <2>1. before = ClassOf
      BY Mapping
    <2> HIDE DEF before
    <2>2. /\ ClassOf' = [n \in Symbol |-> Abstract!Merged(ClassOf[a], ClassOf[b], ClassOf[n])]
          /\ [i \in Slot |-> ClassOf[targets[i]]]' =
               [i \in Slot |-> Abstract!Merged(ClassOf[a], ClassOf[b],
                                               [j \in Slot |-> ClassOf[targets[j]]][i])]
      BY <1>2, <1>5, <2>1
    <2>3. NodesOf' = {Abstract!MergedNode(ClassOf[a], ClassOf[b], x) : x \in NodesOf}
      BY <1>3, <2>1
    <2>4. AliasesOf' =
            {<<Abstract!Merged(ClassOf[a], ClassOf[b], p[1]),
               Abstract!Merged(ClassOf[a], ClassOf[b], p[2])>> :
               p \in {q \in AliasesOf : Abstract!Merged(ClassOf[a], ClassOf[b], q[1])
                                          # Abstract!Merged(ClassOf[a], ClassOf[b], q[2])}}
      BY <1>4, <2>1
    <2> HIDE DEF M, N
    <2> QED
      BY <2>2, <2>3, <2>4 DEF Abstract!Merge
  <1>7. \A s \in Symbol : ClassOf[s] \in Abstract!Classes
    BY DEF Abstract!Classes
  <1>8. ClassOf[a] \notin Abstract!Classes' /\ ClassOf[b] \notin Abstract!Classes'
    BY <1>1, Mapping DEF Abstract!Classes
  <1> QED
    BY <1>1, <1>6, <1>7, <1>8

-----------------------------------------------------------------------------
(***************************************************************************)
(* Congruence.  Every pair that a rebuild round has still to unite stands  *)
(* for two candidates that are congruent, whatever was united since it was *)
(* found: this is why the rebuild may unite them.                          *)
(***************************************************************************)
CollisionsCongruent ==
  pc = "collide" => \A p \in work : \E r, s \in Symbol :
    /\ Leader[r] = Leader[p[1]] /\ Leader[s] = Leader[p[2]]
    /\ \E t \in terms[r], u \in terms[s] : Canon(Leader, t) = Canon(Leader, u)

\* What one iteration of unionLeaderSymbols does to leaders.
LEMMA UnionMoves ==
  ASSUME Inv, NEW p \in work, UnionLeaderSymbols(p)
  PROVE  /\ p[1] \in Symbol /\ p[2] \in Symbol
         /\ UNCHANGED <<defined, terms, aliases, targets, hashcons>>
         /\ work' = work \ {p} /\ pc \in {"union", "collide"}
         /\ pc = "collide" <=> pc' = "collide"
         /\ \/ Leader[p[1]] = Leader[p[2]] /\ Leader' = Leader
            \/ IsMerge(Leader, Leader', p[1], p[2])
PROOF
  <1> DEFINE l == Leader[p[1]]
             m == Leader[p[2]]
  <1>1. p[1] \in Symbol /\ p[2] \in Symbol
    BY DEF Inv, TypeOK
  <1>2. /\ UNCHANGED <<defined, terms, aliases, targets, hashcons>>
        /\ work' = work \ {p} /\ pc \in {"union", "collide"}
        /\ pc' = IF pc = "union" /\ work' = {} THEN "idle" ELSE pc
        /\ \/ l = m /\ parent' = parent
           \/ l # m /\ parent' = Link(parent, l, m)
    BY DEF UnionLeaderSymbols, ir
  <1>3. pc = "collide" <=> pc' = "collide"
    BY <1>2
  <1>4. CASE l = m
    BY <1>1, <1>2, <1>3, <1>4 DEF Leader
  <1>5. CASE l # m
    <2>1. /\ Leader \in [Symbol -> Symbol]
          /\ l \in Symbol /\ m \in Symbol /\ parent[l] = l /\ parent[m] = m
      BY <1>1, LeaderProps DEF Inv
    <2>2. Leader' = [s \in Symbol |-> IF Leader[s] = m THEN l ELSE Leader[s]]
      BY <1>2, <1>5, <2>1, LinkMovesOneClass DEF Inv, TypeOK, UnionForest, Leader
    <2>3. Leader' \in [Symbol -> Symbol]
      BY <2>1, <2>2
    <2> QED
      BY <1>1, <1>2, <1>3, <1>5, <2>1, <2>2, <2>3 DEF IsMerge
  <1> QED
    BY <1>4, <1>5

\* Every step keeps the pending pairs congruent.
LEMMA CollisionsCongruentNext ==
  ASSUME Inv, CollisionsCongruent, [Next]_vars
  PROVE  CollisionsCongruent'
PROOF
  <1>0. /\ Leader \in [Symbol -> Symbol]
        /\ \A s \in Symbol : Leader[s] \in Symbol /\ Leader[Leader[s]] = Leader[s]
    BY LeaderProps DEF Inv
  <1>1. ASSUME NEW p \in work, UnionLeaderSymbols(p) PROVE CollisionsCongruent'
    <2> SUFFICES ASSUME pc = "collide", NEW q \in work, q # p
                 PROVE  \E r, s \in Symbol :
                          /\ Leader'[r] = Leader'[q[1]] /\ Leader'[s] = Leader'[q[2]]
                          /\ \E t \in terms[r], u \in terms[s] :
                               Canon(Leader', t) = Canon(Leader', u)
      BY <1>1, UnionMoves DEF CollisionsCongruent
    <2>1. PICK r \in Symbol, s \in Symbol :
            /\ Leader[r] = Leader[q[1]] /\ Leader[s] = Leader[q[2]]
            /\ \E t \in terms[r], u \in terms[s] : Canon(Leader, t) = Canon(Leader, u)
      BY DEF CollisionsCongruent
    <2>2. PICK t \in terms[r], u \in terms[s] : Canon(Leader, t) = Canon(Leader, u)
      BY <2>1
    <2>3. /\ Leader' \in [Symbol -> Symbol]
          /\ \A x \in Symbol : Leader'[Leader[x]] = Leader'[x]
          /\ \A x, y \in Symbol : Leader[x] = Leader[y] => Leader'[x] = Leader'[y]
      BY <1>0, <1>1, UnionMoves DEF IsMerge
    <2>4. q[1] \in Symbol /\ q[2] \in Symbol /\ t \in Term /\ u \in Term
      BY DEF Inv, TypeOK
    <2>5. Canon(Leader', t) = Canon(Leader', u)
      <3>1. /\ Canon(Leader', Canon(Leader, t)) = Canon(Leader', t)
            /\ Canon(Leader', Canon(Leader, u)) = Canon(Leader', u)
        BY <1>0, <2>3, <2>4, CanonAgain
      <3> QED
        BY <2>2, <3>1
    <2> QED
      BY <2>1, <2>3, <2>4, <2>5
  <1>2. ASSUME RebuildRound PROVE CollisionsCongruent'
    <2> DEFINE rewritten == [s \in Symbol |-> {Canon(Leader, t) : t \in terms[s]}]
               table == Index(Leader, rewritten)
    <2>1. /\ terms' = rewritten /\ parent' = parent
          /\ work' = Collisions(Leader, table, rewritten)
      BY <1>2 DEF RebuildRound
    <2>2. Leader' = Leader
      BY <2>1 DEF Leader
    <2>3. rewritten \in [Symbol -> SUBSET Term]
      BY RewriteVerifies
    <2> HIDE DEF rewritten
    <2> SUFFICES ASSUME NEW q \in Collisions(Leader, table, rewritten)
                 PROVE  \E r, s \in Symbol :
                          /\ Leader[r] = Leader[q[1]] /\ Leader[s] = Leader[q[2]]
                          /\ \E t \in rewritten[r], u \in rewritten[s] :
                               Canon(Leader, t) = Canon(Leader, u)
      BY <2>1, <2>2 DEF CollisionsCongruent
    <2>4. PICK s \in Symbol : \E t \in rewritten[s] :
            q = UnionPair(Leader, table[Canon(Leader, t)], s)
      BY DEF Collisions
    <2>5. PICK t \in rewritten[s] : q = UnionPair(Leader, table[Canon(Leader, t)], s)
      BY <2>4
    <2> DEFINE e == table[Canon(Leader, t)]
    <2>6. e \in Symbol /\ \E u \in rewritten[e] : Canon(Leader, u) = Canon(Leader, t)
      BY <1>0, <2>3, <2>5, IndexEntries
    <2>7. q = UnionPair(Leader, e, s)
      BY <2>5
    <2> HIDE DEF e
    <2>8. PICK u \in rewritten[e] : Canon(Leader, u) = Canon(Leader, t)
      BY <2>6
    <2>9. \/ Leader[q[1]] = Leader[e] /\ Leader[q[2]] = Leader[s]
          \/ Leader[q[1]] = Leader[s] /\ Leader[q[2]] = Leader[e]
      BY <1>0, <2>6, <2>7 DEF UnionPair
    <2> QED
      BY <2>6, <2>8, <2>9
  <1>3. CASE UNCHANGED vars
    BY <1>3 DEF vars, CollisionsCongruent, Leader
  <1>4. ASSUME ~\E p \in work : UnionLeaderSymbols(p), ~RebuildRound, Next
        PROVE  pc' # "collide"
    BY <1>4 DEF Next, ClientUnion, UnionValueTuples, Intern, RebuildFinish
  <1> QED
    BY <1>1, <1>2, <1>3, <1>4 DEF CollisionsCongruent

-----------------------------------------------------------------------------
\* The abstract graph at first: every name is its own class.
LEMMA AbstractInit == Init => Abstract!Init
PROOF
  <1> SUFFICES ASSUME Init PROVE Abstract!Init
    OBVIOUS
  <1>1. Inv
    BY InitInv
  <1>2. \A s \in Symbol : Leader[s] = s
    BY NoUnionsLeader DEF Init, Leader, NoUnions
  <1>3. ClassOf = [s \in Symbol |-> {s}]
    <2>1. \A s \in Symbol : {x \in Symbol : Leader[x] = Leader[s]} = {s}
      BY <1>2
    <2> QED
      BY <2>1 DEF ClassOf
  <1>4. \A s \in Symbol : ClassOf[s] \in Abstract!Classes
    BY DEF Abstract!Classes
  <1>5. \A x \in NodesOf : x.class \in Abstract!Classes
    <2> SUFFICES ASSUME NEW x \in NodesOf PROVE x.class \in Abstract!Classes
      OBVIOUS
    <2>1. PICK s \in Symbol : \E t \in terms[s] : x = NodeBy(ClassOf, s, t)
      BY Mapping, NodeMembers
    <2>2. x.class = ClassOf[s]
      BY <2>1 DEF NodeBy
    <2> QED
      BY <1>4, <2>2
  <1>6. \A i \in Slot : [j \in Slot |-> ClassOf[targets[j]]][i] \in Abstract!Classes
    BY <1>1, <1>4 DEF Inv, TypeOK
  <1>7. pc = "idle"
    BY DEF Init
  <1> QED
    BY <1>3, <1>5, <1>6, <1>7 DEF Abstract!Init

\* A union of a client asserts, a union of a rebuild round propagates.
LEMMA UnionImplements ==
  ASSUME Inv, CollisionsCongruent, NEW p \in work, UnionLeaderSymbols(p)
  PROVE  [Abstract!Next]_(Abstract!vars)
PROOF
  <1>1. CASE Leader' = Leader
    BY <1>1, UnionMoves, Mapping DEF Abstract!vars
  <1>2. CASE IsMerge(Leader, Leader', p[1], p[2])
    <2>1. /\ Abstract!Merge(ClassOf[p[1]], ClassOf[p[2]])
          /\ ClassOf[p[1]] \in Abstract!Classes \ Abstract!Classes'
          /\ ClassOf[p[2]] \in Abstract!Classes \ Abstract!Classes'
      BY <1>2, UnionMoves, LinkMerges DEF Inv, Abstract!Merge
    <2>2. pc' = "collide" <=> pc = "collide"
      BY UnionMoves
    <2>3. CASE pc # "collide"
      <3>1. \E c, d \in Abstract!Classes \ Abstract!Classes' : Abstract!Merge(c, d)
        BY <2>1 DEF Abstract!Merge
      <3>2. Abstract!Assert
        BY <2>2, <2>3, <3>1 DEF Abstract!Assert
      <3> QED
        BY <3>2 DEF Abstract!Next
    <2>4. CASE pc = "collide"
      <3>1. PICK r \in Symbol, s \in Symbol :
              /\ Leader[r] = Leader[p[1]] /\ Leader[s] = Leader[p[2]]
              /\ \E t \in terms[r], u \in terms[s] : Canon(Leader, t) = Canon(Leader, u)
        BY <2>4 DEF CollisionsCongruent
      <3>2. PICK t \in terms[r], u \in terms[s] : Canon(Leader, t) = Canon(Leader, u)
        BY <3>1
      <3> DEFINE x == NodeBy(ClassOf, r, t)
                 y == NodeBy(ClassOf, s, u)
      <3>3. x \in NodesOf /\ y \in NodesOf
        BY Mapping, NodeMembers
      <3>4. x.class = ClassOf[p[1]] /\ y.class = ClassOf[p[2]]
        BY <1>2, <3>1, Mapping, ClassesEqual, UnionMoves DEF NodeBy, IsMerge
      <3>5. Abstract!Congruent(x, y)
        <4>1. t \in Term /\ u \in Term /\ t.op = u.op
          BY <3>2 DEF Inv, TypeOK, Canon
        <4>2. \A i \in 1..Arity[t.op] : Leader[t.args[i]] = Leader[u.args[i]]
          BY <3>2, <4>1 DEF Canon
        <4>3. \A i \in 1..Arity[t.op] : ClassOf[t.args[i]] = ClassOf[u.args[i]]
          <5>1. \A i \in 1..Arity[t.op] : t.args[i] \in Symbol /\ u.args[i] \in Symbol
            BY <4>1, TermFields
          <5> QED
            BY <1>2, <4>2, <5>1, Mapping, ClassesEqual DEF IsMerge
        <4> QED
          BY <4>1, <4>3 DEF NodeBy, Abstract!Congruent
      <3>6. x.class # y.class
        BY <1>2, <3>4, Mapping, ClassesEqual DEF IsMerge
      <3> HIDE DEF x, y
      <3>7. Abstract!Propagate
        BY <2>1, <2>2, <2>4, <3>3, <3>4, <3>5, <3>6 DEF Abstract!Propagate, Abstract!Merge
      <3> QED
        BY <3>7 DEF Abstract!Next
    <2> QED
      BY <2>3, <2>4
  <1> QED
    BY <1>1, <1>2, UnionMoves

\* Interning adds one node, in a class of its own that nothing refers to yet.
LEMMA InternImplements ==
  ASSUME Inv, NEW t \in Term, NEW n \in Symbol, Intern(t, n)
  PROVE  Abstract!Add
PROOF
  <1> DEFINE key   == Canon(Leader, t)
             class == ClassesBy(Leader)
             x     == NodeBy(class, n, key)
  <1>1. /\ UNCHANGED <<aliases, targets, parent, pc>> /\ pc = "idle"
        /\ Uses(t) \subseteq defined
        /\ n \notin defined /\ parent[n] = n
        /\ terms' = [terms EXCEPT ![n] = {key}]
    BY DEF Intern, IsFresh
  <1>2. Leader' = Leader
    BY <1>1 DEF Leader
  <1>3. /\ Leader \in [Symbol -> Symbol] /\ Leader[n] = n
        /\ key \in Term
    BY <1>1, LeaderProps, CanonTerm DEF Inv
  <1>4. \A s \in Symbol : Leader[s] = n <=> s = n
    BY <1>1, <1>3, LeaderProps DEF Inv, LeadersSound
  <1>5. class[n] = {n}
    BY <1>3, <1>4 DEF ClassesBy
  <1>6. \A s \in Symbol : class[s] = {n} <=> s = n
    <2> TAKE s \in Symbol
    <2>1. class[s] = class[n] <=> Leader[s] = Leader[n]
      BY <1>1, <1>3, ClassesEqual
    <2> HIDE DEF class
    <2> QED BY <1>3, <1>4, <1>5, <2>1
  <1> HIDE DEF key, class
  <1>7. /\ terms[n] = {} /\ terms'[n] = {key}
        /\ \A s \in Symbol : s # n => terms'[s] = terms[s]
    BY <1>1, <1>3 DEF Inv, TypeOK, IRVerifies
  <1>8. /\ \A y : y \in NodesOf <=> \E s \in Symbol : \E u \in terms[s] : y = NodeBy(class, s, u)
        /\ \A y : y \in NodesOf' <=> \E s \in Symbol : \E u \in terms'[s] : y = NodeBy(class, s, u)
    BY <1>2, Mapping, NodeMembers DEF class
  <1>9. NodesOf' = NodesOf \cup {x}
    BY <1>7, <1>8
  <1>10. ASSUME NEW y \in NodesOf
         PROVE  /\ y.class # {n}
                /\ \A i \in DOMAIN y.children : y.children[i] # {n}
    <2>1. PICK s \in Symbol : \E u \in terms[s] : y = NodeBy(class, s, u)
      BY <1>8
    <2>2. PICK u \in terms[s] : y = NodeBy(class, s, u)
      BY <2>1
    <2>3. s \in defined /\ u \in Term /\ Uses(u) \subseteq defined
      BY <2>2 DEF Inv, TypeOK, IRVerifies
    <2>4. \A i \in 1..Arity[u.op] : u.args[i] \in Symbol /\ u.args[i] # n
      BY <1>1, <2>3, TermFields
    <2>5. /\ y.class = class[s]
          /\ y.children = [i \in 1..Arity[u.op] |-> class[u.args[i]]]
      BY <2>2 DEF NodeBy
    <2>6. y.class # {n}
      BY <1>1, <1>6, <2>3, <2>5
    <2>7. \A i \in 1..Arity[u.op] : class[u.args[i]] # {n}
      BY <1>6, <2>4
    <2>8. \A i \in DOMAIN y.children : y.children[i] # {n}
      BY <2>5, <2>7
    <2> QED
      BY <2>6, <2>8
  <1>11. x.class = {n}
    BY <1>5 DEF NodeBy
  <1>12. x \in NodesOf' \ NodesOf
    BY <1>9, <1>10, <1>11
  <1>13. UNCHANGED <<ClassOf, AliasesOf, [i \in Slot |-> ClassOf[targets[i]]]>>
    BY <1>1, <1>2, Mapping
  <1>14. ClassOf[n] = {n}
    BY <1>5, Mapping DEF class
  <1> HIDE DEF x
  <1> QED
    BY <1>1, <1>9, <1>10, <1>11, <1>12, <1>13, <1>14 DEF Abstract!Add

\* A round rewrites to leaders, which no class, node or result notices.
LEMMA RoundImplements ==
  ASSUME Inv, RebuildRound
  PROVE  [Abstract!Next]_(Abstract!vars)
PROOF
  <1> DEFINE rewritten == [s \in Symbol |-> {Canon(Leader, t) : t \in terms[s]}]
             class == ClassesBy(Leader)
  <1>1. /\ UNCHANGED <<aliases, parent>> /\ terms' = rewritten
        /\ targets' = [i \in Slot |-> Leader[targets[i]]]
        /\ pc \in {"idle", "collide"} /\ pc' = "collide"
    BY DEF RebuildRound
  <1>2. Leader' = Leader
    BY <1>1 DEF Leader
  <1>3. /\ Leader \in [Symbol -> Symbol]
        /\ \A s \in Symbol : Leader[s] \in Symbol /\ Leader[Leader[s]] = Leader[s]
    BY LeaderProps DEF Inv
  <1>4. ASSUME NEW s \in Symbol PROVE class[Leader[s]] = class[s]
    BY <1>3, ClassesEqual
  <1> HIDE DEF class
  <1>5. ASSUME NEW s \in Symbol, NEW t \in terms[s]
        PROVE  NodeBy(class, s, Canon(Leader, t)) = NodeBy(class, s, t)
    <2>1. t \in Term
      BY DEF Inv, TypeOK
    <2>2. /\ Canon(Leader, t).op = t.op
          /\ \A i \in 1..Arity[t.op] : /\ t.args[i] \in Symbol
                                       /\ Canon(Leader, t).args[i] = Leader[t.args[i]]
      BY <2>1, TermFields DEF Canon
    <2>3. \A i \in 1..Arity[t.op] : class[Canon(Leader, t).args[i]] = class[t.args[i]]
      BY <1>4, <2>2
    <2> QED
      BY <2>2, <2>3, NodesEqual
  <1>6. NodesBy(class, rewritten) = NodesBy(class, terms)
    <2>1. \A y : y \in NodesBy(class, rewritten) <=>
                 \E s \in Symbol : \E u \in rewritten[s] : y = NodeBy(class, s, u)
      BY NodeMembers
    <2>2. \A y : y \in NodesBy(class, terms) <=>
                 \E s \in Symbol : \E u \in terms[s] : y = NodeBy(class, s, u)
      BY NodeMembers
    <2>3. \A s \in Symbol : rewritten[s] = {Canon(Leader, t) : t \in terms[s]}
      OBVIOUS
    <2> HIDE DEF rewritten
    <2> QED
      BY <1>5, <2>1, <2>2, <2>3
  <1> HIDE DEF rewritten
  <1>7. UNCHANGED <<ClassOf, NodesOf, AliasesOf>>
    BY <1>1, <1>2, <1>6, Mapping DEF class
  <1>8. UNCHANGED [i \in Slot |-> ClassOf[targets[i]]]
    BY <1>1, <1>4, <1>7, Mapping DEF class, Inv, TypeOK
  <1>9. CASE pc = "idle"
    <2>1. Abstract!BeginRebuild
      BY <1>1, <1>7, <1>8, <1>9 DEF Abstract!BeginRebuild
    <2> QED
      BY <2>1 DEF Abstract!Next
  <1>10. CASE pc = "collide"
    BY <1>1, <1>7, <1>8, <1>10 DEF Abstract!vars
  <1> QED
    BY <1>1, <1>9, <1>10

(***************************************************************************)
(* What an e-class absorbs comes from its own class, and what it gives up  *)
(* goes to the leader of its class.                                        *)
(***************************************************************************)
LEMMA AbsorbKeepsNodes ==
  ASSUME Inv
  PROVE  LET class == ClassesBy(Leader)
         IN  /\ NodesBy(class, AbsorbedTerms(Leader)) = NodesBy(class, terms)
             /\ AliasesBy(class, AbsorbedAliases(Leader)) = AliasesBy(class, aliases)
PROOF
  <1> DEFINE class == ClassesBy(Leader)
             T == AbsorbedTerms(Leader)
             A == AbsorbedAliases(Leader)
  <1>1. /\ Leader \in [Symbol -> Symbol]
        /\ \A s \in Symbol : Leader[s] \in Symbol /\ Leader[Leader[s]] = Leader[s]
        /\ defined \subseteq Symbol
        /\ \A s \in Symbol : HasCandidates(terms, aliases, s) => s \in EClass \cap defined
    BY LeaderProps DEF Inv, TypeOK, IRVerifies
  <1>2. \A r, s \in Symbol : Leader[r] = s => class[r] = class[s]
    BY <1>1, ClassesEqual
  <1>3. ASSUME NEW s \in Symbol
        PROVE  /\ \A t \in T[s] : \E m \in Symbol : class[m] = class[s] /\ t \in terms[m]
               /\ \A n \in A[s] : \/ \E m \in Symbol : class[m] = class[s] /\ n \in aliases[m]
                                  \/ class[n] = class[s]
    <2> HIDE DEF class
    <2>1. CASE IsAbsorbed(Leader, s)
      BY <2>1 DEF AbsorbedTerms, AbsorbedAliases
    <2>2. CASE ~IsAbsorbed(Leader, s) /\ s \notin EClass
      BY <2>2 DEF AbsorbedTerms, AbsorbedAliases
    <2>3. CASE ~IsAbsorbed(Leader, s) /\ s \in EClass
      <3>1. /\ T[s] = UNION {terms[m] : m \in Members(Leader, s) \cup {s}}
            /\ A[s] = (UNION {aliases[m] : m \in Members(Leader, s) \cup {s}})
                        \cup (Members(Leader, s) \cap Input)
        BY <2>3 DEF AbsorbedTerms, AbsorbedAliases
      <3>2. \A m \in Members(Leader, s) \cup {s} : m \in Symbol /\ class[m] = class[s]
        BY <1>1, <1>2 DEF Members
      <3> HIDE DEF T, A
      <3> DEFINE M == Members(Leader, s)
      <3> HIDE DEF M
      <3>3. /\ \A t \in T[s] : \E m \in M \cup {s} : t \in terms[m]
            /\ \A n \in A[s] : n \in M \/ \E m \in M \cup {s} : n \in aliases[m]
        BY <3>1 DEF M
      <3> QED
        BY <3>2, <3>3 DEF M
    <2> QED
      BY <2>1, <2>2, <2>3
  <1>4. ASSUME NEW s \in Symbol, HasCandidates(terms, aliases, s)
        PROVE  \E r \in Symbol : /\ class[r] = class[s]
                                 /\ terms[s] \subseteq T[r] /\ aliases[s] \subseteq A[r]
    <2>1. s \in EClass \cap defined
      BY <1>1, <1>4
    <2> DEFINE r == IF IsAbsorbed(Leader, s) THEN Leader[s] ELSE s
    <2>2. /\ r \in EClass /\ r \in Symbol /\ ~IsAbsorbed(Leader, r)
          /\ s \in Members(Leader, r) \cup {r} /\ class[r] = class[s]
      <3> HIDE DEF class
      <3> QED
        BY <1>1, <1>2, <2>1 DEF IsAbsorbed, Members
    <2> HIDE DEF r, class
    <2>3. /\ T[r] = UNION {terms[m] : m \in Members(Leader, r) \cup {r}}
          /\ A[r] = (UNION {aliases[m] : m \in Members(Leader, r) \cup {r}})
                      \cup (Members(Leader, r) \cap Input)
      BY <2>2 DEF AbsorbedTerms, AbsorbedAliases
    <2> HIDE DEF T, A
    <2> DEFINE M == Members(Leader, r) \cup {r}
    <2>4. terms[s] \subseteq UNION {terms[m] : m \in M} /\ aliases[s] \subseteq UNION {aliases[m] : m \in M}
      BY <2>2
    <2> QED
      BY <2>2, <2>3, <2>4
  <1> HIDE DEF T, A, class
  <1>5. NodesBy(class, T) = NodesBy(class, terms)
    <2>1. /\ \A y : y \in NodesBy(class, T) <=>
                 \E s \in Symbol : \E u \in T[s] : y = NodeBy(class, s, u)
          /\ \A y : y \in NodesBy(class, terms) <=>
                 \E s \in Symbol : \E u \in terms[s] : y = NodeBy(class, s, u)
      BY NodeMembers
    <2>2. \A r, s \in Symbol : class[r] = class[s] => \A u : NodeBy(class, r, u) = NodeBy(class, s, u)
      BY DEF NodeBy
    <2> QED
      BY <1>3, <1>4, <2>1, <2>2
  <1>6. AliasesBy(class, A) = AliasesBy(class, aliases)
    <2>1. /\ \A y : y \in AliasesBy(class, A) <=>
                 \E s \in Symbol : \E n \in A[s] : class[n] # class[s] /\ y = <<class[s], class[n]>>
          /\ \A y : y \in AliasesBy(class, aliases) <=>
                 \E s \in Symbol : \E n \in aliases[s] : class[n] # class[s] /\ y = <<class[s], class[n]>>
      BY AliasMembers
    <2>2. ASSUME NEW s \in Symbol, NEW n \in A[s], class[n] # class[s]
          PROVE  <<class[s], class[n]>> \in AliasesBy(class, aliases)
      <3>1. PICK m \in Symbol : class[m] = class[s] /\ n \in aliases[m]
        BY <1>3, <2>2
      <3> QED
        BY <2>1, <2>2, <3>1
    <2>3. ASSUME NEW s \in Symbol, NEW n \in aliases[s], class[n] # class[s]
          PROVE  <<class[s], class[n]>> \in AliasesBy(class, A)
      <3>1. PICK r \in Symbol : class[r] = class[s] /\ aliases[s] \subseteq A[r]
        BY <1>4
      <3> QED
        BY <2>1, <2>3, <3>1
    <2> QED
      BY <2>1, <2>2, <2>3
  <1> QED
    BY <1>5, <1>6 DEF class, T, A

\* The tail of a rebuild finds congruence closed and changes nothing.
LEMMA FinishImplements ==
  ASSUME Inv, RoundInv, RebuildFinish
  PROVE  Abstract!EndRebuild
PROOF
  <1> DEFINE class == ClassesBy(Leader)
  <1>1. /\ terms' = AbsorbedTerms(Leader) /\ aliases' = AbsorbedAliases(Leader)
        /\ targets' = [i \in Slot |-> Leader[targets[i]]]
        /\ pc = "collide" /\ work = {} /\ ~changed /\ pc' = "idle" /\ parent' = parent
    BY DEF RebuildFinish
  <1>2. Leader' = Leader
    BY <1>1 DEF Leader
  <1>3. /\ Leader \in [Symbol -> Symbol]
        /\ \A s \in Symbol : Leader[s] \in Symbol /\ Leader[Leader[s]] = Leader[s]
    BY LeaderProps DEF Inv
  <1>4. UNCHANGED <<ClassOf, NodesOf, AliasesOf>>
    BY <1>1, <1>2, Mapping, AbsorbKeepsNodes
  <1>5. UNCHANGED [i \in Slot |-> ClassOf[targets[i]]]
    <2>1. ASSUME NEW s \in Symbol PROVE class[Leader[s]] = class[s]
      BY <1>3, ClassesEqual
    <2> HIDE DEF class
    <2> QED
      BY <1>1, <1>4, <2>1, Mapping DEF class, Inv, TypeOK
  <1>6. ASSUME NEW x \in NodesOf, NEW y \in NodesOf, Abstract!Congruent(x, y)
        PROVE  x.class = y.class
    <2>1. PICK r \in Symbol : \E t \in terms[r] : x = NodeBy(class, r, t)
      BY Mapping, NodeMembers
    <2>2. PICK t \in terms[r] : x = NodeBy(class, r, t)
      BY <2>1
    <2>3. PICK s \in Symbol : \E u \in terms[s] : y = NodeBy(class, s, u)
      BY Mapping, NodeMembers
    <2>4. PICK u \in terms[s] : y = NodeBy(class, s, u)
      BY <2>3
    <2>5. t \in Term /\ u \in Term
      BY DEF Inv, TypeOK
    <2> HIDE DEF class
    <2>6. /\ t.op = u.op
          /\ [i \in 1..Arity[t.op] |-> class[t.args[i]]] = [i \in 1..Arity[t.op] |-> class[u.args[i]]]
      BY <1>6, <2>2, <2>4 DEF NodeBy, Abstract!Congruent
    <2>7. \A i \in 1..Arity[t.op] : Leader[t.args[i]] = Leader[u.args[i]]
      <3> SUFFICES ASSUME NEW i \in 1..Arity[t.op] PROVE Leader[t.args[i]] = Leader[u.args[i]]
        OBVIOUS
      <3>1. t.args[i] \in Symbol /\ u.args[i] \in Symbol
        BY <2>5, <2>6, TermFields
      <3>2. class[t.args[i]] = class[u.args[i]]
        BY <2>6
      <3> QED
        BY <1>3, <3>1, <3>2, ClassesEqual DEF class
    <2>8. Canon(Leader, t) = Canon(Leader, u)
      BY <2>6, <2>7 DEF Canon
    <2>9. t = u /\ Leader[hashcons[t]] = Leader[r] /\ Leader[hashcons[u]] = Leader[s]
      BY <1>1, <2>8 DEF RoundInv
    <2>10. class[r] = class[s]
      BY <1>3, <2>9, ClassesEqual DEF class
    <2> QED
      BY <2>2, <2>4, <2>10 DEF NodeBy
  <1> QED
    BY <1>1, <1>4, <1>5, <1>6 DEF Abstract!EndRebuild

\* Every step is a step of the abstract specification, or none.
LEMMA StepImplements ==
  ASSUME Inv, RoundInv, CollisionsCongruent, [Next]_vars
  PROVE  [Abstract!Next]_(Abstract!vars)
PROOF
  <1>1. CASE ClientUnion
    <2>1. UNCHANGED <<terms, aliases, targets, parent>> /\ pc = "idle" /\ pc' = "union"
      BY <1>1 DEF ClientUnion, UnionValueTuples, ir
    <2>2. Leader' = Leader
      BY <2>1 DEF Leader
    <2> QED
      BY <2>1, <2>2, Mapping DEF Abstract!vars
  <1>2. CASE \E p \in work : UnionLeaderSymbols(p)
    BY <1>2, UnionImplements
  <1>3. CASE \E t \in Term, s \in Symbol : Intern(t, s)
    BY <1>3, InternImplements DEF Abstract!Next
  <1>4. CASE RebuildRound
    BY <1>4, RoundImplements
  <1>5. CASE RebuildFinish
    BY <1>5, FinishImplements DEF Abstract!Next
  <1>6. CASE UNCHANGED vars
    <2>1. UNCHANGED <<terms, aliases, targets, parent, pc>>
      BY <1>6 DEF vars
    <2>2. Leader' = Leader
      BY <2>1 DEF Leader
    <2> QED
      BY <2>1, <2>2, Mapping DEF Abstract!vars
  <1> QED
    BY <1>1, <1>2, <1>3, <1>4, <1>5, <1>6 DEF Next

(***************************************************************************)
(* The facade implements the abstract e-graph: unions of clients and       *)
(* congruence are the only reasons two names become equal, no step of a    *)
(* rebuild loses or invents a node or a result, and a rebuild that returns *)
(* has closed the partition under congruence.                              *)
(***************************************************************************)
THEOREM FacadeImplementsCongruence == Spec => ImplementsCongruenceGraph
PROOF
  <1>1. Init => Inv /\ RoundInv /\ CollisionsCongruent /\ Abstract!Init
    BY InitInv, RoundInvInit, AbstractInit DEF Init, CollisionsCongruent
  <1>2. Inv /\ RoundInv /\ CollisionsCongruent /\ [Next]_vars =>
          /\ Inv' /\ RoundInv' /\ CollisionsCongruent'
          /\ [Abstract!Next]_(Abstract!vars)
    BY NextInv, RoundInvNext, CollisionsCongruentNext, StepImplements
  <1> QED
    BY <1>1, <1>2, PTL DEF Spec, ImplementsCongruenceGraph, Abstract!Spec

-----------------------------------------------------------------------------
(***************************************************************************)
(* Terms.  Between a union and the end of a rebuild, the candidates of a   *)
(* class are spread over its members and refer to names that lead no more. *)
(* What is kept is a term of the class: a set that has the leaders of the  *)
(* inputs and is closed under the candidates, taken with leaders on both   *)
(* sides, has the leader of every target.                                  *)
(***************************************************************************)
IsClosedByClass(C) ==
  /\ \A s \in Input \cap defined : Leader[s] \in C
  /\ \A s \in EClass : \A t \in terms[s] : (\A u \in Uses(t) : Leader[u] \in C) => Leader[s] \in C
  /\ \A s \in EClass : \A m \in aliases[s] : Leader[m] \in C => Leader[s] \in C

TargetsHaveTerms ==
  \A C \in SUBSET Symbol : IsClosedByClass(C) => \A i \in Slot : Leader[targets[i]] \in C

\* While no class is touched, an absorbed name has no candidates of its own.
Gathered ==
  touched = {} =>
    \A s \in defined : IsAbsorbed(Leader, s) =>
      /\ terms[s] = {} /\ aliases[s] = {}
      /\ s \in Input => s \in aliases[Leader[s]]

ExtractableInv == TargetsHaveTerms /\ Gathered

\* A candidate of a class stays one, for the names or for their leaders.
TermsStay ==
  \A s \in EClass : \A t \in terms[s] :
    \E r \in EClass : /\ Leader'[r] = Leader'[s]
                      /\ t \in terms'[r] \/ Canon(Leader, t) \in terms'[r]

AliasesStay ==
  \A s \in EClass : \A m \in aliases[s] :
    \E r \in EClass : Leader'[r] = Leader'[s] /\ m \in aliases'[r]

ClassesStay ==
  /\ \A s \in Symbol : Leader'[s] \in Symbol /\ Leader'[Leader[s]] = Leader'[s]
  /\ \A i \in Slot : Leader'[targets'[i]] = Leader'[targets[i]]
  /\ Input \cap defined \subseteq defined'

\* What a name led to before leads to what it leads to now.
LEMMA LeadersStay ==
  ASSUME Inv, [Next]_vars
  PROVE  \A s \in Symbol : Leader'[s] \in Symbol /\ Leader'[Leader[s]] = Leader'[s]
PROOF
  <1>1. \A s \in Symbol : Leader[s] \in Symbol /\ Leader[Leader[s]] = Leader[s]
    BY LeaderProps DEF Inv
  <1>2. CASE parent' = parent
    BY <1>1, <1>2 DEF Leader
  <1>3. CASE parent' # parent
    <2>1. PICK p \in work : UnionLeaderSymbols(p)
      BY <1>3 DEF Next, ClientUnion, UnionValueTuples, Intern, RebuildRound, RebuildFinish, vars
    <2> DEFINE l == Leader[p[1]]
               m == Leader[p[2]]
    <2>2. l # m /\ parent' = Link(parent, l, m)
      BY <1>3, <2>1 DEF UnionLeaderSymbols
    <2>3. p[1] \in Symbol /\ p[2] \in Symbol
      BY DEF Inv, TypeOK
    <2>4. l \in Symbol /\ m \in Symbol /\ parent[l] = l /\ parent[m] = m
      BY <2>3, LeaderProps DEF Inv
    <2>5. Leader' = [s \in Symbol |-> IF Leader[s] = m THEN l ELSE Leader[s]]
      BY <2>2, <2>4, LinkMovesOneClass DEF Inv, TypeOK, UnionForest, Leader
    <2> QED
      BY <1>1, <2>4, <2>5
  <1> QED
    BY <1>2, <1>3

\* The end of a rebuild moves candidates to the leaders of their classes.
LEMMA FinishKeepsTerms ==
  ASSUME Inv, RebuildFinish
  PROVE  TermsStay /\ AliasesStay /\ ClassesStay
PROOF
  <1>1. /\ terms' = AbsorbedTerms(Leader) /\ aliases' = AbsorbedAliases(Leader)
        /\ targets' = [i \in Slot |-> Leader[targets[i]]] /\ parent' = parent
        /\ defined' = defined \ {s \in Symbol : IsDead(s, terms', aliases', targets')}
    BY DEF RebuildFinish
  <1>2. Leader' = Leader
    BY <1>1 DEF Leader
  <1>3. \A s \in Symbol : Leader[s] \in Symbol /\ Leader[Leader[s]] = Leader[s]
    BY LeaderProps DEF Inv
  <1>4. ASSUME NEW s \in EClass, HasCandidates(terms, aliases, s)
        PROVE  \E r \in EClass : /\ Leader[r] = Leader[s]
                                 /\ terms[s] \subseteq terms'[r]
                                 /\ aliases[s] \subseteq aliases'[r]
    <2>1. s \in Symbol /\ s \in defined
      BY <1>4 DEF Inv, IRVerifies, EClass
    <2>2. CASE IsAbsorbed(Leader, s)
      <3> DEFINE r == Leader[s]
      <3>1. r \in EClass /\ r \in Symbol /\ ~IsAbsorbed(Leader, r) /\ s \in Members(Leader, r)
        BY <1>3, <2>1, <2>2 DEF IsAbsorbed, Members, EClass
      <3>2. terms[s] \subseteq terms'[r] /\ aliases[s] \subseteq aliases'[r]
        <4> HIDE DEF r
        <4> QED BY <1>1, <3>1 DEF AbsorbedTerms, AbsorbedAliases
      <3> QED BY <1>3, <2>1, <3>1, <3>2
    <2>3. CASE ~IsAbsorbed(Leader, s)
      <3>1. terms[s] \subseteq terms'[s] /\ aliases[s] \subseteq aliases'[s]
        BY <1>1, <2>1, <2>3, <1>4 DEF AbsorbedTerms, AbsorbedAliases
      <3> QED BY <3>1, <1>4
    <2> QED BY <2>2, <2>3
  <1>5. TermsStay
    BY <1>2, <1>4 DEF TermsStay
  <1>6. AliasesStay
    BY <1>2, <1>4 DEF AliasesStay
  <1>7. \A i \in Slot : Leader[targets'[i]] = Leader[targets[i]]
    BY <1>1, <1>3 DEF Inv, TypeOK
  <1>8. Input \cap defined \subseteq defined'
    BY <1>1 DEF IsDead, EClass
  <1> QED
    BY <1>2, <1>3, <1>5, <1>6, <1>7, <1>8 DEF ClassesStay

\* No call loses a candidate of a class.
LEMMA StepKeepsTerms ==
  ASSUME Inv, [Next]_vars
  PROVE  TermsStay /\ AliasesStay /\ ClassesStay
PROOF
  <1>1. \A s \in Symbol : Leader'[s] \in Symbol /\ Leader'[Leader[s]] = Leader'[s]
    BY LeadersStay
  <1>2. EClass \subseteq Symbol
    BY DEF EClass
  <1>3. ASSUME UNCHANGED ir
        PROVE  TermsStay /\ AliasesStay /\ ClassesStay
    <2>1. UNCHANGED <<defined, terms, aliases, targets>>
      BY <1>3 DEF ir
    <2> QED BY <1>1, <1>2, <2>1 DEF TermsStay, AliasesStay, ClassesStay
  <1>4. CASE ClientUnion
    BY <1>3, <1>4 DEF ClientUnion, UnionValueTuples
  <1>5. ASSUME NEW p \in work, UnionLeaderSymbols(p)
        PROVE  TermsStay /\ AliasesStay /\ ClassesStay
    BY <1>3, <1>5 DEF UnionLeaderSymbols
  <1>6. ASSUME NEW t \in Term, NEW n \in Symbol, Intern(t, n)
        PROVE  TermsStay /\ AliasesStay /\ ClassesStay
    <2>1. /\ UNCHANGED <<aliases, targets>> /\ defined \subseteq defined'
          /\ n \notin defined
          /\ terms' = [terms EXCEPT ![n] = {Canon(Leader, t)}]
      BY <1>6 DEF Intern, IsFresh
    <2>2. \A s \in Symbol : terms[s] # {} => terms'[s] = terms[s]
      BY <2>1 DEF Inv, TypeOK, IRVerifies
    <2> QED BY <1>1, <1>2, <2>1, <2>2 DEF TermsStay, AliasesStay, ClassesStay
  <1>7. CASE RebuildRound
    <2>1. /\ UNCHANGED <<aliases, defined, parent>>
          /\ terms' = [s \in Symbol |-> {Canon(Leader, t) : t \in terms[s]}]
          /\ targets' = [i \in Slot |-> Leader[targets[i]]]
      BY <1>7 DEF RebuildRound
    <2>2. \A i \in Slot : Leader'[targets'[i]] = Leader'[targets[i]]
      BY <1>1, <2>1 DEF Inv, TypeOK
    <2> QED BY <1>1, <1>2, <2>1, <2>2 DEF TermsStay, AliasesStay, ClassesStay
  <1>8. CASE RebuildFinish
    BY <1>8, FinishKeepsTerms
  <1>9. CASE UNCHANGED vars
    BY <1>3, <1>9 DEF vars, ir
  <1> QED
    BY <1>4, <1>5, <1>6, <1>7, <1>8, <1>9 DEF Next

\* So the targets keep their terms.
LEMMA TargetsHaveTermsNext ==
  ASSUME Inv, TargetsHaveTerms, [Next]_vars
  PROVE  TargetsHaveTerms'
PROOF
  <1>1. TermsStay /\ AliasesStay /\ ClassesStay
    BY StepKeepsTerms
  <1>2. Inv'
    BY NextInv
  <1>3. SUFFICES ASSUME NEW D \in SUBSET Symbol, IsClosedByClass(D)', NEW i \in Slot
                 PROVE  Leader'[targets'[i]] \in D
    BY DEF TargetsHaveTerms
  <1> DEFINE C == {s \in Symbol : Leader'[s] \in D}
  <1>4. /\ \A s \in Symbol : Leader[s] \in Symbol
        /\ \A s \in Symbol : Leader[s] \in C <=> Leader'[s] \in D
    BY <1>1, LeaderProps DEF ClassesStay, Inv
  <1>5. ASSUME NEW s \in EClass, NEW t \in terms[s], \A u \in Uses(t) : Leader[u] \in C
        PROVE  Leader[s] \in C
    <2>1. s \in Symbol /\ t \in Term
      BY DEF EClass, Inv, TypeOK
    <2>2. PICK r \in EClass : /\ Leader'[r] = Leader'[s]
                              /\ t \in terms'[r] \/ Canon(Leader, t) \in terms'[r]
      BY <1>1 DEF TermsStay
    <2>3. \A i_1 \in 1..Arity[t.op] : t.args[i_1] \in Symbol /\ t.args[i_1] \in Uses(t)
      BY <2>1, TermFields
    <2>4. \A u \in Uses(t) : Leader'[u] \in D
      BY <1>4, <1>5, <2>1, <2>3, TermFields DEF Uses
    <2>5. \A u \in Uses(Canon(Leader, t)) : Leader'[u] \in D
      <3> SUFFICES ASSUME NEW u \in Uses(Canon(Leader, t)) PROVE Leader'[u] \in D
        OBVIOUS
      <3>1. PICK j \in 1..Arity[t.op] : u = Leader[t.args[j]]
        BY DEF Uses, Canon
      <3> QED BY <1>1, <2>3, <2>4, <3>1 DEF ClassesStay
    <2>6. Leader'[r] \in D
      BY <1>3, <2>2, <2>4, <2>5 DEF IsClosedByClass
    <2> QED BY <1>4, <2>1, <2>2, <2>6
  <1>6. ASSUME NEW s \in EClass, NEW m \in aliases[s], Leader[m] \in C
        PROVE  Leader[s] \in C
    <2>1. s \in Symbol /\ m \in Symbol
      BY DEF EClass, Inv, TypeOK
    <2>2. PICK r \in EClass : Leader'[r] = Leader'[s] /\ m \in aliases'[r]
      BY <1>1 DEF AliasesStay
    <2>3. Leader'[m] \in D
      BY <1>4, <1>6, <2>1
    <2>4. Leader'[r] \in D
      BY <1>3, <2>2, <2>3 DEF IsClosedByClass
    <2> QED BY <1>4, <2>1, <2>2, <2>4
  <1>7. ASSUME NEW s \in Input \cap defined
        PROVE  Leader[s] \in C
    <2>1. s \in Symbol /\ s \in defined'
      BY <1>1, ConstantsOK DEF ClassesStay
    <2>2. Leader'[s] \in D
      BY <1>3, <2>1 DEF IsClosedByClass
    <2> QED BY <1>4, <2>1, <2>2
  <1>8. IsClosedByClass(C)
    <2> HIDE DEF C
    <2> QED BY <1>5, <1>6, <1>7 DEF IsClosedByClass
  <1>9. C \in SUBSET Symbol
    OBVIOUS
  <1>10. Leader[targets[i]] \in C /\ targets[i] \in Symbol
    <2> HIDE DEF C
    <2> QED BY <1>8, <1>9 DEF TargetsHaveTerms, Inv, TypeOK
  <1> QED
    BY <1>1, <1>4, <1>10 DEF ClassesStay

\* Absorbed names stay without candidates until a union touches a class.
LEMMA GatheredNext ==
  ASSUME Inv, RoundInv, Gathered, [Next]_vars
  PROVE  Gathered'
PROOF
  <1> SUFFICES ASSUME touched' = {}, NEW s \in defined', IsAbsorbed(Leader, s)'
               PROVE  /\ terms'[s] = {} /\ aliases'[s] = {}
                      /\ s \in Input => s \in aliases'[Leader'[s]]
    BY DEF Gathered
  <1>1. ASSUME UNCHANGED <<defined, terms, aliases, parent, touched>>
        PROVE  /\ terms'[s] = {} /\ aliases'[s] = {}
               /\ s \in Input => s \in aliases'[Leader'[s]]
    <2>1. Leader' = Leader
      BY <1>1 DEF Leader
    <2> QED BY <1>1, <2>1 DEF Gathered, IsAbsorbed
  <1>2. CASE ClientUnion
    BY <1>1, <1>2 DEF ClientUnion, UnionValueTuples, ir
  <1>3. CASE \E p \in work : UnionLeaderSymbols(p)
    BY <1>1, <1>3 DEF UnionLeaderSymbols, ir
  <1>4. CASE \E t \in Term, n \in Symbol : Intern(t, n)
    <2>1. PICK t \in Term, n \in Symbol : Intern(t, n)
      BY <1>4
    <2>2. /\ UNCHANGED <<aliases, parent, touched>>
          /\ n \notin defined /\ parent[n] = n
          /\ defined' = defined \cup {n}
          /\ terms' = [terms EXCEPT ![n] = {Canon(Leader, t)}]
      BY <2>1 DEF Intern, IsFresh
    <2>3. Leader' = Leader
      BY <2>2 DEF Leader
    <2>4. s # n /\ s \in defined /\ s \in Symbol
      BY <2>2, <2>3, LeaderProps DEF IsAbsorbed, Inv, TypeOK
    <2>5. Leader[s] # n
      BY <2>2, <2>4, LeaderDefined
    <2>6. IsAbsorbed(Leader, s)
      BY <2>2, <2>3, <2>5 DEF IsAbsorbed
    <2>7. terms'[s] = terms[s]
      BY <2>2, <2>4 DEF Inv, TypeOK
    <2> QED BY <2>2, <2>3, <2>4, <2>6, <2>7 DEF Gathered
  <1>5. CASE RebuildRound
    <2>1. /\ UNCHANGED <<defined, aliases, parent, touched>>
          /\ terms' = [r \in Symbol |-> {Canon(Leader, t) : t \in terms[r]}]
      BY <1>5 DEF RebuildRound
    <2>2. Leader' = Leader
      BY <2>1 DEF Leader
    <2>3. IsAbsorbed(Leader, s) /\ s \in defined /\ s \in Symbol
      BY <2>1, <2>2 DEF IsAbsorbed, Inv, TypeOK
    <2>4. terms[s] = {}
      BY <2>1, <2>3 DEF Gathered
    <2>5. terms'[s] = {}
      BY <2>1, <2>3, <2>4
    <2> QED BY <2>1, <2>2, <2>3, <2>5 DEF Gathered
  <1>6. CASE RebuildFinish
    BY <1>6, FinishSettles DEF Settled
  <1>7. CASE UNCHANGED vars
    BY <1>1, <1>7 DEF vars
  <1> QED
    BY <1>2, <1>3, <1>4, <1>5, <1>6, <1>7 DEF Next

\* Every candidate of a class that an e-class leads is in the leader.
LEMMA ExtractableNow ==
  ASSUME Inv, Gathered, TargetsHaveTerms
  PROVE  TargetsExtractable
PROOF
  <1> SUFFICES ASSUME touched = {}, StaleAliases = {}, NEW i \in Slot,
                      NEW C \in SUBSET Symbol, IsClosed(C)
               PROVE  Leader[targets[i]] \in C
    BY DEF TargetsExtractable, HasTerm
  <1>1. \A s \in Symbol : /\ Leader[s] \in Symbol /\ Leader[Leader[s]] = Leader[s]
                          /\ parent[s] = s => Leader[s] = s
    BY LeaderProps DEF Inv
  <1>2. Input \subseteq Symbol /\ EClass \subseteq Symbol
    BY ConstantsOK DEF EClass
  \* A class that an input leads is its own term.
  <1>3. ASSUME NEW s \in Symbol, s \in defined \/ HasCandidates(terms, aliases, s),
               Leader[s] \in Input
        PROVE  Leader[s] \in C
    <2>1. Leader[s] \in defined
      BY <1>3, LeaderDefined DEF Inv, IRVerifies
    <2> QED BY <1>3, <2>1 DEF IsClosed
  <1>4. ASSUME NEW s \in EClass, HasCandidates(terms, aliases, s), s \in C
        PROVE  Leader[s] \in C
    <2>1. s \in defined /\ s \in Symbol
      BY <1>2, <1>4 DEF Inv, IRVerifies
    <2>2. Leader[s] \in defined /\ Leader[s] \in Symbol
      BY <2>1, LeaderDefined, <1>1
    <2>3. CASE Leader[s] \in Input
      BY <1>3, <2>1, <2>3
    <2>4. CASE Leader[s] \in EClass
      <3>1. Leader[s] = s
        BY <1>4, <2>1, <2>2, <2>4 DEF Gathered, IsAbsorbed
      <3> QED BY <1>4, <3>1
    <2> QED BY <2>2, <2>3, <2>4 DEF EClass
  <1>5. ASSUME NEW s \in Input \cap defined
        PROVE  Leader[s] \in C
    <2>1. s \in Symbol /\ Leader[s] \in Symbol /\ Leader[s] \in defined
      BY <1>1, <1>2, LeaderDefined
    <2>2. CASE Leader[s] \in Input
      BY <1>3, <2>1, <2>2
    <2>3. CASE Leader[s] \in EClass
      <3>1. IsAbsorbed(Leader, s)
        BY <2>1, <2>3 DEF IsAbsorbed, EClass
      <3>2. s \in aliases[Leader[s]]
        BY <3>1 DEF Gathered
      <3>3. s \in C
        BY DEF IsClosed
      <3> QED BY <2>3, <3>2, <3>3 DEF IsClosed
    <2> QED BY <2>1, <2>2, <2>3 DEF EClass
  <1>6. ASSUME NEW s \in EClass, NEW t \in terms[s], \A u \in Uses(t) : Leader[u] \in C
        PROVE  Leader[s] \in C
    <2>1. s \in C
      BY <1>6 DEF IsClosed
    <2> QED BY <1>4, <2>1
  <1>7. ASSUME NEW s \in EClass, NEW m \in aliases[s], Leader[m] \in C
        PROVE  Leader[s] \in C
    <2>1. m \in defined /\ m \in Symbol /\ s \in Symbol
      BY <1>2 DEF Inv, IRVerifies, TypeOK
    <2>2. m \in Input \/ Leader[m] = m
      BY <1>2, <2>1 DEF StaleAliases, EClass
    <2>3. m \in C
      BY <1>7, <2>1, <2>2 DEF IsClosed
    <2>4. s \in C
      BY <2>3 DEF IsClosed
    <2> QED BY <1>4, <2>4
  <1>8. IsClosedByClass(C)
    BY <1>5, <1>6, <1>7 DEF IsClosedByClass
  <1> QED BY <1>8 DEF TargetsHaveTerms

\* In a body just indexed, classes are single names.
LEMMA ExtractableInit ==
  ASSUME Init, TargetsExtractable
  PROVE  Gathered /\ TargetsHaveTerms
PROOF
  <1>1. parent = NoUnions /\ pc = "idle" /\ touched = {} /\ Inv
    BY InitInv DEF Init
  <1>2. \A s \in Symbol : Leader[s] = s
    BY <1>1, NoUnionsLeader DEF Leader, NoUnions
  <1>3. Gathered
    BY <1>1, <1>2 DEF Gathered, IsAbsorbed, Inv, TypeOK
  <1>4. StaleAliases = {}
    BY <1>2 DEF StaleAliases, EClass
  <1>5. ASSUME NEW C \in SUBSET Symbol, IsClosedByClass(C)
        PROVE  IsClosed(C)
    <2>1. Input \cap defined \subseteq C
      BY <1>2, <1>5, ConstantsOK DEF IsClosedByClass
    <2>2. ASSUME NEW s \in EClass \ C, NEW t \in terms[s]
          PROVE  \E u \in Uses(t) : Leader[u] \notin C
      BY <1>2, <1>5, <2>2 DEF IsClosedByClass, EClass
    <2>3. ASSUME NEW s \in EClass \ C, NEW m \in aliases[s], m \in C
          PROVE  FALSE
      BY <1>2, <1>5, <2>3 DEF IsClosedByClass, EClass
    <2> QED BY <2>1, <2>2, <2>3 DEF IsClosed
  <1> QED
    BY <1>1, <1>3, <1>4, <1>5 DEF TargetsHaveTerms, TargetsExtractable, HasTerm

(***************************************************************************)
(* If every target of the body has a term, every graph that unions, intern *)
(* and rebuild make of it leaves one for each target where the extractors  *)
(* look, unless an alias names an absorbed e-class.                        *)
(***************************************************************************)
THEOREM TargetsStayExtractable == Spec /\ TargetsExtractable => []TargetsExtractable
PROOF
  <1> DEFINE I == Inv /\ RoundInv /\ ExtractableInv
  <1>1. Init /\ TargetsExtractable => I
    BY InitInv, RoundInvInit, ExtractableInit DEF ExtractableInv
  <1>2. I /\ [Next]_vars => I'
    BY NextInv, RoundInvNext, TargetsHaveTermsNext, GatheredNext DEF ExtractableInv
  <1>3. I => TargetsExtractable
    BY ExtractableNow DEF ExtractableInv
  <1> QED
    BY <1>1, <1>2, <1>3, PTL DEF Spec
=============================================================================
