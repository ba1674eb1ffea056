------------------------- MODULE MatchDriverTheorems -------------------------
(***************************************************************************)
(* The match driver and its clients only ever do to the facade what a      *)
(* client of the facade may do, so what holds of the facade holds of every *)
(* run of the driver, in the middle of a batch and after a failed one too. *)
(***************************************************************************)
EXTENDS MatchDriver, EGraphCongruence, FiniteSetTheorems, SequenceTheorems

\* Interning a scratch operation is a call of intern, a hit or a miss.
LEMMA InternScratchIsIntern ==
  ASSUME NEW t, NEW r \in Symbol, t.op \in Op, TypeOK, InternScratch(t, r)
  PROVE  Next \/ UNCHANGED vars
BY InternIsClientIntern DEF InternScratch

\* The union of the events of a transaction is one call.
LEMMA CommitUnionIsClientUnion ==
  ASSUME CommitUnion, TypeOK
  PROVE  Next
<1> DEFINE tr == Head(pending)
           P  == EventPairs(tr, interned)
<1>1. EventsFit(tr) /\ UnionValueTuples(P)
  BY DEF CommitUnion
<1>2. PICK n \in 1..MaxPairs : DOMAIN tr.events = 1..n
  BY <1>1 DEF EventsFit
<1> DEFINE pair == [e \in 1..n |-> <<tr.events[e].root.owner, Resolve(tr.events[e].by, interned)>>]
<1>3. P = {pair[e] : e \in 1..n}
  BY <1>2 DEF EventPairs
<1>4. \A e \in 1..n : pair[e] = <<pair[e][1], pair[e][2]>>
  OBVIOUS
<1> HIDE DEF pair, P
<1> QED BY <1>1, <1>3, <1>4, PairsAreClientUnion

(***************************************************************************)
(* One step of the driver or of its client is a step of the facade, or     *)
(* leaves the facade alone.                                                *)
(***************************************************************************)
LEMMA DriverStepRefines ==
  ASSUME TypeOK, [DriverNext]_allVars
  PROVE  [Next]_vars
<1>1. CASE UNCHANGED allVars
  BY <1>1 DEF allVars
<1>2. CASE Client
  <2>1. CASE \E P \in ClientCalls : UnionValueTuples(P)
    <3>1. PICK P \in ClientCalls : UnionValueTuples(P)
      BY <2>1
    <3>2. PICK calls \in [1..MaxPairs -> Symbol \X Symbol] : P = {calls[i] : i \in 1..MaxPairs}
      BY DriverConstantsOK
    <3> QED BY <3>1, <3>2, CallIsClientUnion
  <2>2. CASE \E p \in work : UnionLeaderSymbols(p)
    BY <2>2 DEF Next
  <2> QED BY <1>2, <2>1, <2>2 DEF Client
<1>3. CASE Start
  BY <1>3 DEF Start, Next
<1>4. CASE \E root \in worklist : Dispatch(root)
  BY <1>4 DEF Dispatch
<1>5. CASE StopAtLimit
  BY <1>5 DEF StopAtLimit
<1>6. CASE CommitIntern
  <2> DEFINE tr == Head(pending)
  <2>1. PICK i \in Ready(tr, interned), r \in Symbol :
          /\ tr.ops[i].op \in Op
          /\ InternScratch(ScratchTerm(tr, i, interned), r)
    BY <1>6 DEF CommitIntern
  <2>2. ScratchTerm(tr, i, interned).op \in Op
    BY <2>1 DEF ScratchTerm
  <2> HIDE DEF tr
  <2> QED BY <2>1, <2>2, InternScratchIsIntern
<1>7. CASE CommitUnion
  BY <1>7, CommitUnionIsClientUnion
<1>8. CASE CommitFails
  BY <1>8 DEF CommitFails
<1>9. CASE Unite
  BY <1>9 DEF Unite, Next
<1>10. CASE EndUnchangedBatch
  BY <1>10 DEF EndUnchangedBatch
<1>11. CASE RebuildBatch
  BY <1>11 DEF RebuildBatch, Next
<1>12. CASE Rebuild
  BY <1>12 DEF Rebuild, Next
<1>13. CASE NextRound
  BY <1>13 DEF NextRound
<1> QED
  BY <1>1, <1>2, <1>3, <1>4, <1>5, <1>6, <1>7, <1>8, <1>9, <1>10, <1>11, <1>12, <1>13
     DEF DriverNext, DriverStep

(***************************************************************************)
(* The driver is a client of the facade like any other: each of its steps  *)
(* is a union, an intern, a step of a rebuild, or none of these.           *)
(***************************************************************************)
THEOREM DriverUsesFacade == DriverSpec => UsesFacade
<1>1. DriverInit => Init
  BY DEF DriverInit
<1>2. Init => Inv
  BY InitInv
<1>3. ASSUME Inv, [DriverNext]_allVars
      PROVE  Inv' /\ [Next]_vars
  <2>1. [Next]_vars
    BY <1>3, DriverStepRefines DEF Inv
  <2> QED BY <1>3, <2>1, NextInv
<1> QED BY <1>1, <1>2, <1>3, PTL DEF DriverSpec, UsesFacade, Spec

(***************************************************************************)
(* So the IR verifies at every point of a run, in the middle of a batch    *)
(* and after a commit that failed, and leaders stay sound.                 *)
(***************************************************************************)
THEOREM DriverKeepsIR == DriverSpec => [](IRVerifies /\ LeadersSound /\ HashConsSound)
BY DriverUsesFacade, IRAlwaysVerifies, LeadersAlwaysSound, HashConsAlwaysSound, PTL
   DEF UsesFacade

(***************************************************************************)
(* And every rebuild of a run settles the graph, the one that follows a    *)
(* failed run too.                                                         *)
(***************************************************************************)
THEOREM DriverRebuildsSettle == DriverSpec => RebuildSettles
BY DriverUsesFacade, RebuildAlwaysSettles, PTL DEF UsesFacade

-----------------------------------------------------------------------------
(***************************************************************************)
(* Why a run returns a clean graph: between rebuilds, a batch that is not  *)
(* marked as changed has touched nothing, and the pairs that still wait    *)
(* have one leader already.                                                *)
(***************************************************************************)
BatchInv ==
  /\ pc = "idle" => work = {}
  /\ mode = "dispatch" => pc = "idle" /\ touched = {}
  /\ mode = "commit" =>
       /\ pc \in {"idle", "union"}
       /\ ~batchChanged => /\ touched = {}
                           /\ \A p \in work : Leader[p[1]] = Leader[p[2]]
  /\ mode = "rebuild" =>
       /\ pc \in {"idle", "collide"}
       /\ pc = "idle" => touched = {}
       /\ pending = <<>>

\* A transaction that does not mark the batch passes only pairs with one leader.
LEMMA UnchangedUnion ==
  ASSUME Inv, NEW P, ~Unites(P), UnionValueTuples(P)
  PROVE  \A p \in work' : Leader'[p[1]] = Leader'[p[2]]
<1>1. Leader' = Leader
  BY DEF UnionValueTuples, Leader
<1>2. SUFFICES ASSUME NEW q \in P
               PROVE  LET p == UnionPair(Leader, q[1], q[2]) IN Leader[p[1]] = Leader[p[2]]
  BY <1>1 DEF UnionValueTuples
<1>3. q[1] \in Symbol /\ q[2] \in Symbol
  BY DEF UnionValueTuples, CanUnite, Inv, TypeOK
<1>4. Leader[q[1]] = Leader[q[2]]
  BY DEF Unites
<1> QED BY <1>3, <1>4, LeaderProps DEF UnionPair, Inv

\* Waiting pairs belong to a call of the facade.
LEMMA IdleNext ==
  ASSUME pc = "idle" => work = {}, [DriverNext]_allVars, Inv
  PROVE  pc' = "idle" => work' = {}
<1>1. [Next]_vars
  BY DriverStepRefines DEF Inv
<1>2. CASE ClientUnion
  BY <1>2 DEF ClientUnion, UnionValueTuples
<1>3. CASE \E p \in work : UnionLeaderSymbols(p)
  BY <1>3 DEF UnionLeaderSymbols
<1>4. CASE \E t \in Term, s \in Symbol : Intern(t, s)
  BY <1>4 DEF Intern
<1>5. CASE RebuildRound
  BY <1>5 DEF RebuildRound
<1>6. CASE RebuildFinish
  BY <1>6 DEF RebuildFinish
<1>7. CASE UNCHANGED vars
  BY <1>7 DEF vars
<1> QED BY <1>1, <1>2, <1>3, <1>4, <1>5, <1>6, <1>7 DEF Next

\* Every step keeps BatchInv.
LEMMA BatchInvNext ==
  ASSUME Inv, BatchInv, [DriverNext]_allVars
  PROVE  BatchInv'
<1> USE IdleNext
<1>1. CASE UNCHANGED allVars
  BY <1>1 DEF allVars, driverVars, vars, BatchInv, Leader
<1>2. CASE Client
  BY <1>2 DEF Client, Returned, driverVars, BatchInv
<1>3. CASE Start
  <2>1. CASE touched = {}
    BY <1>3, <2>1 DEF Start, EnqueueAll, BatchInv, vars
  <2>2. CASE touched # {}
    BY <1>3, <2>2 DEF Start, RebuildRound, BatchInv
  <2> QED BY <2>1, <2>2
<1>4. ASSUME NEW root \in worklist, Dispatch(root) PROVE BatchInv'
  <2>1. mode = "dispatch" /\ pc = "idle" /\ touched = {} /\ work = {}
    BY <1>4 DEF Dispatch, BatchInv
  <2>2. UNCHANGED <<touched, pc, work>> /\ mode' \in {"dispatch", "commit", "done"}
    BY <1>4 DEF Dispatch, vars
  <2> QED BY <2>1, <2>2 DEF BatchInv
<1>5. CASE StopAtLimit
  BY <1>5 DEF StopAtLimit, BatchInv
<1>6. CASE CommitIntern
  <2>1. UNCHANGED <<mode, batchChanged, pending>>
    BY <1>6 DEF CommitIntern
  <2>2. mode = "commit"
    BY <1>6 DEF CommitIntern, Committing
  <2>3. UNCHANGED <<parent, touched, pc, work>>
    BY <1>6 DEF CommitIntern, InternScratch, Intern, vars
  <2> QED BY <2>1, <2>2, <2>3 DEF BatchInv, Leader
<1>7. CASE CommitUnion
  <2> DEFINE P == EventPairs(Head(pending), interned)
  <2>1. /\ UnionValueTuples(P)
        /\ batchChanged' = (batchChanged \/ Unites(P))
        /\ UNCHANGED mode
        /\ mode = "commit"
    BY <1>7 DEF CommitUnion, Committing
  <2> HIDE DEF P
  <2>2. pc' = "union" /\ touched' = touched
    BY <2>1 DEF UnionValueTuples
  <2>3. ASSUME ~batchChanged'
        PROVE  touched' = {} /\ \A p \in work' : Leader'[p[1]] = Leader'[p[2]]
    <3>1. ~batchChanged /\ ~Unites(P)
      BY <2>1, <2>3
    <3> QED BY <2>1, <2>2, <3>1, UnchangedUnion DEF BatchInv
  <2> QED BY <2>1, <2>2, <2>3 DEF BatchInv
<1>8. CASE CommitFails
  BY <1>8 DEF CommitFails, BatchInv
<1>9. CASE Unite
  <2>1. PICK p \in work : UnionLeaderSymbols(p)
    BY <1>9 DEF Unite
  <2>2. /\ mode = "commit" /\ UNCHANGED <<mode, batchChanged, pending>>
        /\ pc = "union"
    BY <1>9, <2>1 DEF Unite, driverVars, BatchInv, UnionLeaderSymbols
  <2>3. pc' \in {"idle", "union"}
    BY <2>1, <2>2 DEF UnionLeaderSymbols
  <2>4. ASSUME ~batchChanged
        PROVE  touched' = {} /\ \A q \in work' : Leader'[q[1]] = Leader'[q[2]]
    <3>1. touched = {} /\ \A q \in work : Leader[q[1]] = Leader[q[2]]
      BY <2>2, <2>4 DEF BatchInv
    <3>2. UNCHANGED <<parent, touched>> /\ work' \subseteq work
      BY <2>1, <3>1 DEF UnionLeaderSymbols
    <3> QED BY <3>1, <3>2 DEF Leader
  <2> QED BY <2>2, <2>3, <2>4 DEF BatchInv
<1>10. CASE EndUnchangedBatch
  BY <1>10 DEF EndUnchangedBatch, BatchInv
<1>11. CASE RebuildBatch
  BY <1>11 DEF RebuildBatch, RebuildRound, BatchInv
<1>12. CASE Rebuild
  <2>1. mode = "rebuild" /\ UNCHANGED <<mode, pending>>
    BY <1>12 DEF Rebuild, driverVars
  <2>2. CASE \E p \in work : UnionLeaderSymbols(p)
    BY <2>1, <2>2 DEF BatchInv, UnionLeaderSymbols
  <2>3. CASE RebuildRound
    BY <2>1, <2>3 DEF BatchInv, RebuildRound
  <2>4. CASE RebuildFinish
    BY <2>1, <2>4 DEF BatchInv, RebuildFinish
  <2> QED BY <1>12, <2>2, <2>3, <2>4 DEF Rebuild
<1>13. CASE NextRound
  BY <1>13 DEF NextRound, EnqueueAll, BatchInv, vars
<1> QED
  BY <1>1, <1>2, <1>3, <1>4, <1>5, <1>6, <1>7, <1>8, <1>9, <1>10, <1>11, <1>12, <1>13
     DEF DriverNext, DriverStep

\* What the driver hands back when it reports success.
Clean == pc = "idle" /\ touched = {} /\ pending = <<>>

\* A run ends on a clean graph.
LEMMA DoneIsClean ==
  ASSUME BatchInv, [DriverNext]_allVars, mode # "done", mode' = "done"
  PROVE  Clean'
<1>1. CASE UNCHANGED allVars
  BY <1>1 DEF allVars, driverVars
<1>2. CASE Client
  BY <1>2 DEF Client, driverVars
<1>3. CASE Start
  BY <1>3 DEF Start, EnqueueAll, Clean, vars
<1>4. CASE (\E root \in worklist : Dispatch(root)) \/ StopAtLimit
  BY <1>4 DEF Dispatch, StopAtLimit, BatchInv, Clean, vars
<1>5. CASE EndUnchangedBatch
  BY <1>5 DEF EndUnchangedBatch, BatchInv, Clean, vars
<1>6. CASE NextRound
  BY <1>6 DEF NextRound, EnqueueAll, BatchInv, Clean, vars
<1>7. CASE CommitIntern \/ CommitUnion \/ CommitFails \/ Unite \/ RebuildBatch \/ Rebuild
  BY <1>7 DEF CommitIntern, CommitUnion, CommitFails, Unite, RebuildBatch, Rebuild,
              Committing, driverVars
<1> QED
  BY <1>1, <1>2, <1>3, <1>4, <1>5, <1>6, <1>7 DEF DriverNext, DriverStep

(***************************************************************************)
(* A run that reports success leaves a clean graph, whatever the patterns  *)
(* record and wherever the limits strike.                                  *)
(***************************************************************************)
THEOREM ReturnsCleanAlways == DriverSpec => ReturnsClean
<1>1. DriverInit => Inv /\ BatchInv
  BY InitInv DEF DriverInit, BatchInv, Init
<1>2. ASSUME Inv, BatchInv, [DriverNext]_allVars
      PROVE  /\ Inv' /\ BatchInv'
             /\ mode # "done" /\ mode' = "done"
                  => pc' = "idle" /\ touched' = {} /\ pending' = <<>>
  <2>1. [Next]_vars
    BY <1>2, DriverStepRefines DEF Inv
  <2>2. Inv'
    BY <1>2, <2>1, NextInv
  <2>3. BatchInv'
    BY <1>2, BatchInvNext
  <2>4. mode # "done" /\ mode' = "done"
          => pc' = "idle" /\ touched' = {} /\ pending' = <<>>
    BY <1>2, DoneIsClean DEF Clean
  <2> QED BY <2>2, <2>3, <2>4
<1> QED BY <1>1, <1>2, PTL DEF DriverSpec, ReturnsClean

-----------------------------------------------------------------------------
(***************************************************************************)
(* Why what is dispatched and committed is live: the refs belong to the    *)
(* current index, and until the rebuild the graph only gains candidates.   *)
(***************************************************************************)
LiveTransaction(tr) == \A e \in DOMAIN tr.events : IsLive(tr.events[e].root)

LiveTransactions(s) == \A i \in DOMAIN s : LiveTransaction(s[i])

IsSequence(s) == \E n \in Nat : DOMAIN s = 1..n /\ s = [i \in 1..n |-> s[i]]

LiveInv ==
  /\ IsSequence(pending)
  /\ mode = "dispatch" => worklist \subseteq LiveRefs
  /\ mode \in {"dispatch", "commit"} => LiveTransactions(pending)

\* Steps that keep the generation and the candidates there are keep refs live.
LEMMA GrowthKeepsLive ==
  ASSUME generation' = generation, defined \subseteq defined',
         \A s \in defined : terms[s] \subseteq terms'[s]
  PROVE  /\ LiveRefs \subseteq LiveRefs'
         /\ LiveTransactions(pending) =>
              \A i \in DOMAIN pending : \A e \in DOMAIN pending[i].events :
                pending[i].events[e].root \in LiveRefs'
<1>1. ASSUME NEW s \in defined, NEW t \in terms[s]
      PROVE  Ref(s, t) \in LiveRefs'
  BY DEF LiveRefs, Ref
<1>2. LiveRefs \subseteq LiveRefs'
  BY <1>1 DEF LiveRefs
<1> QED BY <1>2 DEF LiveTransactions, LiveTransaction, IsLive

\* What a root adds to the pending transactions has live roots.
LEMMA OffersLive ==
  ASSUME NEW root, NEW choices \in Offers(root)
  PROVE  IsSequence(choices) /\ LiveTransactions(choices)
<1> DEFINE folds == Recorded(Folds(root, terms, Leader))
           found(i) == Rewrites(Patterns[i], root, terms, Leader)
<1>1. \A S : \A tr \in Recorded(S) : LiveTransaction(tr)
  BY DEF Recorded, LiveTransaction
<1>2. CASE folds # {}
  <2>1. PICK tr \in folds : choices = <<tr>>
    BY <1>2 DEF Offers
  <2>2. LiveTransaction(tr)
    BY <1>1
  <2> QED BY <2>1, <2>2 DEF LiveTransactions, IsSequence
<1>3. CASE folds = {}
  <2>1. PICK M \in SUBSET DOMAIN Patterns :
          choices \in {s \in [1..Cardinality(M) -> UNION {Recorded(found(i)) : i \in M}] :
                        \A k \in DOMAIN s : s[k] \in Recorded(found(Nth(M, k)))}
    BY <1>3 DEF Offers
  <2> DEFINE U == UNION {Recorded(found(i)) : i \in M}
  <2>2. \A tr \in U : LiveTransaction(tr)
    BY <1>1
  <2>3. choices \in [1..Cardinality(M) -> U]
    BY <2>1
  <2>4. Cardinality(M) \in Nat
    <3>1. PICK n \in Nat : DOMAIN Patterns = 1..n
      BY DriverConstantsOK
    <3>2. IsFiniteSet(M)
      BY <3>1, FS_Interval, FS_Subset
    <3> QED BY <3>2, FS_CardinalityType
  <2> DEFINE n == Cardinality(M)
  <2>5. DOMAIN choices = 1..n /\ choices = [k \in 1..n |-> choices[k]]
    BY <2>3
  <2>6. \A k \in DOMAIN choices : LiveTransaction(choices[k])
    BY <2>2, <2>3
  <2> HIDE DEF n
  <2>7. n \in Nat
    BY <2>4 DEF n
  <2> QED BY <2>5, <2>6, <2>7 DEF LiveTransactions, IsSequence
<1> QED BY <1>2, <1>3

\* The elements of a sequence.
LEMMA SeqFacts ==
  ASSUME NEW U, NEW s \in Seq(U)
  PROVE  IsSequence(s) /\ \A i \in DOMAIN s : s[i] \in U
<1>1. Len(s) \in Nat /\ s \in [1..Len(s) -> U]
  BY LenProperties
<1> DEFINE n == Len(s)
<1>2. DOMAIN s = 1..n /\ s = [i \in 1..n |-> s[i]]
  BY <1>1
<1>3. \A i \in DOMAIN s : s[i] \in U
  BY <1>1
<1> HIDE DEF n
<1>4. n \in Nat
  BY <1>1 DEF n
<1> QED BY <1>2, <1>3, <1>4 DEF IsSequence

\* The elements of two sequences joined.
LEMMA ConcatElements ==
  ASSUME NEW s, NEW u, NEW c, c = s \o u, IsSequence(s), IsSequence(u)
  PROVE  /\ IsSequence(c)
         /\ \A i \in DOMAIN c : (\E j \in DOMAIN s : c[i] = s[j]) \/ (\E j \in DOMAIN u : c[i] = u[j])
<1> DEFINE U == {s[i] : i \in DOMAIN s} \cup {u[i] : i \in DOMAIN u}
<1>1. s \in Seq(U)
  <2>1. PICK n \in Nat : DOMAIN s = 1..n /\ s = [i \in 1..n |-> s[i]]
    BY DEF IsSequence
  <2> QED BY <2>1
<1>2. u \in Seq(U)
  <2>1. PICK n \in Nat : DOMAIN u = 1..n /\ u = [i \in 1..n |-> u[i]]
    BY DEF IsSequence
  <2> QED BY <2>1
<1> HIDE DEF U
<1>3. c \in Seq(U)
  BY <1>1, <1>2
<1>4. IsSequence(c) /\ \A i \in DOMAIN c : c[i] \in U
  BY <1>3, SeqFacts
<1> QED BY <1>4 DEF U

\* And each of their elements is in it.
LEMMA ElementsConcatenated ==
  ASSUME NEW s, NEW u, IsSequence(s), IsSequence(u)
  PROVE  /\ \A i \in DOMAIN s : \E j \in DOMAIN (s \o u) : (s \o u)[j] = s[i]
         /\ \A i \in DOMAIN u : \E j \in DOMAIN (s \o u) : (s \o u)[j] = u[i]
<1> DEFINE c == s \o u
           U == {s[i] : i \in DOMAIN s} \cup {u[i] : i \in DOMAIN u}
<1>1. PICK n \in Nat : DOMAIN s = 1..n /\ s = [i \in 1..n |-> s[i]]
  BY DEF IsSequence
<1>2. PICK m \in Nat : DOMAIN u = 1..m /\ u = [i \in 1..m |-> u[i]]
  BY DEF IsSequence
<1>a. \A i \in 1..n : s[i] \in U
  BY <1>1
<1>b. \A i \in 1..m : u[i] \in U
  BY <1>2
<1> HIDE DEF U
<1>3. s \in Seq(U) /\ Len(s) = n
  <2>1. s \in [1..n -> U]
    BY <1>1, <1>a
  <2> QED BY <2>1
<1>4. u \in Seq(U) /\ Len(u) = m
  <2>1. u \in [1..m -> U]
    BY <1>2, <1>b
  <2> QED BY <2>1
<1>5. /\ DOMAIN c = 1..(n+m)
      /\ \A i \in 1..n : c[i] = s[i]
      /\ \A i \in 1..m : c[n+i] = u[i]
  BY <1>3, <1>4, <1>1, <1>2
<1>6. \A i \in 1..n : i \in DOMAIN c
  BY <1>5
<1>7. \A i \in 1..m : n + i \in DOMAIN c
  BY <1>5
<1>8. \A i \in DOMAIN s : \E j \in DOMAIN c : c[j] = s[i]
  BY <1>1, <1>5, <1>6
<1>9. \A i \in DOMAIN u : \E j \in DOMAIN c : c[j] = u[i]
  BY <1>2, <1>5, <1>7
<1> QED BY <1>8, <1>9

\* What taking the first element off a sequence leaves.
LEMMA TailElements ==
  ASSUME NEW s, IsSequence(s), s # <<>>
  PROVE  /\ IsSequence(Tail(s))
         /\ \A i \in DOMAIN Tail(s) : \E j \in DOMAIN s : Tail(s)[i] = s[j]
         /\ 1 \in DOMAIN s /\ Head(s) = s[1]
<1> DEFINE U == {s[i] : i \in DOMAIN s}
<1>1. PICK n \in Nat : DOMAIN s = 1..n /\ s = [i \in 1..n |-> s[i]]
  BY DEF IsSequence
<1>2. s \in Seq(U)
  BY <1>1
<1> HIDE DEF U
<1>3. Tail(s) \in Seq(U) /\ 1 \in DOMAIN s /\ Head(s) = s[1]
  BY <1>2
<1>4. IsSequence(Tail(s)) /\ \A i \in DOMAIN Tail(s) : Tail(s)[i] \in U
  BY <1>3, SeqFacts
<1> QED BY <1>3, <1>4 DEF U

\* Joining batches keeps their roots live.
LEMMA ConcatLive ==
  ASSUME NEW s, NEW u, NEW c, c = s \o u,
         IsSequence(s), IsSequence(u), LiveTransactions(s), LiveTransactions(u)
  PROVE  IsSequence(c) /\ LiveTransactions(c)
<1>1. IsSequence(c)
  BY ConcatElements
<1>2. \A i \in DOMAIN c : (\E j \in DOMAIN s : c[i] = s[j]) \/ (\E j \in DOMAIN u : c[i] = u[j])
  BY ConcatElements
<1>3. /\ \A j \in DOMAIN s : LiveTransaction(s[j])
      /\ \A j \in DOMAIN u : LiveTransaction(u[j])
  BY DEF LiveTransactions
<1>4. \A i \in DOMAIN c : LiveTransaction(c[i])
  BY <1>2, <1>3
<1> QED BY <1>1, <1>4 DEF LiveTransactions

\* Committing the first transaction of a batch keeps the roots of the others live.
LEMMA TailLive ==
  ASSUME NEW s, IsSequence(s), s # <<>>, LiveTransactions(s)
  PROVE  IsSequence(Tail(s)) /\ LiveTransactions(Tail(s))
BY TailElements DEF LiveTransactions

\* The steps of a batch change the IR by interning only.
LEMMA BatchGrows ==
  ASSUME TypeOK, \/ UNCHANGED ir
                 \/ \E u : \E r \in Symbol : InternScratch(u, r)
  PROVE  defined \subseteq defined' /\ \A s \in defined : terms[s] \subseteq terms'[s]
<1>1. CASE UNCHANGED ir
  BY <1>1 DEF ir
<1>2. ASSUME NEW u, NEW r \in Symbol, InternScratch(u, r)
      PROVE  defined \subseteq defined' /\ \A s \in defined : terms[s] \subseteq terms'[s]
  <2>1. CASE UNCHANGED vars
    BY <2>1 DEF vars
  <2>2. CASE Intern(u, r)
    BY <2>2, InternGrows
  <2> QED BY <1>2, <2>1, <2>2 DEF InternScratch
<1> QED BY <1>1, <1>2

\* Whoever fills the worklist fills it from the refs of the index.
LEMMA EnqueueLive ==
  ASSUME NEW counts, EnqueueAll(counts), UNCHANGED <<vars, generation>>
  PROVE  worklist' \subseteq LiveRefs' /\ mode' \in {"dispatch", "done"}
<1>1. worklist' \subseteq LiveRefs
  BY DEF EnqueueAll, EnqueueRefs
<1>2. LiveRefs' = LiveRefs
  BY DEF LiveRefs, Ref, vars
<1> QED BY <1>1, <1>2 DEF EnqueueAll

\* Every step keeps LiveInv.
LEMMA LiveInvNext ==
  ASSUME Inv, BatchInv, LiveInv, [DriverNext]_allVars
  PROVE  LiveInv'
<1>0. IsSequence(<<>>)
  BY DEF IsSequence
<1>a. ASSUME UNCHANGED <<generation, pending>>, worklist' \subseteq worklist,
             defined \subseteq defined', \A s \in defined : terms[s] \subseteq terms'[s],
             mode' = mode \/ mode' \notin {"dispatch", "commit"}
      PROVE  LiveInv'
  <2>1. LiveRefs \subseteq LiveRefs'
    BY <1>a, GrowthKeepsLive
  <2>2. LiveTransactions(pending) => LiveTransactions(pending)'
    BY <1>a, GrowthKeepsLive DEF LiveTransactions, LiveTransaction, IsLive
  <2> QED BY <1>a, <2>1, <2>2 DEF LiveInv, IsSequence
<1>1. CASE UNCHANGED allVars
  BY <1>1, <1>a DEF allVars, driverVars, vars
<1>2. CASE Client
  <2>1. mode \notin {"dispatch", "commit"} /\ UNCHANGED <<mode, pending>>
    BY <1>2 DEF Client, Returned, driverVars
  <2> QED BY <2>1 DEF LiveInv, IsSequence
<1>3. CASE Start
  <2>1. pending' = <<>>
    BY <1>3 DEF Start
  <2>2. CASE touched = {}
    BY <1>0, <1>3, <2>1, <2>2, EnqueueLive DEF Start, LiveInv, LiveTransactions, IsSequence
  <2>3. CASE touched # {}
    BY <1>0, <1>3, <2>1, <2>3 DEF Start, LiveInv, LiveTransactions, IsSequence
  <2> QED BY <2>2, <2>3
<1>4. ASSUME NEW root \in worklist, Dispatch(root) PROVE LiveInv'
  <2>1. UNCHANGED <<vars, generation>> /\ worklist' \subseteq worklist /\ mode = "dispatch"
    BY <1>4 DEF Dispatch
  <2>2. LiveRefs' = LiveRefs
    BY <2>1 DEF LiveRefs, Ref, vars
  <2>3. CASE IsLive(root)
    <3>1. PICK choices \in Offers(root) : pending' = pending \o choices
      BY <1>4, <2>3 DEF Dispatch
    <3>2. IsSequence(pending') /\ LiveTransactions(pending')
      BY <2>1, <3>1, OffersLive, ConcatLive DEF LiveInv
    <3> QED BY <2>1, <2>2, <3>2 DEF LiveInv, LiveTransactions, LiveTransaction, IsLive, IsSequence
  <2>4. CASE ~IsLive(root)
    BY <2>1, <2>4 DEF LiveInv, IsLive
  <2> QED BY <2>3, <2>4
<1>5. CASE StopAtLimit
  BY <1>0, <1>5 DEF StopAtLimit, LiveInv, IsSequence
<1>6. CASE CommitIntern
  <2>1. UNCHANGED <<generation, mode, worklist, pending>>
    BY <1>6 DEF CommitIntern
  <2>2. \E u : \E r \in Symbol : InternScratch(u, r)
    BY <1>6 DEF CommitIntern
  <2> QED BY <1>a, <2>1, <2>2, BatchGrows DEF Inv
<1>7. CASE CommitUnion
  <2>1. /\ UNCHANGED <<generation, mode, ir>> /\ mode = "commit"
        /\ pending # <<>> /\ pending' = Tail(pending)
    BY <1>7 DEF CommitUnion, Committing, UnionValueTuples
  <2>2. LiveRefs' = LiveRefs
    BY <2>1 DEF LiveRefs, Ref, ir
  <2>3. IsSequence(pending') /\ LiveTransactions(pending')
    BY <2>1, TailLive DEF LiveInv
  <2> QED BY <2>1, <2>2, <2>3 DEF LiveInv, LiveTransactions, LiveTransaction, IsLive, IsSequence
<1>8. CASE CommitFails
  BY <1>8 DEF CommitFails, LiveInv, IsSequence
<1>9. CASE Unite
  <2>1. UNCHANGED <<generation, mode, worklist, pending, ir>>
    BY <1>9 DEF Unite, driverVars, UnionLeaderSymbols
  <2> QED BY <1>a, <2>1 DEF ir
<1>10. CASE EndUnchangedBatch
  BY <1>10 DEF EndUnchangedBatch, LiveInv, IsSequence
<1>11. CASE RebuildBatch
  BY <1>11 DEF RebuildBatch, LiveInv, IsSequence
<1>12. CASE Rebuild
  BY <1>12 DEF Rebuild, driverVars, LiveInv, IsSequence
<1>13. CASE NextRound
  <2>1. pending' = <<>>
    BY <1>13 DEF NextRound, BatchInv
  <2> QED BY <1>0, <1>13, <2>1, EnqueueLive DEF NextRound, LiveInv, LiveTransactions, IsSequence
<1> QED
  BY <1>1, <1>2, <1>3, <1>4, <1>5, <1>6, <1>7, <1>8, <1>9, <1>10, <1>11, <1>12, <1>13
     DEF DriverNext, DriverStep

(***************************************************************************)
(* A pattern is only shown live candidates of a clean graph, and a commit  *)
(* finds its roots live, whatever the patterns are.  The branches for      *)
(* stale roots, in the driver and in validateEvents, are never taken.      *)
(***************************************************************************)
THEOREM DispatchesLiveAlways == DriverSpec => []DispatchesLive
<1>1. DriverInit => Inv /\ BatchInv /\ LiveInv
  <2>1. IsSequence(<<>>)
    BY DEF IsSequence
  <2> QED BY <2>1, InitInv DEF DriverInit, BatchInv, LiveInv, Init
<1>2. Inv /\ BatchInv /\ LiveInv /\ [DriverNext]_allVars => (Inv /\ BatchInv /\ LiveInv)'
  <2> SUFFICES ASSUME Inv, BatchInv, LiveInv, [DriverNext]_allVars
               PROVE  (Inv /\ BatchInv /\ LiveInv)'
    OBVIOUS
  <2>1. [Next]_vars
    BY DriverStepRefines DEF Inv
  <2>2. Inv'
    BY <2>1, NextInv
  <2> QED BY <2>2, BatchInvNext, LiveInvNext
<1>3. BatchInv /\ LiveInv => DispatchesLive
  BY DEF BatchInv, LiveInv, DispatchesLive, LiveTransactions, LiveTransaction, IsLive
<1> QED BY <1>1, <1>2, <1>3, PTL DEF DriverSpec

-----------------------------------------------------------------------------
(***************************************************************************)
(* The caps count refs, so the proofs need that there are finitely many.   *)
(***************************************************************************)
GraphFinite == IsFiniteSet(defined) /\ \A s \in Symbol : IsFiniteSet(terms[s])

\* What a function takes on a finite set is a finite set.
LEMMA FiniteImage ==
  ASSUME NEW S, IsFiniteSet(S), NEW f, DOMAIN f = S, f = [x \in S |-> f[x]]
  PROVE  IsFiniteSet({f[x] : x \in S})
<1> DEFINE T == {f[x] : x \in S}
<1>1. f \in Surjection(S, T)
  BY DEF Surjection
<1> QED BY <1>1, FS_Surjection

\* Interning and rebuilding keep the block finite.
LEMMA FiniteNext ==
  ASSUME TypeOK, GraphFinite, [Next]_vars
  PROVE  GraphFinite'
<1>1. CASE UNCHANGED ir
  BY <1>1 DEF GraphFinite, ir
<1>2. ASSUME NEW t \in Term, NEW s \in Symbol, Intern(t, s)
      PROVE  GraphFinite'
  <2>1. IsFiniteSet(defined')
    BY <1>2, FS_AddElement DEF Intern, GraphFinite
  <2>2. ASSUME NEW r \in Symbol
        PROVE  IsFiniteSet(terms'[r])
    <3>1. terms'[r] = terms[r] \/ terms'[r] = {Canon(Leader, t)}
      BY <1>2, <2>2 DEF Intern, TypeOK
    <3>2. IsFiniteSet({Canon(Leader, t)})
      BY FS_Singleton
    <3>3. IsFiniteSet(terms[r])
      BY <2>2 DEF GraphFinite
    <3> QED BY <3>1, <3>2, <3>3
  <2> QED BY <2>1, <2>2 DEF GraphFinite
<1>3. CASE RebuildRound
  <2>1. ASSUME NEW r \in Symbol
        PROVE  IsFiniteSet(terms'[r])
    <3> DEFINE f == [t \in terms[r] |-> Canon(Leader, t)]
    <3>1. terms'[r] = {f[t] : t \in terms[r]}
      BY <1>3, <2>1 DEF RebuildRound
    <3>2. DOMAIN f = terms[r] /\ f = [t \in terms[r] |-> f[t]]
      OBVIOUS
    <3>3. IsFiniteSet(terms[r])
      BY <2>1 DEF GraphFinite
    <3> HIDE DEF f
    <3> QED BY <3>1, <3>2, <3>3, FiniteImage
  <2> QED BY <1>3, <2>1 DEF GraphFinite, RebuildRound
<1>4. CASE RebuildFinish
  <2>1. IsFiniteSet(defined')
    <3>1. defined' \in SUBSET defined
      BY <1>4 DEF RebuildFinish
    <3> QED BY <3>1, FS_Subset DEF GraphFinite
  <2>2. ASSUME NEW r \in Symbol
        PROVE  IsFiniteSet(terms'[r])
    <3> DEFINE M == Members(Leader, r) \cup {r}
               f == [m \in M |-> terms[m]]
    <3>1. \/ terms'[r] = {}
          \/ terms'[r] = terms[r]
          \/ terms'[r] = UNION {terms[m] : m \in M}
      BY <1>4, <2>2 DEF RebuildFinish, AbsorbedTerms
    <3>2. IsFiniteSet(M) /\ M \subseteq Symbol
      <4>1. Members(Leader, r) \in SUBSET defined
        BY DEF Members
      <4>2. IsFiniteSet(Members(Leader, r))
        BY <4>1, FS_Subset DEF GraphFinite
      <4> QED BY <2>2, <4>1, <4>2, FS_AddElement DEF TypeOK
    <3>3. {terms[m] : m \in M} = {f[m] : m \in M} /\ DOMAIN f = M /\ f = [m \in M |-> f[m]]
      OBVIOUS
    <3>4. \A m \in M : IsFiniteSet(terms[m])
      BY <3>2 DEF GraphFinite
    <3> HIDE DEF M, f
    <3>5. IsFiniteSet({terms[m] : m \in M})
      BY <3>2, <3>3, FiniteImage
    <3>6. IsFiniteSet(UNION {terms[m] : m \in M})
      BY <3>4, <3>5, FS_UNION
    <3> QED BY <2>2, <3>1, <3>6, FS_EmptySet DEF GraphFinite
  <2> QED BY <2>1, <2>2 DEF GraphFinite
<1>5. Next => \/ UNCHANGED ir
              \/ \E t \in Term, s \in Symbol : Intern(t, s)
              \/ RebuildRound
              \/ RebuildFinish
  BY DEF Next, ClientUnion, UnionValueTuples, UnionLeaderSymbols, ir
<1>6. UNCHANGED vars => UNCHANGED ir
  BY DEF vars, ir
<1> QED BY <1>1, <1>2, <1>3, <1>4, <1>5, <1>6

\* A finite block has finitely many live refs.
LEMMA RefsFinite ==
  ASSUME GraphFinite, defined \subseteq Symbol
  PROVE  IsFiniteSet(LiveRefs)
<1>1. ASSUME NEW s \in defined
      PROVE  IsFiniteSet({Ref(s, t) : t \in terms[s]})
  <2> DEFINE f == [t \in terms[s] |-> Ref(s, t)]
             R == {Ref(s, t) : t \in terms[s]}
  <2>1. R = {f[t] : t \in terms[s]}
    OBVIOUS
  <2>2. DOMAIN f = terms[s] /\ f = [t \in terms[s] |-> f[t]]
    OBVIOUS
  <2>3. IsFiniteSet(terms[s])
    BY <1>1 DEF GraphFinite
  <2> HIDE DEF f, R
  <2>4. IsFiniteSet(R)
    BY <2>1, <2>2, <2>3, FiniteImage
  <2> QED BY <2>4 DEF R
<1> DEFINE g == [s \in defined |-> {Ref(s, t) : t \in terms[s]}]
           refs == {{Ref(s, t) : t \in terms[s]} : s \in defined}
<1>2. refs = {g[s] : s \in defined} /\ DOMAIN g = defined /\ g = [s \in defined |-> g[s]]
  OBVIOUS
<1>3. \A R \in refs : IsFiniteSet(R)
  BY <1>1
<1>4. LiveRefs = UNION refs
  BY DEF LiveRefs
<1> HIDE DEF g, refs
<1>5. IsFiniteSet(refs)
  BY <1>2, FiniteImage DEF GraphFinite
<1> QED BY <1>3, <1>4, <1>5, FS_UNION

\* What is enqueued stays below the cap, over all rounds of a run.
LEMMA EnqueueCapped ==
  ASSUME TypeOK, GraphFinite, NEW counts \in [Symbol -> 0..MaxCandidatesPerEClass], EnqueueRefs(LiveRefs, counts)
  PROVE  enqueued' \in [Symbol -> 0..MaxCandidatesPerEClass] /\ worklist' \subseteq LiveRefs
<1>1. IsFiniteSet(LiveRefs)
  BY RefsFinite DEF TypeOK
<1>2. ASSUME NEW s \in Symbol
      PROVE  Room(LiveRefs, counts, s) \in Nat /\ counts[s] + Room(LiveRefs, counts, s) \in 0..MaxCandidatesPerEClass
  <2>1. OfClass(LiveRefs, s) \in SUBSET LiveRefs
    BY DEF OfClass
  <2>2. Cardinality(OfClass(LiveRefs, s)) \in Nat
    BY <1>1, <2>1, FS_Subset, FS_CardinalityType
  <2>3. counts[s] \in 0..MaxCandidatesPerEClass /\ MaxCandidatesPerEClass \in Nat
    BY <1>2, DriverConstantsOK
  <2> QED BY <2>2, <2>3 DEF Room
<1> QED BY <1>2 DEF EnqueueRefs

\* The members of LiveRefs.
LEMMA RefsTyped ==
  ASSUME TypeOK, generation \in Nat
  PROVE  \A r \in LiveRefs : r.owner \in Symbol /\ r.term \in Term /\ r.generation \in Nat
BY DEF TypeOK, LiveRefs, Ref

DriverTypeInv ==
  /\ DriverTypeOK
  /\ TypeOK
  /\ GraphFinite
  /\ enqueued \in [Symbol -> 0..MaxCandidatesPerEClass]

\* Filling the worklist anew keeps it typed.
LEMMA EnqueueTyped ==
  ASSUME DriverTypeInv, NEW counts \in [Symbol -> 0..MaxCandidatesPerEClass], EnqueueAll(counts)
  PROVE  /\ enqueued' \in [Symbol -> 0..MaxCandidatesPerEClass]
         /\ \A s \in Symbol : enqueued'[s] \in 0..MaxCandidatesPerEClass
         /\ \A r \in worklist' : r.owner \in Symbol /\ r.term \in Term /\ r.generation \in Nat
         /\ mode' \in {"dispatch", "done"}
<1>1. enqueued' \in [Symbol -> 0..MaxCandidatesPerEClass] /\ worklist' \subseteq LiveRefs
  BY EnqueueCapped DEF EnqueueAll, DriverTypeInv
<1> QED BY <1>1, RefsTyped DEF EnqueueAll, DriverTypeInv, DriverTypeOK

\* Every step keeps the types.
LEMMA DriverTypeNext ==
  ASSUME DriverTypeInv, [DriverNext]_allVars, TypeOK', GraphFinite'
  PROVE  DriverTypeInv'
<1>0. MaxIterations \in Nat /\ MaxCandidatesPerEClass \in Nat
  BY DriverConstantsOK
<1>a. [s \in Symbol |-> 0] \in [Symbol -> 0..MaxCandidatesPerEClass]
  BY <1>0
<1> USE DEF DriverTypeInv, DriverTypeOK, stats, driverVars
<1>1. CASE UNCHANGED allVars
  BY <1>1 DEF allVars
<1>2. CASE Client
  BY <1>2 DEF Client
<1>3. CASE Start
  <2>1. interned' = <<>> /\ batchChanged' = FALSE /\ iterations' = 0 /\ limitReached' = FALSE /\ skippedStale' = FALSE
    BY <1>3 DEF Start
  <2>2. CASE touched = {}
    <3>1. EnqueueAll([s \in Symbol |-> 0]) /\ UNCHANGED generation
      BY <1>3, <2>2 DEF Start
    <3>2. /\ enqueued' \in [Symbol -> 0..MaxCandidatesPerEClass]
          /\ \A s \in Symbol : enqueued'[s] \in 0..MaxCandidatesPerEClass
          /\ \A r \in worklist' : r.owner \in Symbol /\ r.term \in Term /\ r.generation \in Nat
          /\ mode' \in {"dispatch", "done"}
      BY <1>a, <3>1, EnqueueTyped
    <3>3. generation' \in Nat /\ iterations' \in 0..MaxIterations /\ \A i \in DOMAIN interned' : interned'[i] \in Symbol
      BY <1>0, <2>1, <3>1
    <3> QED BY <2>1, <3>2, <3>3
  <2>3. CASE touched # {}
    <3>1. /\ mode' = "rebuild" /\ worklist' = {}
          /\ enqueued' = [s \in Symbol |-> 0]
          /\ generation' \in Nat
      BY <1>3, <2>3 DEF Start
    <3>2. iterations' \in 0..MaxIterations /\ \A i \in DOMAIN interned' : interned'[i] \in Symbol
      BY <1>0, <2>1
    <3>3. \A s \in Symbol : enqueued'[s] \in 0..MaxCandidatesPerEClass
      BY <1>0, <3>1
    <3> QED BY <1>a, <2>1, <3>1, <3>2, <3>3
  <2> QED BY <2>2, <2>3
<1>4. ASSUME NEW root \in worklist, Dispatch(root)
      PROVE  DriverTypeInv'
  <2>1. /\ UNCHANGED <<generation, interned, batchChanged, enqueued, limitReached>>
        /\ worklist' \subseteq worklist
        /\ mode' \in {"dispatch", "commit", "done"}
        /\ skippedStale' = skippedStale \/ skippedStale' = TRUE
    BY <1>4 DEF Dispatch
  <2>2. iterations' \in 0..MaxIterations
    BY <1>0, <1>4 DEF Dispatch
  <2>3. skippedStale' \in BOOLEAN
    BY <2>1
  <2> QED BY <2>1, <2>2, <2>3
<1>5. CASE StopAtLimit
  BY <1>5 DEF StopAtLimit
<1>6. CASE CommitIntern
  BY <1>6 DEF CommitIntern
<1>7. CASE CommitUnion
  BY <1>7 DEF CommitUnion, Unites
<1>8. CASE CommitFails
  BY <1>8 DEF CommitFails
<1>9. CASE Unite
  BY <1>9 DEF Unite
<1>10. CASE EndUnchangedBatch
  BY <1>10 DEF EndUnchangedBatch
<1>11. CASE RebuildBatch
  <2>1. UNCHANGED <<worklist, interned, iterations, enqueued, limitReached, skippedStale>>
    BY <1>11 DEF RebuildBatch
  <2>2. mode' = "rebuild" /\ batchChanged' = FALSE /\ generation' \in Nat
    BY <1>11 DEF RebuildBatch
  <2> QED BY <2>1, <2>2
<1>12. CASE Rebuild
  BY <1>12 DEF Rebuild
<1>13. CASE NextRound
  <2>1. EnqueueAll(enqueued)
    BY <1>13 DEF NextRound
  <2> QED BY <1>13, <2>1, EnqueueTyped DEF NextRound
<1> QED
  BY <1>1, <1>2, <1>3, <1>4, <1>5, <1>6, <1>7, <1>8, <1>9, <1>10, <1>11, <1>12, <1>13
     DEF DriverNext, DriverStep

(***************************************************************************)
(* The driver's state keeps its types; in particular, the candidates of a  *)
(* class that are enqueued never exceed the cap, counted over all rounds   *)
(* of a run though classes grow and merge between them.                    *)
(***************************************************************************)
THEOREM DriverTypeAlways == DriverSpec => []DriverTypeOK
<1>1. DriverInit => Inv /\ DriverTypeInv
  <2> SUFFICES ASSUME DriverInit PROVE Inv /\ DriverTypeInv
    OBVIOUS
  <2>1. Inv
    BY InitInv DEF DriverInit
  <2>2. GraphFinite
    BY BodiesFinite DEF DriverInit, Init, GraphFinite
  <2>3. TypeOK
    BY <2>1 DEF Inv
  <2>4. MaxIterations \in Nat /\ MaxCandidatesPerEClass \in Nat
    BY DriverConstantsOK
  <2>5. /\ enqueued \in [Symbol -> 0..MaxCandidatesPerEClass]
        /\ iterations \in 0..MaxIterations
        /\ \A s \in Symbol : enqueued[s] \in 0..MaxCandidatesPerEClass
    BY <2>4 DEF DriverInit
  <2>6. DriverTypeOK
    <3>1. /\ mode = "ready" /\ generation = 1 /\ worklist = {} /\ interned = <<>>
          /\ batchChanged = FALSE /\ limitReached = FALSE /\ skippedStale = FALSE
      BY DEF DriverInit
    <3>2. \A i \in DOMAIN interned : interned[i] \in Symbol
      BY <3>1
    <3> QED BY <2>5, <3>1, <3>2 DEF DriverTypeOK
  <2> QED BY <2>1, <2>2, <2>3, <2>5, <2>6 DEF DriverTypeInv
<1>2. Inv /\ DriverTypeInv /\ [DriverNext]_allVars => (Inv /\ DriverTypeInv)'
  <2> SUFFICES ASSUME Inv, DriverTypeInv, [DriverNext]_allVars
               PROVE  Inv' /\ DriverTypeInv'
    OBVIOUS
  <2>1. [Next]_vars
    BY DriverStepRefines DEF Inv
  <2>2. Inv'
    BY <2>1, NextInv
  <2>3. GraphFinite'
    BY <2>1, FiniteNext DEF DriverTypeInv
  <2> QED BY <2>2, <2>3, DriverTypeNext DEF Inv
<1>3. DriverTypeInv => DriverTypeOK
  BY DEF DriverTypeInv
<1> QED BY <1>1, <1>2, <1>3, PTL DEF DriverSpec

-----------------------------------------------------------------------------
(***************************************************************************)
(* What a pattern may hand to the driver: values of the graph, results of  *)
(* its own operations, and operations that have the type their name says.  *)
(***************************************************************************)
FromGraph(tr) ==
  /\ \A e \in DOMAIN tr.events :
       \/ tr.events[e].by[1] = "value" /\ tr.events[e].by[2] \in defined
       \/ \E i \in DOMAIN tr.ops : tr.events[e].by = <<"scratch", i>>
  /\ \A i \in DOMAIN tr.ops : tr.ops[i].op \in Op => tr.ops[i].type = ResultType[tr.ops[i].op]

PatternsUseGraph ==
  \A root \in LiveRefs : \A choices \in Offers(root) :
    \A i \in DOMAIN choices : FromGraph(choices[i])

(***************************************************************************)
(* The transaction that is committed has interned e-classes of the types   *)
(* of its operations, and those that wait still refer to the graph.        *)
(***************************************************************************)
InternedFor(tr) ==
  \A i \in DOMAIN interned :
    /\ i \in DOMAIN tr.ops
    /\ interned[i] \in Symbol /\ interned[i] \in defined
    /\ TypeOf[interned[i]] = tr.ops[i].type

PendingInv ==
  /\ pending = <<>> \/ mode = "dispatch" => interned = <<>>
  /\ mode \in {"dispatch", "commit"} => \A i \in DOMAIN pending : FromGraph(pending[i])
  /\ mode = "commit" => InternedFor(Head(pending))
  /\ mode = "failed" => ~Acceptable(Head(pending))

\* A transaction that is acceptable is not refused.
LEMMA AcceptableCommits ==
  ASSUME Inv, NEW tr, LiveTransaction(tr), FromGraph(tr), InternedFor(tr), Acceptable(tr)
  PROVE  ~CommitRefused(tr, interned)
<1>1. ASSUME NEW e \in DOMAIN tr.events
      PROVE  /\ IsLive(tr.events[e].root)
             /\ ValueType(tr, tr.events[e].by) = ResultType[tr.events[e].root.term.op]
             /\ \/ tr.events[e].by[1] = "value" /\ tr.events[e].by[2] \in defined
                \/ /\ tr.events[e].by[1] = "scratch" /\ tr.events[e].by[2] \in Reachable(tr)
                   /\ tr.events[e].by[2] \in DOMAIN tr.ops
  <2>1. /\ IsLive(tr.events[e].root)
        /\ ValueType(tr, tr.events[e].by) = ResultType[tr.events[e].root.term.op]
    BY DEF LiveTransaction, Acceptable
  <2>2. ASSUME NEW i \in DOMAIN tr.ops, tr.events[e].by = <<"scratch", i>>
        PROVE  /\ tr.events[e].by[1] = "scratch" /\ tr.events[e].by[2] \in Reachable(tr)
               /\ tr.events[e].by[2] \in DOMAIN tr.ops
    <3>1. i \in Producers(tr, [d \in DOMAIN tr.events |-> tr.events[d].by])
      BY <2>2 DEF Producers
    <3>2. i \in Reachable(tr)
      BY <3>1 DEF Reachable, HoldsNeeds
    <3> QED BY <2>2, <3>2
  <2> QED BY <2>1, <2>2 DEF FromGraph
<1>2. ValidEvents(tr)
  BY <1>1 DEF ValidEvents
<1>3. \A i \in Ready(tr, interned) : tr.ops[i].op \in Op
  BY DEF Ready, Acceptable
<1>4. ASSUME Reachable(tr) \subseteq DOMAIN interned, NEW e \in DOMAIN tr.events
      PROVE  CanUnite(Leader, tr.events[e].root.owner, Resolve(tr.events[e].by, interned))
  <2> DEFINE root == tr.events[e].root
             by   == tr.events[e].by
             v    == Resolve(by, interned)
  <2>1. PICK s \in defined : \E t \in terms[s] : root = Ref(s, t)
    BY <1>1 DEF IsLive, LiveRefs
  <2>2. PICK t \in terms[s] : root = Ref(s, t)
    BY <2>1
  <2>3. /\ root.owner = s /\ s \in Symbol
        /\ TypeOf[s] = ResultType[root.term.op]
    BY <2>2 DEF Ref, Inv, TypeOK, IRVerifies
  <2>4. v \in Symbol /\ v \in defined /\ TypeOf[v] = ValueType(tr, by)
    <3>1. CASE by[1] = "value" /\ by[2] \in defined
      <4>1. by[2] \in Symbol
        BY <3>1 DEF Inv, TypeOK
      <4>2. Leader[by[2]] \in defined /\ Leader[by[2]] \in Symbol
        BY <3>1, <4>1, LeaderDefined, LeaderProps DEF Inv
      <4>3. TypeOf[Leader[by[2]]] = TypeOf[by[2]]
        BY <4>1 DEF Inv, LeadersSound
      <4> QED BY <3>1, <4>2, <4>3 DEF Resolve, ValueType
    <3>2. CASE by[1] = "scratch" /\ by[2] \in Reachable(tr)
      <4>1. by[2] \in DOMAIN interned
        BY <1>4, <3>2
      <4> QED BY <3>2, <4>1 DEF Resolve, ValueType, InternedFor
    <3> QED BY <1>1, <3>1, <3>2
  <2>5. Leader[s] \in defined /\ Leader[v] \in defined
    BY <2>4, LeaderDefined
  <2>6. TypeOf[Leader[s]] = TypeOf[s] /\ TypeOf[Leader[v]] = TypeOf[v]
    BY <2>3, <2>4 DEF Inv, LeadersSound
  <2>7. TypeOf[s] = TypeOf[v]
    BY <1>1, <2>3, <2>4
  <2> HIDE DEF v, by, root
  <2>8. CanUnite(Leader, s, v)
    BY <2>4, <2>5, <2>6, <2>7 DEF CanUnite
  <2> QED BY <2>3, <2>8 DEF v, by, root
<1>5. Reachable(tr) \subseteq DOMAIN interned =>
        \A p \in EventPairs(tr, interned) : CanUnite(Leader, p[1], p[2])
  BY <1>4 DEF EventPairs
<1> QED BY <1>2, <1>3, <1>5 DEF CommitRefused

\* Interning the next operation of the transaction.
LEMMA CommitInternKeeps ==
  ASSUME Inv, HashConsSound, TableDefined, LiveInv, PendingInv, CommitIntern
  PROVE  /\ InternedFor(Head(pending))'
         /\ defined \subseteq defined' /\ UNCHANGED <<pending, mode>>
<1> DEFINE tr == Head(pending)
<1>1. PICK i \in Ready(tr, interned), r \in Symbol :
        /\ tr.ops[i].op \in Op
        /\ InternScratch(ScratchTerm(tr, i, interned), r)
        /\ interned' = [j \in DOMAIN interned \cup {i} |-> IF j = i THEN r ELSE interned[j]]
  BY DEF CommitIntern
<1> DEFINE u == ScratchTerm(tr, i, interned)
<1>2. UNCHANGED <<pending, mode>> /\ mode = "commit" /\ pending # <<>>
  BY DEF CommitIntern, Committing
<1>3. InternedFor(tr)
  BY <1>2 DEF PendingInv
<1>4. FromGraph(tr)
  BY <1>2, TailElements DEF PendingInv, LiveInv
<1>5. i \in DOMAIN tr.ops /\ u.op = tr.ops[i].op
  BY <1>1 DEF Ready, Reachable, ScratchTerm
<1>6. tr.ops[i].type = ResultType[u.op]
  BY <1>1, <1>4, <1>5 DEF FromGraph
<1> HIDE DEF u
<1>7. r \in defined' /\ TypeOf[r] = ResultType[u.op] /\ defined \subseteq defined'
  <2>1. CASE Canon(Leader, u) \in DOMAIN hashcons
    <3>1. r = hashcons[Canon(Leader, u)] /\ UNCHANGED vars
      BY <1>1, <2>1 DEF InternScratch, u
    <3> QED BY <2>1, <3>1, HitIsTyped DEF vars, Canon
  <2>2. CASE Canon(Leader, u) \notin DOMAIN hashcons
    <3>1. Intern(u, r)
      BY <1>1, <2>2 DEF InternScratch, u
    <3> QED BY <3>1, InternReturns
  <2> QED BY <2>1, <2>2
<1>8. ASSUME NEW j \in DOMAIN interned'
      PROVE  /\ j \in DOMAIN tr.ops
             /\ interned'[j] \in Symbol /\ interned'[j] \in defined'
             /\ TypeOf[interned'[j]] = tr.ops[j].type
  <2>1. CASE j = i
    BY <1>1, <1>5, <1>6, <1>7, <2>1
  <2>2. CASE j # i
    BY <1>1, <1>3, <1>7, <2>2 DEF InternedFor
  <2> QED BY <2>1, <2>2
<1> QED BY <1>2, <1>7, <1>8 DEF InternedFor

\* Every step keeps PendingInv, with patterns that use the graph.
LEMMA PendingNext ==
  ASSUME Inv, HashConsSound, TableDefined, BatchInv, LiveInv, PendingInv, PatternsUseGraph,
         [DriverNext]_allVars
  PROVE  PendingInv'
<1>0. DOMAIN <<>> = {}
  OBVIOUS
<1>a. ASSUME UNCHANGED <<mode, pending, interned>>, defined \subseteq defined'
      PROVE  PendingInv'
  BY <1>a DEF PendingInv, FromGraph, InternedFor, Acceptable, ValueType
<1>b. ASSUME pending' = <<>>, interned' = <<>>, mode' # "failed"
      PROVE  PendingInv'
  BY <1>0, <1>b DEF PendingInv, InternedFor
<1>1. CASE UNCHANGED allVars
  BY <1>1, <1>a DEF allVars, driverVars, vars
<1>2. CASE Client
  <2>1. UNCHANGED <<mode, pending, interned, defined>>
    BY <1>2 DEF Client, driverVars, UnionValueTuples, UnionLeaderSymbols, ir
  <2> QED BY <1>a, <2>1
<1>3. CASE Start
  BY <1>3, <1>b DEF Start, EnqueueAll
<1>4. ASSUME NEW root \in worklist, Dispatch(root) PROVE PendingInv'
  <2>1. UNCHANGED <<interned, defined>> /\ mode = "dispatch" /\ interned = <<>>
    BY <1>4 DEF Dispatch, vars, PendingInv
  <2>2. CASE IsLive(root)
    <3>1. PICK choices \in Offers(root) : pending' = pending \o choices
      BY <1>4, <2>2 DEF Dispatch
    <3>2. IsSequence(choices) /\ IsSequence(pending)
      BY <3>1, OffersLive DEF LiveInv
    <3>3. \A i \in DOMAIN choices : FromGraph(choices[i])
      BY <2>2, <3>1 DEF PatternsUseGraph, IsLive
    <3>4. \A i \in DOMAIN pending : FromGraph(pending[i])
      BY <2>1 DEF PendingInv
    <3>5. \A i \in DOMAIN pending' : FromGraph(pending'[i])
      BY <3>1, <3>2, <3>3, <3>4, ConcatElements
    <3>6. \A i \in DOMAIN pending' : FromGraph(pending[i])'
      BY <2>1, <3>5 DEF FromGraph
    <3>7. mode' \in {"commit", "dispatch"}
      BY <1>4, <2>2 DEF Dispatch
    <3> QED BY <1>0, <2>1, <3>6, <3>7 DEF PendingInv, InternedFor
  <2>3. CASE ~IsLive(root)
    <3>1. \/ pending' = <<>> /\ mode' = "done"
          \/ UNCHANGED <<pending, mode>>
      BY <1>4, <2>1, <2>3 DEF Dispatch
    <3> QED BY <1>a, <1>b, <2>1, <3>1
  <2> QED BY <2>2, <2>3
<1>5. CASE StopAtLimit
  <2>1. pending' = <<>> /\ interned' = <<>> /\ mode' = "done"
    BY <1>5 DEF StopAtLimit, PendingInv
  <2> QED BY <1>b, <2>1
<1>6. CASE CommitIntern
  <2>1. /\ InternedFor(Head(pending))' /\ defined \subseteq defined' /\ UNCHANGED <<pending, mode>>
        /\ mode = "commit" /\ pending # <<>>
    BY <1>6, CommitInternKeeps DEF CommitIntern, Committing
  <2>2. \A i \in DOMAIN pending' : FromGraph(pending[i])'
    BY <2>1 DEF PendingInv, FromGraph
  <2> QED BY <2>1, <2>2 DEF PendingInv
<1>7. CASE CommitUnion
  <2>1. /\ UNCHANGED <<mode, defined>> /\ mode = "commit" /\ interned' = <<>>
        /\ pending # <<>> /\ pending' = Tail(pending)
    BY <1>7 DEF CommitUnion, Committing, UnionValueTuples, ir
  <2>2. \A i \in DOMAIN pending : FromGraph(pending[i])
    BY <2>1 DEF PendingInv
  <2>3. \A i \in DOMAIN pending' : FromGraph(pending'[i])
    BY <2>1, <2>2, TailElements DEF LiveInv
  <2>4. \A i \in DOMAIN pending' : FromGraph(pending[i])'
    BY <2>1, <2>3 DEF FromGraph
  <2> QED BY <1>0, <2>1, <2>4 DEF PendingInv, InternedFor
<1>8. CASE CommitFails
  <2>1. /\ CommitRefused(Head(pending), interned) /\ mode = "commit" /\ pending # <<>>
        /\ mode' = "failed" /\ UNCHANGED <<pending, interned>>
    BY <1>8 DEF CommitFails, Committing
  <2>2. LiveTransaction(Head(pending)) /\ FromGraph(Head(pending)) /\ InternedFor(Head(pending))
    BY <2>1, TailElements DEF LiveInv, LiveTransactions, PendingInv
  <2>3. ~Acceptable(Head(pending))
    BY <2>1, <2>2, AcceptableCommits
  <2>4. ~Acceptable(Head(pending))'
    BY <2>1, <2>3 DEF Acceptable, ValueType
  <2> QED BY <2>1, <2>4 DEF PendingInv
<1>9. CASE Unite
  <2>1. UNCHANGED <<mode, pending, interned, defined>>
    BY <1>9 DEF Unite, driverVars, UnionLeaderSymbols, ir
  <2> QED BY <1>a, <2>1
<1>10. CASE EndUnchangedBatch \/ RebuildBatch \/ NextRound
  <2>1. pending' = <<>> /\ interned' = <<>> /\ mode' # "failed"
    BY <1>10 DEF EndUnchangedBatch, RebuildBatch, NextRound, EnqueueAll, BatchInv, PendingInv
  <2> QED BY <1>b, <2>1
<1>11. CASE Rebuild
  <2>1. pending' = <<>> /\ interned' = <<>> /\ mode' # "failed"
    BY <1>11 DEF Rebuild, driverVars, BatchInv, PendingInv
  <2> QED BY <1>b, <2>1
<1> QED
  BY <1>1, <1>2, <1>3, <1>4, <1>5, <1>6, <1>7, <1>8, <1>9, <1>10, <1>11
     DEF DriverNext, DriverStep

(***************************************************************************)
(* With patterns that take their values from the graph they are shown, a   *)
(* run fails only for a transaction whose replacement has another type or  *)
(* that needs an operation intern refuses: never for what the commits      *)
(* before it interned and united.                                          *)
(***************************************************************************)
THEOREM FailsAlwaysByPattern == DriverSpec /\ []PatternsUseGraph => []FailsOnlyByPattern
<1> DEFINE DriverInv == Inv /\ HashConsSound /\ TableDefined /\ BatchInv /\ LiveInv /\ PendingInv
<1>1. DriverInit => DriverInv
  <2> SUFFICES ASSUME DriverInit PROVE DriverInv
    OBVIOUS
  <2>1. Inv /\ HashConsSound /\ TableDefined
    BY InitInv, HashConsInit, TableInit DEF DriverInit
  <2>2. BatchInv /\ LiveInv
    BY DEF DriverInit, Init, BatchInv, LiveInv, IsSequence
  <2>3. PendingInv
    BY DEF DriverInit, PendingInv, InternedFor
  <2> QED BY <2>1, <2>2, <2>3
<1>2. DriverInv /\ PatternsUseGraph /\ [DriverNext]_allVars => DriverInv'
  <2> SUFFICES ASSUME DriverInv, PatternsUseGraph, [DriverNext]_allVars
               PROVE  DriverInv'
    OBVIOUS
  <2>1. [Next]_vars
    BY DriverStepRefines DEF Inv
  <2>2. Inv' /\ HashConsSound' /\ TableDefined'
    BY <2>1, NextInv, HashConsNext, TableNext
  <2> QED BY <2>2, BatchInvNext, LiveInvNext, PendingNext
<1>3. DriverInv => FailsOnlyByPattern
  BY DEF PendingInv, FailsOnlyByPattern
<1> QED BY <1>1, <1>2, <1>3, PTL DEF DriverSpec
-----------------------------------------------------------------------------
(***************************************************************************)
(* Saturation is proved of patterns that decide: what they record for a    *)
(* root is a function of the graph, and the operations they build take the *)
(* operands their names say.                                               *)
(***************************************************************************)
TakesOperands(tr) ==
  \A i \in DOMAIN tr.ops : tr.ops[i].op \in Op => DOMAIN tr.ops[i].args = 1..Arity[tr.ops[i].op]

PatternsDecide ==
  \A root \in LiveRefs : \A choices \in Offers(root) :
    /\ \A others \in Offers(root) : choices = others
    /\ \A i \in DOMAIN choices : TakesOperands(choices[i])

\* What a root offers waits for its commit, or is in the graph.
IsPending(tr) == \E i \in DOMAIN pending : pending[i] = tr

Answered(root) ==
  \E choices \in Offers(root) : \A i \in DOMAIN choices : IsPending(choices[i]) \/ Holds(choices[i])

\* An operation of the transaction that is committed has its node in the table.
IsHit(tr, i) ==
  LET key == Canon(Leader, ScratchTerm(tr, i, interned))
  IN  key \in DOMAIN hashcons /\ interned[i] = hashcons[key]

Entered(tr) ==
  \A i \in DOMAIN interned :
    /\ i \in Reachable(tr)
    /\ \A a \in DOMAIN tr.ops[i].args : IsResolved(tr.ops[i].args[a], interned)

(***************************************************************************)
(* While a batch has united nothing, the new e-classes are those that the  *)
(* transaction being committed has interned.  Nothing else leads to them,  *)
(* and what uses them is new.  Without one, the graph is as it was when    *)
(* the patterns saw it.                                                    *)
(***************************************************************************)
Grown(tr, New) ==
  /\ \A s \in New : Leader[s] = s
  /\ \A e \in DOMAIN tr.events : Leader[tr.events[e].root.owner] \notin New
  /\ \A k \in DOMAIN hashcons : \A u \in Uses(k) : u \in New => hashcons[k] \in New
  /\ \A i, j \in DOMAIN interned :
       j \in Producers(tr, tr.ops[i].args) /\ interned[j] \in New => interned[i] \in New
  /\ New # {} => \E i \in DOMAIN interned : interned[i] \in New
  /\ New = {} => /\ \A root \in LiveRefs : Answered(root)
                 /\ \A i \in DOMAIN interned : IsHit(tr, i)

SaturationInv ==
  /\ mode \in {"dispatch", "commit"} => \A i \in DOMAIN pending : TakesOperands(pending[i])
  /\ mode = "dispatch" => \A root \in LiveRefs \ worklist : Answered(root)
  /\ mode = "commit" /\ ~batchChanged =>
       /\ pc # "idle" => interned = <<>>
       /\ Entered(Head(pending))
       /\ \E New \in SUBSET Symbol : Grown(Head(pending), New)

\* What patterns see and what is asked of the graph depends on it alone.
LEMMA SameGraph ==
  ASSUME UNCHANGED <<defined, terms, parent, hashcons, generation>>
  PROVE  /\ LiveRefs' = LiveRefs
         /\ \A root : Offers(root)' = Offers(root)
         /\ \A tr : Holds(tr)' = Holds(tr)
<1>1. Leader' = Leader
  BY DEF Leader
<1>2. LiveRefs' = LiveRefs
  BY DEF LiveRefs, Ref
<1>3. \A found : Recorded(found)' = Recorded(found)
  BY <1>2 DEF Recorded, IsLive
<1>4. \A root : Offers(root)' = Offers(root)
  BY <1>1, <1>3 DEF Offers
<1>5. \A tr : Holds(tr)' = Holds(tr)
  BY <1>1 DEF Holds, ScratchTerm, Resolve
<1> QED BY <1>2, <1>4, <1>5

\* A new worklist is all there is.
LEMMA EnqueueSaturates ==
  ASSUME MaxCandidatesPerEClass = 0, NEW counts, EnqueueAll(counts),
         UNCHANGED <<vars, generation>>, pending' = <<>>
  PROVE  SaturationInv'
<1>1. worklist' = LiveRefs /\ mode' \in {"dispatch", "done"}
  BY DEF EnqueueAll, EnqueueRefs
<1>2. LiveRefs' = LiveRefs
  BY DEF LiveRefs, Ref, vars
<1> QED BY <1>1, <1>2 DEF SaturationInv
-----------------------------------------------------------------------------

\* What interning operation i as r makes of interned.
Binding(i, r) == [j \in DOMAIN interned \cup {i} |-> IF j = i THEN r ELSE interned[j]]

\* What interning the next operation does to the results so far.
LEMMA EnteredNext ==
  ASSUME NEW tr, Entered(tr), NEW i \in Ready(tr, interned), NEW r,
         interned' = Binding(i, r)
  PROVE  /\ i \in Reachable(tr) /\ i \notin DOMAIN interned
         /\ Entered(tr)'
         /\ \A j \in DOMAIN interned' : i \notin Producers(tr, tr.ops[j].args)
         /\ \A j \in DOMAIN interned : interned'[j] = interned[j]
         /\ interned'[i] = r /\ DOMAIN interned' = DOMAIN interned \cup {i}
         /\ \A j \in DOMAIN interned' : ScratchTerm(tr, j, interned') = ScratchTerm(tr, j, interned)
<1>0. /\ \A j \in DOMAIN interned' : j # i => j \in DOMAIN interned /\ interned'[j] = interned[j]
      /\ interned'[i] = r /\ DOMAIN interned' = DOMAIN interned \cup {i}
  BY DEF Binding
<1>1. /\ i \in Reachable(tr) /\ i \notin DOMAIN interned
      /\ \A a \in DOMAIN tr.ops[i].args : IsResolved(tr.ops[i].args[a], interned)
  BY DEF Ready
<1>2. \A j \in DOMAIN interned' : j \in Reachable(tr)
        /\ \A a \in DOMAIN tr.ops[j].args : IsResolved(tr.ops[j].args[a], interned)
  BY <1>0, <1>1 DEF Entered
<1>3. \A v : IsResolved(v, interned) => IsResolved(v, interned')
  BY <1>0 DEF IsResolved
<1>4. ASSUME NEW j \in DOMAIN interned', i \in Producers(tr, tr.ops[j].args)
      PROVE  FALSE
  <2>1. PICK a \in DOMAIN tr.ops[j].args : tr.ops[j].args[a] = <<"scratch", i>>
    BY <1>4 DEF Producers
  <2> QED BY <1>1, <1>2, <2>1 DEF IsResolved
<1>5. \A v : IsResolved(v, interned) => v[1] = "value" \/ v[2] \in DOMAIN interned
  BY DEF IsResolved
<1>6. \A j \in DOMAIN interned : interned'[j] = interned[j]
  BY <1>0, <1>1
<1>7. ASSUME NEW v, IsResolved(v, interned)
      PROVE  Resolve(v, interned') = Resolve(v, interned)
  BY <1>5, <1>6, <1>7 DEF Resolve
<1>8. Entered(tr)'
  BY <1>2, <1>3 DEF Entered
<1>9. ASSUME NEW j \in DOMAIN interned'
      PROVE  ScratchTerm(tr, j, interned') = ScratchTerm(tr, j, interned)
  BY <1>2, <1>7 DEF ScratchTerm
<1> QED BY <1>0, <1>1, <1>4, <1>6, <1>8, <1>9

\* The new e-classes among the operands of a key are those of the operation.
LEMMA NewOperands ==
  ASSUME NEW tr, NEW i, TakesOperands(tr), tr.ops[i].op \in Op, i \in DOMAIN tr.ops,
         NEW j \in Producers(tr, tr.ops[i].args), Leader[interned[j]] = interned[j]
  PROVE  interned[j] \in Uses(Canon(Leader, ScratchTerm(tr, i, interned)))
<1> DEFINE t == ScratchTerm(tr, i, interned)
           n == Arity[tr.ops[i].op]
<1>1. PICK a \in DOMAIN tr.ops[i].args : tr.ops[i].args[a] = <<"scratch", j>>
  BY DEF Producers
<1>2. a \in 1..n
  BY <1>1 DEF TakesOperands
<1>3. t.args[a] = interned[j] /\ t.op = tr.ops[i].op
  BY <1>1 DEF ScratchTerm, Resolve
<1>4. Canon(Leader, t).args[a] = interned[j] /\ Canon(Leader, t).op = tr.ops[i].op
  BY <1>2, <1>3 DEF Canon
<1> HIDE DEF t
<1> QED BY <1>2, <1>4 DEF Uses, t
-----------------------------------------------------------------------------

\* A hit gives an operation its node; what uses a new e-class is new.
LEMMA HitSaturates ==
  ASSUME Inv, NEW tr, TakesOperands(tr), Entered(tr), NEW New \in SUBSET Symbol, Grown(tr, New),
         NEW i \in Ready(tr, interned), i \in DOMAIN tr.ops, tr.ops[i].op \in Op, NEW r,
         Canon(Leader, ScratchTerm(tr, i, interned)) \in DOMAIN hashcons,
         r = hashcons[Canon(Leader, ScratchTerm(tr, i, interned))],
         interned' = Binding(i, r),
         UNCHANGED <<vars, generation, pending>>
  PROVE  Grown(tr, New)'
<1> DEFINE key == Canon(Leader, ScratchTerm(tr, i, interned))
<1>1. /\ i \notin DOMAIN interned
      /\ \A j \in DOMAIN interned' : i \notin Producers(tr, tr.ops[j].args)
      /\ \A j \in DOMAIN interned : interned'[j] = interned[j]
      /\ interned'[i] = r /\ DOMAIN interned' = DOMAIN interned \cup {i}
  BY EnteredNext
<1>2. Leader' = Leader /\ UNCHANGED <<hashcons, defined, terms, parent>>
  BY DEF vars, Leader
<1>3. ASSUME NEW j \in DOMAIN interned, j \in Producers(tr, tr.ops[i].args), interned[j] \in New
      PROVE  r \in New
  <2>1. Leader[interned[j]] = interned[j]
    BY <1>3 DEF Grown
  <2>2. interned[j] \in Uses(key)
    BY <1>3, <2>1, NewOperands
  <2> QED BY <1>3, <2>2 DEF Grown
<1>4. \A j, k \in DOMAIN interned' :
        k \in Producers(tr, tr.ops[j].args) /\ interned'[k] \in New => interned'[j] \in New
  BY <1>1, <1>3 DEF Grown
<1>5. \A root : Answered(root) => Answered(root)'
  BY <1>2, SameGraph DEF Answered, IsPending
<1>6. \A j \in DOMAIN interned' : ScratchTerm(tr, j, interned') = ScratchTerm(tr, j, interned)
  BY EnteredNext
<1>7. ASSUME \A j \in DOMAIN interned : IsHit(tr, j), NEW j \in DOMAIN interned'
      PROVE  IsHit(tr, j)'
  <2>1. ScratchTerm(tr, j, interned)' = ScratchTerm(tr, j, interned)
    BY <1>2, <1>6 DEF ScratchTerm, Resolve
  <2> QED BY <1>1, <1>2, <1>7, <2>1 DEF IsHit
<1>8. LiveRefs' = LiveRefs
  BY <1>2, SameGraph
<1>9. New # {} => \E j \in DOMAIN interned' : interned'[j] \in New
  BY <1>1 DEF Grown
<1> QED BY <1>2, <1>4, <1>5, <1>7, <1>8, <1>9 DEF Grown

\* A miss is a new e-class.
LEMMA MissSaturates ==
  ASSUME Inv, TableDefined, NEW tr, TakesOperands(tr), Entered(tr), LiveTransaction(tr),
         NEW New \in SUBSET Symbol, Grown(tr, New),
         \A j \in DOMAIN interned : interned[j] \in defined,
         NEW i \in Ready(tr, interned), i \in DOMAIN tr.ops, tr.ops[i].op \in Op, NEW r \in Symbol,
         Intern(ScratchTerm(tr, i, interned), r),
         interned' = Binding(i, r)
  PROVE  Grown(tr, New \cup {r})'
<1> DEFINE key == Canon(Leader, ScratchTerm(tr, i, interned))
           Now == New \cup {r}
<1>1. /\ i \notin DOMAIN interned
      /\ \A j \in DOMAIN interned' : i \notin Producers(tr, tr.ops[j].args)
      /\ \A j \in DOMAIN interned : interned'[j] = interned[j]
      /\ interned'[i] = r /\ DOMAIN interned' = DOMAIN interned \cup {i}
  BY EnteredNext
<1>2. /\ r \notin defined /\ parent[r] = r /\ parent' = parent
      /\ hashcons' = [k \in DOMAIN hashcons \cup {key} |-> IF k = key THEN r ELSE hashcons[k]]
  BY DEF Intern, IsFresh
<1>3. Leader' = Leader /\ Leader[r] = r
  BY <1>2, LeaderProps DEF Inv, Leader
<1>4. \A s \in Now : Leader'[s] = s
  BY <1>3 DEF Grown
<1>5. \A e \in DOMAIN tr.events : Leader'[tr.events[e].root.owner] \notin Now
  <2> SUFFICES ASSUME NEW e \in DOMAIN tr.events
               PROVE  Leader[tr.events[e].root.owner] \notin Now
    BY <1>3
  <2>1. tr.events[e].root.owner \in defined
    BY DEF LiveTransaction, IsLive, LiveRefs, Ref
  <2> QED BY <1>2, <2>1, LeaderDefined DEF Grown
<1>6. \A k \in DOMAIN hashcons' : \A u \in Uses(k) : u \in Now => hashcons'[k] \in Now
  <2> HIDE DEF key
  <2> QED BY <1>2 DEF Grown, TableDefined
<1>7. \A j, k \in DOMAIN interned' :
        k \in Producers(tr, tr.ops[j].args) /\ interned'[k] \in Now => interned'[j] \in Now
  BY <1>1, <1>2 DEF Grown
<1>8. Now # {} /\ \E j \in DOMAIN interned' : interned'[j] \in Now
  BY <1>1
<1> QED BY <1>4, <1>5, <1>6, <1>7, <1>8 DEF Grown
-----------------------------------------------------------------------------

\* Interning an operation while the batch has united nothing.
LEMMA CommitInternSaturates ==
  ASSUME Inv, TableDefined, BatchInv, LiveInv, PendingInv, SaturationInv, CommitIntern
  PROVE  SaturationInv'
<1> PICK tr : tr = Head(pending)
  OBVIOUS
<1>1. /\ mode = "commit" /\ pc = "idle" /\ pending # <<>>
      /\ UNCHANGED <<generation, mode, worklist, pending, batchChanged>>
  BY DEF CommitIntern, Committing
<1>2. PICK i \in Ready(tr, interned), r \in Symbol :
        /\ tr.ops[i].op \in Op
        /\ InternScratch(ScratchTerm(tr, i, interned), r)
        /\ interned' = [j \in DOMAIN interned \cup {i} |-> IF j = i THEN r ELSE interned[j]]
  BY DEF CommitIntern
<1>3. 1 \in DOMAIN pending /\ tr = pending[1]
  BY <1>1, TailElements DEF LiveInv
<1>4. TakesOperands(tr) /\ LiveTransaction(tr)
  BY <1>1, <1>3 DEF SaturationInv, LiveInv, LiveTransactions
<1>5. \A j \in DOMAIN interned : interned[j] \in defined
  BY <1>1 DEF PendingInv, InternedFor
<1>6. i \in DOMAIN tr.ops
  BY DEF Ready, Reachable
<1>7. pc' = "idle"
  BY <1>1, <1>2 DEF InternScratch, Intern, vars
<1>10. interned' = Binding(i, r)
  BY <1>2 DEF Binding
<1>8. ASSUME ~batchChanged
      PROVE  Entered(tr)' /\ \E New \in SUBSET Symbol : Grown(tr, New)'
  <2>1. Entered(tr)
    BY <1>1, <1>8 DEF SaturationInv
  <2>2. PICK New \in SUBSET Symbol : Grown(tr, New)
    BY <1>1, <1>8 DEF SaturationInv
  <2>3. Entered(tr)'
    BY <1>10, <2>1, EnteredNext
  <2>4. CASE Canon(Leader, ScratchTerm(tr, i, interned)) \in DOMAIN hashcons
    <3>1. /\ UNCHANGED vars
          /\ r = hashcons[Canon(Leader, ScratchTerm(tr, i, interned))]
      BY <1>2, <2>4 DEF InternScratch
    <3>2. Grown(tr, New)'
      BY <1>1, <1>2, <1>4, <1>6, <1>10, <2>1, <2>2, <2>4, <3>1, HitSaturates
    <3> QED BY <2>3, <3>2
  <2>5. CASE Canon(Leader, ScratchTerm(tr, i, interned)) \notin DOMAIN hashcons
    <3>1. Intern(ScratchTerm(tr, i, interned), r)
      BY <1>2, <2>5 DEF InternScratch
    <3>2. Grown(tr, New \cup {r})'
      BY <1>2, <1>4, <1>5, <1>6, <1>10, <2>1, <2>2, <3>1, MissSaturates
    <3> QED BY <2>3, <3>2
  <2> QED BY <2>4, <2>5
<1>9. Head(pending)' = tr
  BY <1>1
<1> QED BY <1>1, <1>7, <1>8, <1>9 DEF SaturationInv, Entered, Grown

(***************************************************************************)
(* A commit that unites nothing has interned nothing new, since what is    *)
(* reached from no replacement is not interned: its transaction holds.     *)
(***************************************************************************)
LEMMA NothingNew ==
  ASSUME NEW tr, Entered(tr), NEW New \in SUBSET Symbol, Grown(tr, New),
         Reachable(tr) \subseteq DOMAIN interned, ~Unites(EventPairs(tr, interned))
  PROVE  New = {}
<1> SUFFICES ASSUME New # {} PROVE FALSE
  OBVIOUS
<1> DEFINE S == {j \in Reachable(tr) : interned[j] \notin New}
<1>1. PICK i \in DOMAIN interned : interned[i] \in New
  BY DEF Grown
<1>2. i \in Reachable(tr)
  BY DEF Entered
<1>3. S \in SUBSET DOMAIN tr.ops /\ i \notin S
  BY <1>1 DEF Reachable
<1>4. ASSUME NEW j \in Producers(tr, [e \in DOMAIN tr.events |-> tr.events[e].by])
      PROVE  j \in S
  <2>1. j \in Reachable(tr)
    BY <1>4 DEF Reachable, HoldsNeeds, Producers
  <2>2. PICK e \in DOMAIN tr.events : tr.events[e].by = <<"scratch", j>>
    BY <1>4 DEF Producers
  <2>3. <<tr.events[e].root.owner, interned[j]>> \in EventPairs(tr, interned)
    <3>1. Resolve(tr.events[e].by, interned) = interned[j]
      BY <2>2 DEF Resolve
    <3> QED BY <3>1 DEF EventPairs
  <2>4. Leader[tr.events[e].root.owner] = Leader[interned[j]]
    BY <2>3 DEF Unites
  <2>5. interned[j] \notin New
    BY <2>4 DEF Grown
  <2> QED BY <2>1, <2>5
<1>5. ASSUME NEW j \in S, NEW k \in Producers(tr, tr.ops[j].args)
      PROVE  k \in S
  <2>1. j \in DOMAIN interned /\ k \in DOMAIN tr.ops
    BY DEF Producers
  <2>2. PICK a \in DOMAIN tr.ops[j].args : tr.ops[j].args[a] = <<"scratch", k>>
    BY DEF Producers
  <2>3. k \in DOMAIN interned
    BY <2>1, <2>2 DEF Entered, IsResolved
  <2>4. k \in Reachable(tr) /\ interned[k] \notin New
    BY <2>1, <2>3 DEF Entered, Grown
  <2> QED BY <2>4
<1>6. HoldsNeeds(tr, S)
  BY <1>4, <1>5 DEF HoldsNeeds
<1> QED BY <1>2, <1>3, <1>6 DEF Reachable

\* What was interned by hits only is in the graph.
LEMMA HitsHold ==
  ASSUME NEW tr, Entered(tr), FromGraph(tr), \A i \in DOMAIN interned : IsHit(tr, i),
         \A i \in DOMAIN interned : interned[i] \in Symbol,
         Reachable(tr) \subseteq DOMAIN interned, ~Unites(EventPairs(tr, interned))
  PROVE  Holds(tr)
<1> DEFINE found == [i \in Reachable(tr) |-> interned[i]]
<1>1. found \in [Reachable(tr) -> Symbol]
  OBVIOUS
<1>2. ASSUME NEW i \in Reachable(tr)
      PROVE  ScratchTerm(tr, i, found) = ScratchTerm(tr, i, interned)
  <2>1. ASSUME NEW a \in DOMAIN tr.ops[i].args
        PROVE  Resolve(tr.ops[i].args[a], found) = Resolve(tr.ops[i].args[a], interned)
    <3>1. IsResolved(tr.ops[i].args[a], interned)
      BY <2>1 DEF Entered
    <3> QED BY <3>1 DEF IsResolved, Resolve, Entered
  <2> HIDE DEF found
  <2> QED BY <2>1 DEF ScratchTerm
<1>3. \A i \in Reachable(tr) :
        LET key == Canon(Leader, ScratchTerm(tr, i, found))
        IN  key \in DOMAIN hashcons /\ found[i] = hashcons[key]
  BY <1>2 DEF IsHit
<1>4. ASSUME NEW e \in DOMAIN tr.events
      PROVE  Leader[Resolve(tr.events[e].by, found)] = Leader[tr.events[e].root.owner]
  <2>1. Resolve(tr.events[e].by, found) = Resolve(tr.events[e].by, interned)
    <3>1. CASE tr.events[e].by[1] = "value"
      BY <3>1 DEF Resolve
    <3>2. ASSUME NEW i \in DOMAIN tr.ops, tr.events[e].by = <<"scratch", i>>
          PROVE  Resolve(tr.events[e].by, found) = Resolve(tr.events[e].by, interned)
      <4>1. i \in Producers(tr, [d \in DOMAIN tr.events |-> tr.events[d].by])
        BY <3>2 DEF Producers
      <4>2. i \in Reachable(tr)
        BY <4>1 DEF Reachable, HoldsNeeds
      <4> QED BY <3>2, <4>2 DEF Resolve
    <3> QED BY <3>1, <3>2 DEF FromGraph
  <2>2. <<tr.events[e].root.owner, Resolve(tr.events[e].by, interned)>> \in EventPairs(tr, interned)
    BY DEF EventPairs
  <2>3. Leader[tr.events[e].root.owner] = Leader[Resolve(tr.events[e].by, interned)]
    BY <2>2 DEF Unites
  <2> QED BY <2>1, <2>3
<1> HIDE DEF found
<1> QED BY <1>1, <1>3, <1>4 DEF Holds
-----------------------------------------------------------------------------

\* A sequence is its first element and its tail.
LEMMA HeadOrTail ==
  ASSUME NEW s, IsSequence(s), s # <<>>, NEW i \in DOMAIN s
  PROVE  s[i] = Head(s) \/ \E j \in DOMAIN Tail(s) : Tail(s)[j] = s[i]
<1> DEFINE U == {s[j] : j \in DOMAIN s}
<1>1. PICK n \in Nat : DOMAIN s = 1..n /\ s = [j \in 1..n |-> s[j]]
  BY DEF IsSequence
<1>2. s \in Seq(U) /\ Len(s) = n
  BY <1>1
<1> HIDE DEF U
<1>3. /\ Head(s) = s[1] /\ DOMAIN Tail(s) = 1..(n-1)
      /\ \A j \in 1..(n-1) : Tail(s)[j] = s[j+1]
  BY <1>1, <1>2
<1>4. CASE i = 1
  BY <1>3, <1>4
<1>5. CASE i # 1
  <2>1. i - 1 \in 1..(n-1) /\ (i - 1) + 1 = i
    BY <1>1, <1>5
  <2>2. Tail(s)[i-1] = s[i]
    BY <1>3, <2>1
  <2> QED BY <1>3, <2>1, <2>2
<1> QED BY <1>4, <1>5

\* The union call of a commit while the batch has united nothing.
LEMMA CommitUnionSaturates ==
  ASSUME Inv, LiveInv, PendingInv, SaturationInv, CommitUnion
  PROVE  SaturationInv'
<1> DEFINE tr == Head(pending)
           P  == EventPairs(tr, interned)
<1>1. /\ mode = "commit" /\ mode' = mode /\ pending # <<>>
      /\ pending' = Tail(pending) /\ interned' = <<>>
      /\ Reachable(tr) \subseteq DOMAIN interned
      /\ batchChanged' = (batchChanged \/ Unites(P))
      /\ UNCHANGED <<defined, terms, parent, hashcons, generation>>
  BY DEF CommitUnion, Committing, UnionValueTuples, ir
<1>2. IsSequence(pending) /\ 1 \in DOMAIN pending /\ tr = pending[1]
  BY <1>1, TailElements DEF LiveInv
<1>3. FromGraph(tr) /\ \A j \in DOMAIN interned : interned[j] \in Symbol
  BY <1>1, <1>2 DEF PendingInv, InternedFor
<1>4. \A i \in DOMAIN pending' : TakesOperands(pending'[i])
  BY <1>1, <1>2, TailElements DEF SaturationInv
<1>5. Leader' = Leader /\ LiveRefs' = LiveRefs
  BY <1>1, SameGraph DEF Leader
<1>6. ASSUME ~batchChanged'
      PROVE  \A root \in LiveRefs : Answered(root)'
  <2>1. ~batchChanged /\ ~Unites(P)
    BY <1>1, <1>6
  <2>2. Entered(tr)
    BY <1>1, <2>1 DEF SaturationInv
  <2>3. PICK New \in SUBSET Symbol : Grown(tr, New)
    BY <1>1, <2>1 DEF SaturationInv
  <2> HIDE DEF tr
  <2>4. New = {}
    BY <1>1, <2>1, <2>2, <2>3, NothingNew
  <2>5. /\ \A root \in LiveRefs : Answered(root)
        /\ \A j \in DOMAIN interned : IsHit(tr, j)
    BY <2>3, <2>4 DEF Grown
  <2>6. Holds(tr)
    BY <1>1, <1>3, <2>1, <2>2, <2>5, HitsHold
  <2>7. ASSUME NEW u, IsPending(u) \/ Holds(u)
        PROVE  IsPending(u)' \/ Holds(u)'
    <3>1. Holds(u)' = Holds(u)
      BY <1>1, SameGraph
    <3>2. IsPending(u) => u = tr \/ IsPending(u)'
      BY <1>1, <1>2, HeadOrTail DEF IsPending, tr
    <3> QED BY <2>6, <2>7, <3>1, <3>2
  <2>8. \A root : Offers(root)' = Offers(root)
    BY <1>1, SameGraph
  <2> QED BY <2>5, <2>7, <2>8 DEF Answered
<1>7. ASSUME ~batchChanged'
      PROVE  Entered(Head(pending))' /\ Grown(Head(pending), {})'
  <2>1. DOMAIN interned' = {}
    BY <1>1
  <2> QED BY <1>5, <1>6, <1>7, <2>1 DEF Entered, Grown
<1>8. ASSUME ~batchChanged'
      PROVE  \E New \in SUBSET Symbol : Grown(Head(pending), New)'
  BY <1>7, <1>8
<1> QED BY <1>1, <1>4, <1>7, <1>8 DEF SaturationInv

\* A dispatched root offers something, which waits from then on.
LEMMA DispatchSaturates ==
  ASSUME Inv, BatchInv, LiveInv, PendingInv, SaturationInv, PatternsDecide,
         NEW root \in worklist, Dispatch(root)
  PROVE  SaturationInv'
<1>1. /\ mode = "dispatch" /\ pc = "idle" /\ interned = <<>> /\ IsLive(root)
      /\ UNCHANGED <<vars, generation, interned>> /\ worklist' = worklist \ {root}
  BY DEF Dispatch, BatchInv, LiveInv, PendingInv, IsLive
<1>2. PICK choices \in Offers(root) : pending' = pending \o choices
  BY <1>1 DEF Dispatch
<1>3. /\ mode' = IF worklist' = {} THEN "commit" ELSE "dispatch"
      /\ mode' = "commit" => LiveRefs \ worklist' = LiveRefs
  BY <1>1 DEF Dispatch
<1>4. IsSequence(pending) /\ IsSequence(choices)
  BY OffersLive DEF LiveInv
<1>5. \A i \in DOMAIN choices : TakesOperands(choices[i])
  BY <1>1 DEF PatternsDecide, IsLive
<1>6. \A i \in DOMAIN pending' : TakesOperands(pending'[i])
  BY <1>1, <1>2, <1>4, <1>5, ConcatElements DEF SaturationInv
<1>7. /\ \A i \in DOMAIN pending : \E j \in DOMAIN pending' : pending'[j] = pending[i]
      /\ \A i \in DOMAIN choices : \E j \in DOMAIN pending' : pending'[j] = choices[i]
  <2>1. /\ \A i \in DOMAIN pending :
             \E j \in DOMAIN (pending \o choices) : (pending \o choices)[j] = pending[i]
        /\ \A i \in DOMAIN choices :
             \E j \in DOMAIN (pending \o choices) : (pending \o choices)[j] = choices[i]
    BY <1>4, ElementsConcatenated
  <2> QED BY <1>2, <2>1, Zenon
<1>8. /\ LiveRefs' = LiveRefs
      /\ \A r : Offers(r)' = Offers(r)
      /\ \A tr : Holds(tr)' = Holds(tr)
  BY <1>1, SameGraph DEF vars
<1>9. Answered(root)'
  BY <1>7, <1>8 DEF Answered, IsPending
<1>10. \A r : Answered(r) => Answered(r)'
  BY <1>7, <1>8 DEF Answered, IsPending
<1>11. \A r \in LiveRefs \ worklist' : Answered(r)'
  BY <1>1, <1>9, <1>10 DEF SaturationInv
<1>12. DOMAIN interned' = {} /\ pc' = "idle"
  BY <1>1 DEF vars
<1>13. Entered(Head(pending))'
  BY <1>12 DEF Entered
<1>14. mode' = "commit" => Grown(Head(pending), {})'
  BY <1>3, <1>8, <1>11, <1>12 DEF Grown
<1> QED BY <1>3, <1>6, <1>8, <1>11, <1>12, <1>13, <1>14 DEF SaturationInv
-----------------------------------------------------------------------------

\* Every step keeps it.
LEMMA SaturationNext ==
  ASSUME MaxCandidatesPerEClass = 0,
         Inv, TableDefined, BatchInv, LiveInv, PendingInv, SaturationInv, PatternsDecide,
         [DriverNext]_allVars
  PROVE  SaturationInv'
<1>a. ASSUME mode' \notin {"dispatch", "commit"} PROVE SaturationInv'
  BY <1>a DEF SaturationInv
<1>b. ASSUME UNCHANGED <<defined, terms, parent, hashcons, generation, driverVars>>,
             pc' = pc \/ mode # "commit" \/ interned = <<>>
      PROVE  SaturationInv'
  <2>1. Leader' = Leader
    BY <1>b DEF Leader
  <2>2. LiveRefs' = LiveRefs /\ \A r : Answered(r)' = Answered(r)
    BY <1>b, SameGraph DEF Answered, IsPending, driverVars
  <2>3. \A tr, i : IsHit(tr, i)' = IsHit(tr, i)
    BY <1>b, <2>1 DEF IsHit, ScratchTerm, Resolve, driverVars
  <2>4. UNCHANGED <<mode, worklist, pending, interned, batchChanged>>
    BY <1>b DEF driverVars
  <2>5. Entered(Head(pending))' = Entered(Head(pending))
    BY <2>4 DEF Entered
  <2>6. \A New : Grown(Head(pending), New)' = Grown(Head(pending), New)
    BY <1>b, <2>1, <2>2, <2>3, <2>4 DEF Grown
  <2> QED BY <1>b, <2>2, <2>4, <2>5, <2>6 DEF SaturationInv
<1>1. CASE UNCHANGED allVars
  BY <1>1, <1>b DEF allVars, vars
<1>2. CASE Client
  BY <1>2, <1>a DEF Client, Returned, driverVars
<1>3. CASE Start
  <2>1. CASE touched = {}
    BY <1>3, <2>1, EnqueueSaturates DEF Start
  <2>2. CASE touched # {}
    BY <1>3, <1>a, <2>2 DEF Start
  <2> QED BY <2>1, <2>2
<1>4. ASSUME NEW root \in worklist, Dispatch(root) PROVE SaturationInv'
  BY <1>4, DispatchSaturates
<1>5. CASE StopAtLimit \/ CommitFails \/ EndUnchangedBatch \/ RebuildBatch
  BY <1>5, <1>a DEF StopAtLimit, CommitFails, EndUnchangedBatch, RebuildBatch
<1>6. CASE CommitIntern
  BY <1>6, CommitInternSaturates
<1>7. CASE CommitUnion
  BY <1>7, CommitUnionSaturates
<1>8. CASE Unite
  <2>1. PICK p \in work : UnionLeaderSymbols(p)
    BY <1>8 DEF Unite
  <2>2. /\ mode = "commit" /\ UNCHANGED <<generation, driverVars>>
        /\ pc # "idle" /\ UNCHANGED <<defined, terms, hashcons>>
    BY <1>8, <2>1 DEF Unite, UnionLeaderSymbols, ir
  <2>3. CASE batchChanged
    BY <2>2, <2>3 DEF SaturationInv, driverVars
  <2>4. CASE ~batchChanged
    <3>1. UNCHANGED parent
      BY <2>1, <2>2, <2>4 DEF BatchInv, UnionLeaderSymbols
    <3>2. interned = <<>>
      BY <2>2, <2>4 DEF SaturationInv
    <3> QED BY <1>b, <2>2, <3>1, <3>2
  <2> QED BY <2>3, <2>4
<1>9. CASE Rebuild
  BY <1>9, <1>a DEF Rebuild, driverVars
<1>10. CASE NextRound
  <2>1. pending' = <<>>
    BY <1>10 DEF NextRound, BatchInv
  <2> QED BY <1>10, <2>1, EnqueueSaturates DEF NextRound
<1> QED
  BY <1>1, <1>2, <1>3, <1>4, <1>5, <1>6, <1>7, <1>8, <1>9, <1>10 DEF DriverNext, DriverStep

\* A run that ends has nothing more to do.
LEMMA DoneIsSaturated ==
  ASSUME MaxCandidatesPerEClass = 0,
         BatchInv, LiveInv, PendingInv, SaturationInv, PatternsDecide,
         [DriverNext]_allVars, mode # "done", mode' = "done", ~limitReached'
  PROVE  IsSaturated
<1>a. ASSUME NEW counts, EnqueueAll(counts) PROVE IsSaturated
  <2>1. LiveRefs = {}
    BY <1>a DEF EnqueueAll, EnqueueRefs
  <2> QED BY <2>1 DEF IsSaturated
<1>1. CASE Start \/ NextRound
  BY <1>1, <1>a DEF Start, NextRound
<1>2. CASE EndUnchangedBatch
  <2>1. mode = "commit" /\ ~batchChanged /\ pending = <<>>
    BY <1>2 DEF EndUnchangedBatch
  <2>2. PICK New \in SUBSET Symbol : Grown(Head(pending), New)
    BY <2>1 DEF SaturationInv
  <2>3. DOMAIN interned = {} /\ DOMAIN pending = {}
    BY <2>1 DEF PendingInv
  <2>4. \A root \in LiveRefs : Answered(root)
    BY <2>2, <2>3 DEF Grown
  <2>5. \A root \in LiveRefs : \E choices \in Offers(root) : \A i \in DOMAIN choices : Holds(choices[i])
    BY <2>3, <2>4 DEF Answered, IsPending
  <2> QED BY <2>5 DEF PatternsDecide, IsSaturated
<1>3. ASSUME NEW root \in worklist, Dispatch(root) PROVE FALSE
  BY <1>3 DEF Dispatch, LiveInv, IsLive
<1>4. CASE StopAtLimit \/ CommitFails \/ RebuildBatch
  BY <1>4 DEF StopAtLimit, CommitFails, RebuildBatch
<1>5. CASE UNCHANGED mode
  BY <1>5
<1>6. Client \/ CommitIntern \/ CommitUnion \/ Unite \/ Rebuild \/ UNCHANGED allVars => UNCHANGED mode
  BY DEF Client, CommitIntern, CommitUnion, Unite, Rebuild, driverVars, allVars
<1> QED
  BY <1>1, <1>2, <1>3, <1>4, <1>5, <1>6 DEF DriverNext, DriverStep

(***************************************************************************)
(* Without limits, a run that succeeds has saturated the graph: what any   *)
(* pattern still matches there has its nodes in the graph already, and its *)
(* replacement in the class of its root.  The round that ends a run has    *)
(* united nothing; it cannot have interned anything either.                *)
(***************************************************************************)
THEOREM RunsAlwaysSaturate ==
  ASSUME MaxCandidatesPerEClass = 0
  PROVE  DriverSpec /\ [](PatternsUseGraph /\ PatternsDecide) => Saturates
<1> DEFINE DriverInv == /\ Inv /\ HashConsSound /\ TableDefined /\ BatchInv
                        /\ LiveInv /\ PendingInv /\ SaturationInv
           Rely == PatternsUseGraph /\ PatternsDecide
<1>1. DriverInit => DriverInv
  <2> SUFFICES ASSUME DriverInit PROVE DriverInv
    OBVIOUS
  <2>1. Inv /\ HashConsSound /\ TableDefined
    BY InitInv, HashConsInit, TableInit DEF DriverInit
  <2>2. BatchInv /\ LiveInv
    BY DEF DriverInit, Init, BatchInv, LiveInv, IsSequence
  <2>3. PendingInv /\ SaturationInv
    BY DEF DriverInit, PendingInv, InternedFor, SaturationInv
  <2> QED BY <2>1, <2>2, <2>3
<1>2. DriverInv /\ Rely /\ [DriverNext]_allVars => DriverInv'
  <2> SUFFICES ASSUME DriverInv, Rely, [DriverNext]_allVars
               PROVE  DriverInv'
    OBVIOUS
  <2>1. [Next]_vars
    BY DriverStepRefines DEF Inv
  <2>2. Inv' /\ HashConsSound' /\ TableDefined'
    BY <2>1, NextInv, HashConsNext, TableNext
  <2> QED BY <2>2, BatchInvNext, LiveInvNext, PendingNext, SaturationNext
<1>3. DriverInv /\ Rely /\ [DriverNext]_allVars
        => [mode # "done" /\ mode' = "done" /\ ~limitReached' => IsSaturated]_allVars
  BY DoneIsSaturated
<1> QED BY <1>1, <1>2, <1>3, PTL DEF DriverSpec, Saturates
=============================================================================
