------------------------- MODULE TransactionTheorems -------------------------
(***************************************************************************)
(* Any number of transactions open on one graph: what a commit does, when  *)
(* it succeeds and what it leaves behind when it fails, for whatever the   *)
(* clients build, record and do between the steps of a transaction.        *)
(***************************************************************************)
EXTENDS OpenTransactions, EGraphCongruence

-----------------------------------------------------------------------------
\* What transactions are made of.

Value ==
  ({"value"} \X Symbol) \cup ({"scratch"} \X Nat) \cup ({"alien"} \X Type)
  \cup ({"other"} \X Tx \X Nat)

Lists == UNION {[1..n -> Value] : n \in {shape.arity : shape \in Built}}

Operation ==
  [op : {shape.op : shape \in Built}, type : {shape.type : shape \in Built},
   args : Lists, made : Nat]

Event == [root : [owner : Symbol, term : Term, generation : Nat], by : Value]

TxTypeOK ==
  /\ generation \in Nat
  /\ sessions \in [Tx -> [ops : Seq(Operation), events : Seq(Event)]]
  /\ \A x \in Tx : Len(sessions[x].events) <= MaxEvents
  /\ outcome \in [Tx -> {"open", "failed", "unchanged", "changed", "discarded"}]
  /\ \/ stage = "none" /\ active = Nobody
     \/ /\ stage \in {"intern", "union", "rebuild"} /\ active \in Tx
        /\ outcome[active] = "open" /\ sessions[active].events # <<>>

(***************************************************************************)
(* What a transaction has of the current generation is still there: the    *)
(* index still knows the operation, no value it uses was erased, and the   *)
(* roots are live.                                                         *)
(***************************************************************************)
OperationHolds(x, i, o) ==
  /\ o.made <= generation
  /\ o.made = generation <=> <<x, i>> \in registered
  /\ o.made = generation =>
       \A a \in DOMAIN o.args : o.args[a][1] = "value" => o.args[a][2] \in defined
  /\ o.op \in Op => o.type = ResultType[o.op]

EventHolds(tr, ev) ==
  /\ ev.root.generation <= generation
  /\ ev.root.generation = generation =>
       /\ IsLive(ev.root)
       /\ ev.by[1] = "value" => ev.by[2] \in defined
  /\ ev.by[1] = "scratch" => ev.by[2] \in DOMAIN tr.ops

SessionHolds(x, tr) ==
  /\ \A i \in DOMAIN tr.ops : OperationHolds(x, i, tr.ops[i])
  /\ \A e \in DOMAIN tr.events : EventHolds(tr, tr.events[e])

SessionsHold == \A x \in Tx : SessionHolds(x, sessions[x])

(***************************************************************************)
(* A commit that is under way: what it interned are e-classes of the types *)
(* of the operations; until it unites the graph only gained e-classes, and *)
(* it only unites for a transaction that ought to be committed.            *)
(***************************************************************************)
Ours(v) == v[1] \in {"value", "scratch"}

InternedHolds ==
  \A i \in DOMAIN interned :
    LET o == sessions[active].ops[i] IN
    /\ i \in DOMAIN sessions[active].ops /\ o.op \in Op
    /\ \A a \in DOMAIN o.args : Ours(o.args[a])
    /\ interned[i] \in Symbol
    /\ stage = "intern" => interned[i] \in defined /\ TypeOf[interned[i]] = o.type

CommitHolds ==
  /\ active \in Tx => InternedHolds
  /\ stage = "intern" =>
       /\ pc = "idle"
       /\ before.sound <=> Sound(active)
       /\ parent = before.parent
       /\ before.defined \subseteq defined
       /\ \A s \in before.defined : terms[s] = before.terms[s]
  /\ stage \in {"union", "rebuild"} => before.sound

\* The values an event equates.
Root(e) == sessions[active].events[e].root.owner

Replacement(e) ==
  LET by == sessions[active].events[e].by
  IN  IF by[1] = "value" THEN by[2] ELSE interned[by[2]]

\* Two values are in one class, or a pair that waits will unite their classes.
WillUnite(l, r) ==
  \/ Leader[l] = Leader[r]
  \/ \E w \in work : \/ Leader[w[1]] = Leader[l] /\ Leader[w[2]] = Leader[r]
                     \/ Leader[w[1]] = Leader[r] /\ Leader[w[2]] = Leader[l]

(***************************************************************************)
(* The union of a commit: every event is united or about to be; the commit *)
(* counts as a change exactly when some event equates what was not equal;  *)
(* and a rebuild that is over has left the graph settled.                  *)
(***************************************************************************)
Events == DOMAIN sessions[active].events

News ==
  \E e \in Events :
    FindLeader(before.parent)[Root(e)] # FindLeader(before.parent)[Replacement(e)]

UnionHolds ==
  /\ stage \in {"union", "rebuild"} =>
       /\ \A e \in Events : /\ Root(e) \in Symbol /\ Replacement(e) \in Symbol
                            /\ WillUnite(Root(e), Replacement(e))
       /\ united <=> News
       /\ pc = "idle" => work = {}
  /\ stage = "union" => pc \in {"union", "idle"}
  /\ stage = "union" /\ ~united =>
       parent = before.parent /\ \A w \in work : Leader[w[1]] = Leader[w[2]]
  /\ stage = "rebuild" =>
       /\ pc \in {"collide", "idle"} /\ united
       /\ \A e \in Events : Leader[Root(e)] = Leader[Replacement(e)]
       /\ pc = "idle" => touched = {} /\ Settled
-----------------------------------------------------------------------------
\* The values a client has at hand, and the roots it may name.
LEMMA OperandsAreValues ==
  ASSUME TypeOK, TxTypeOK, NEW x \in Tx
  PROVE  Operands(x) \subseteq Value /\ Lent(x) \subseteq Value
<1>1. \A y \in Tx : DOMAIN sessions[y].ops \subseteq Nat
  <2> SUFFICES ASSUME NEW y \in Tx PROVE DOMAIN sessions[y].ops \subseteq Nat
    OBVIOUS
  <2>1. sessions[y].ops \in Seq(Operation)
    BY DEF TxTypeOK
  <2> QED BY <2>1
<1>2. defined \subseteq Symbol
  BY DEF TypeOK
<1>3. Operands(x) \subseteq Value
  BY <1>1, <1>2 DEF Operands, Value
<1>4. Lent(x) \subseteq Value
  BY <1>1 DEF Lent, Value
<1> QED BY <1>3, <1>4

\* A live reference is to a candidate that its e-class has now.
LEMMA LiveRefsAreRoots ==
  ASSUME TypeOK, generation \in Nat, NEW root \in LiveRefs
  PROVE  /\ root \in [owner : Symbol, term : Term, generation : Nat]
         /\ root.owner \in defined /\ root.term \in terms[root.owner]
         /\ root.generation = generation
<1>1. PICK s \in defined : \E t \in terms[s] : root = Ref(s, t)
  BY DEF LiveRefs
<1>a. PICK t \in terms[s] : root = Ref(s, t)
  BY <1>1
<1>2. s \in Symbol /\ t \in Term
  BY DEF TypeOK
<1> QED BY <1>a, <1>2 DEF Ref

\* Ending a transaction.
LEMMA EndType ==
  ASSUME TxTypeOK, NEW x \in Tx, NEW how \in {"failed", "unchanged", "changed", "discarded"}, End(x, how)
  PROVE  /\ sessions' \in [Tx -> [ops : Seq(Operation), events : Seq(Event)]]
         /\ \A y \in Tx : Len(sessions'[y].events) <= MaxEvents
         /\ outcome' \in [Tx -> {"open", "failed", "unchanged", "changed", "discarded"}]
         /\ \A y \in Tx \ {x} : sessions'[y] = sessions[y] /\ outcome'[y] = outcome[y]
         /\ sessions'[x] = Empty
<1>1. Empty \in [ops : Seq(Operation), events : Seq(Event)] /\ Len(Empty.events) = 0
  BY DEF Empty
<1>2. 0 <= MaxEvents
  BY TransactionsOK, ConstantsOK
<1> QED BY <1>1, <1>2 DEF End, TxTypeOK

\* The type invariant.
LEMMA TxTypeNext ==
  ASSUME TypeOK, TxTypeOK, [TxNext]_allVars
  PROVE  TxTypeOK'
<1> USE TransactionsOK
<1>0. CASE UNCHANGED allVars
  BY <1>0 DEF allVars, txVars, commitVars, TxTypeOK
<1>1. ASSUME NEW x \in Tx, NEW shape \in Built, NEW args \in [1..shape.arity -> Operands(x)],
             Build(x, shape, args)
      PROVE  TxTypeOK'
  <2> DEFINE op == [op |-> shape.op, type |-> shape.type, args |-> args, made |-> generation]
  <2>1. op \in Operation
    <3>1. args \in [1..shape.arity -> Value]
      BY OperandsAreValues
    <3> QED BY <3>1 DEF Lists, Operation, TxTypeOK
  <2>2. /\ sessions' = [sessions EXCEPT ![x].ops = Append(sessions[x].ops, op)]
        /\ UNCHANGED <<generation, outcome, active, stage>> /\ active = Nobody
    BY <1>1 DEF Build, commitVars, Quiet
  <2> HIDE DEF op
  <2>3. Append(sessions[x].ops, op) \in Seq(Operation)
    BY <2>1 DEF TxTypeOK
  <2> QED BY <2>2, <2>3 DEF TxTypeOK
<1>2. ASSUME NEW x \in Tx, NEW root \in LiveRefs, NEW by \in Operands(x) \cup Lent(x),
             Record(x, root, by)
      PROVE  TxTypeOK'
  <2>1. [root |-> root, by |-> by] \in Event
    <3>1. by \in Value
      BY OperandsAreValues
    <3> QED BY <3>1, LiveRefsAreRoots DEF Event, TxTypeOK
  <2> DEFINE ev == [root |-> root, by |-> by]
  <2>2. /\ sessions' = [sessions EXCEPT ![x].events = Append(sessions[x].events, ev)]
        /\ UNCHANGED <<generation, outcome, active, stage>> /\ active = Nobody
        /\ Len(sessions[x].events) < MaxEvents
    BY <1>2 DEF Record, commitVars, Quiet
  <2>3. ev \in Event
    BY <2>1
  <2> HIDE DEF ev
  <2>4. /\ Append(sessions[x].events, ev) \in Seq(Event)
        /\ Len(Append(sessions[x].events, ev)) = Len(sessions[x].events) + 1
        /\ Len(sessions[x].events) \in Nat
    BY <2>3 DEF TxTypeOK
  <2>5. MaxEvents \in Nat
    BY ConstantsOK
  <2>6. sessions' \in [Tx -> [ops : Seq(Operation), events : Seq(Event)]]
    BY <2>2, <2>4 DEF TxTypeOK
  <2>7. \A y \in Tx : /\ y # x => sessions'[y] = sessions[y]
                      /\ y = x => sessions'[y].events = Append(sessions[x].events, ev)
    BY <2>2 DEF TxTypeOK
  <2>8. \A y \in Tx : Len(sessions'[y].events) <= MaxEvents
    BY <2>2, <2>4, <2>5, <2>7 DEF TxTypeOK
  <2> QED BY <2>2, <2>6, <2>8 DEF TxTypeOK
<1>3. ASSUME NEW x \in Tx, Discard(x) \/ BeginNothing(x)
      PROVE  TxTypeOK'
  <2>1. PICK how \in {"failed", "unchanged", "discarded"} : End(x, how)
    BY <1>3 DEF Discard, BeginNothing
  <2>2. UNCHANGED <<generation, active, stage>> /\ active = Nobody
    BY <1>3 DEF Discard, BeginNothing, Quiet, commitVars
  <2> QED BY <2>1, <2>2, EndType DEF TxTypeOK
<1>4. ASSUME NEW x \in Tx, NEW b \in BOOLEAN, Begin(x, b)
      PROVE  TxTypeOK'
  BY <1>4 DEF Begin, txVars, TxTypeOK
<1>5. CASE ClientCall
  BY <1>5 DEF ClientCall, Reindexed, commitVars, TxTypeOK
<1>6. CASE CommitIntern \/ CommitUnion \/ Unite \/ CommitRebuild
  BY <1>6 DEF CommitIntern, CommitUnion, Unite, CommitRebuild, Reindexed, txVars, commitVars, TxTypeOK
<1>7. CASE CommitFails \/ Settle \/ CommitReturns
  <2>1. PICK how \in {"failed", "unchanged", "changed"} : Return(how)
    BY <1>7 DEF CommitFails, Settle, CommitReturns
  <2>2. active \in Tx
    BY <1>7 DEF CommitFails, Settle, CommitReturns, TxTypeOK
  <2>3. End(active, how) /\ active' = Nobody /\ stage' = "none" /\ UNCHANGED generation
    BY <2>1 DEF Return
  <2> QED BY <2>2, <2>3, EndType DEF TxTypeOK
<1> QED
  BY <1>0, <1>1, <1>2, <1>3, <1>4, <1>5, <1>6, <1>7
     DEF TxNext, Client, CommitStep, RecordEquivalence

\* Every step of a transaction or of a client is a step of the facade.
LEMMA TxStepRefines ==
  ASSUME TypeOK, TxTypeOK, [TxNext]_allVars
  PROVE  [Next]_vars
<1>0. CASE UNCHANGED allVars
  BY <1>0 DEF allVars
<1>1. CASE \/ \E x \in Tx, shape \in Built : \E args \in [1..shape.arity -> Operands(x)] :
                Build(x, shape, args)
           \/ \E x \in Tx, root \in LiveRefs : \E by \in Operands(x) \cup Lent(x) :
                Record(x, root, by) \/ RecordEquivalence(x, root, by)
           \/ \E x \in Tx : Discard(x) \/ BeginNothing(x) \/ \E b \in BOOLEAN : Begin(x, b)
  BY <1>1 DEF Build, Record, RecordEquivalence, Discard, BeginNothing, Begin
<1>2. CASE ClientCall
  <2>1. ASSUME NEW s \in Known \cap defined, NEW t \in Known \cap defined, UnionValueTuples({<<s, t>>})
        PROVE  Next
    <3> DEFINE pair == [e \in 1..1 |-> <<s, t>>]
    <3>1. {pair[e] : e \in 1..1} = {<<s, t>>}
      OBVIOUS
    <3>2. 1 \in 1..MaxPairs
      BY ConstantsOK
    <3>3. \A e \in 1..1 : pair[e] = <<pair[e][1], pair[e][2]>>
      OBVIOUS
    <3> HIDE DEF pair
    <3> QED BY <2>1, <3>1, <3>2, <3>3, PairsAreClientUnion
  <2> QED BY <1>2, <2>1 DEF ClientCall, Reindexed, Next
<1>3. CASE CommitIntern
  <2>1. PICK i \in Ready(sessions[active], interned), r \in Symbol :
          /\ sessions[active].ops[i].op \in Op
          /\ InternScratch(ScratchTerm(sessions[active], i, interned), r)
    BY <1>3 DEF CommitIntern
  <2>2. ScratchTerm(sessions[active], i, interned).op \in Op
    BY <2>1 DEF ScratchTerm
  <2> QED BY <2>1, <2>2, InternIsClientIntern DEF InternScratch
<1>4. CASE CommitUnion
  <2> DEFINE tr == sessions[active]
             n  == Len(tr.events)
             pair == [e \in 1..n |-> <<tr.events[e].root.owner, Resolve(tr.events[e].by, interned)>>]
  <2>1. tr.events \in Seq(Event) /\ n <= MaxEvents /\ tr.events # <<>>
    BY <1>4 DEF CommitUnion, TxTypeOK
  <2>2. n \in 1..MaxPairs /\ DOMAIN tr.events = 1..n
    BY <2>1, TransactionsOK, ConstantsOK
  <2>3. EventPairs(tr, interned) = {pair[e] : e \in 1..n}
    BY <2>2 DEF EventPairs
  <2>4. UnionValueTuples(EventPairs(tr, interned))
    BY <1>4 DEF CommitUnion
  <2>5. \A e \in 1..n : pair[e] = <<pair[e][1], pair[e][2]>>
    OBVIOUS
  <2> HIDE DEF pair, n, tr
  <2> QED BY <2>2, <2>3, <2>4, <2>5, PairsAreClientUnion
<1>5. CASE Unite
  BY <1>5 DEF Unite, Next
<1>6. CASE CommitRebuild
  BY <1>6 DEF CommitRebuild, Reindexed, Next
<1>7. CASE CommitFails \/ Settle \/ CommitReturns
  BY <1>7 DEF CommitFails, Settle, CommitReturns, Return
<1> QED
  BY <1>0, <1>1, <1>2, <1>3, <1>4, <1>5, <1>6, <1>7 DEF TxNext, Client, CommitStep

\* The initial states.
LEMMA TxInitType == TxInit => Init /\ TxTypeOK
<1>1. Empty \in [ops : Seq(Operation), events : Seq(Event)] /\ Len(Empty.events) = 0
  BY DEF Empty
<1> QED BY <1>1, TransactionsOK, ConstantsOK DEF TxInit, TxTypeOK

(***************************************************************************)
(* Transactions are clients of the facade like any other, however many are *)
(* open and however their steps interleave.                                *)
(***************************************************************************)
THEOREM TransactionsUseFacade == TxSpec => UsesFacade
<1>1. TxInit => Init /\ Inv /\ TxTypeOK
  BY TxInitType, InitInv
<1>2. ASSUME Inv, TxTypeOK, [TxNext]_allVars
      PROVE  Inv' /\ TxTypeOK' /\ [Next]_vars
  BY <1>2, TxStepRefines, TxTypeNext, NextInv DEF Inv
<1> QED BY <1>1, <1>2, PTL DEF TxSpec, UsesFacade, Spec

-----------------------------------------------------------------------------
\* Sessions.

\* Steps that keep the generation and the candidates there are keep refs live.
LEMMA GrowthKeepsRefs ==
  ASSUME generation' = generation, defined \subseteq defined',
         \A s \in defined : terms[s] \subseteq terms'[s]
  PROVE  LiveRefs \subseteq LiveRefs'
<1>1. ASSUME NEW s \in defined, NEW t \in terms[s]
      PROVE  Ref(s, t) \in LiveRefs'
  BY DEF LiveRefs, Ref
<1> QED BY <1>1 DEF LiveRefs

\* While the generation stays a session loses nothing.
LEMMA SessionStays ==
  ASSUME NEW x \in Tx, SessionHolds(x, sessions[x]), sessions'[x] = sessions[x],
         generation' = generation, defined \subseteq defined', LiveRefs \subseteq LiveRefs',
         \A i \in DOMAIN sessions[x].ops : <<x, i>> \in registered' <=> <<x, i>> \in registered
  PROVE  SessionHolds(x, sessions[x])'
<1> DEFINE tr == sessions[x]
<1>1. ASSUME NEW i \in DOMAIN tr.ops
      PROVE  OperationHolds(x, i, tr.ops[i])'
  <2>1. OperationHolds(x, i, tr.ops[i])
    BY DEF SessionHolds
  <2> QED BY <2>1 DEF OperationHolds
<1>2. ASSUME NEW e \in DOMAIN tr.events
      PROVE  EventHolds(tr, tr.events[e])'
  <2>1. EventHolds(tr, tr.events[e])
    BY DEF SessionHolds
  <2> QED BY <2>1 DEF EventHolds, IsLive
<1> QED BY <1>1, <1>2 DEF SessionHolds

\* When a rebuild indexes the graph, all of a session is of an earlier generation.
LEMMA SessionAges ==
  ASSUME TxTypeOK, NEW x \in Tx, SessionHolds(x, sessions[x]), sessions'[x] = sessions[x],
         generation' = generation + 1, registered' = {}
  PROVE  SessionHolds(x, sessions[x])'
<1> DEFINE tr == sessions[x]
<1>0. tr.ops \in Seq(Operation) /\ tr.events \in Seq(Event) /\ generation \in Nat
  BY DEF TxTypeOK
<1>1. ASSUME NEW i \in DOMAIN tr.ops
      PROVE  OperationHolds(x, i, tr.ops[i])'
  <2>1. OperationHolds(x, i, tr.ops[i])
    BY DEF SessionHolds
  <2>a. tr.ops[i] \in Operation
    BY <1>0
  <2>2. tr.ops[i].made \in Nat
    BY <2>a DEF Operation
  <2>3. tr.ops[i].made <= generation + 1 /\ tr.ops[i].made # generation + 1
    BY <1>0, <2>1, <2>2 DEF OperationHolds
  <2> QED BY <2>1, <2>3 DEF OperationHolds
<1>2. ASSUME NEW e \in DOMAIN tr.events
      PROVE  EventHolds(tr, tr.events[e])'
  <2>1. EventHolds(tr, tr.events[e])
    BY DEF SessionHolds
  <2>a. tr.events[e] \in Event
    BY <1>0
  <2>2. tr.events[e].root.generation \in Nat
    BY <2>a DEF Event
  <2>3. /\ tr.events[e].root.generation <= generation + 1
        /\ tr.events[e].root.generation # generation + 1
    BY <1>0, <2>1, <2>2 DEF EventHolds
  <2> QED BY <2>1, <2>3 DEF EventHolds
<1> QED BY <1>1, <1>2 DEF SessionHolds

\* What a client has at hand belongs to the graph and the transaction as they are.
LEMMA OperandsHold ==
  ASSUME NEW x \in Tx, NEW v \in Operands(x) \cup Lent(x)
  PROVE  /\ v[1] = "value" => v[2] \in defined
         /\ v[1] = "scratch" => v[2] \in DOMAIN sessions[x].ops
BY DEF Operands, Lent

\* A new scratch operation is registered, and uses what was at hand.
LEMMA BuildHolds ==
  ASSUME TxTypeOK, NEW x \in Tx, SessionHolds(x, sessions[x]),
         NEW shape \in Built, NEW args \in [1..shape.arity -> Operands(x)], Build(x, shape, args)
  PROVE  SessionHolds(x, sessions[x])'
<1> DEFINE tr == sessions[x]
           op == [op |-> shape.op, type |-> shape.type, args |-> args, made |-> generation]
<1>a. PICK n \in Nat : n = Len(tr.ops)
  BY DEF TxTypeOK
<1>0. tr.ops \in Seq(Operation) /\ generation \in Nat /\ DOMAIN tr.ops = 1..n
  BY <1>a DEF TxTypeOK
<1>1. /\ sessions'[x].ops = Append(tr.ops, op)
      /\ sessions'[x].events = tr.events
      /\ registered' = registered \cup {<<x, n + 1>>}
      /\ UNCHANGED <<generation, defined, terms>>
  BY <1>a DEF Build, TxTypeOK, vars
<1>2. /\ DOMAIN sessions'[x].ops = 1..(n+1)
      /\ \A i \in 1..n : sessions'[x].ops[i] = tr.ops[i]
      /\ sessions'[x].ops[n+1] = op
  <2> DEFINE U == {tr.ops[i] : i \in 1..n} \cup {op}
  <2>1. tr.ops \in Seq(U) /\ op \in U
    <3>1. tr.ops \in [1..n -> U]
      BY <1>0
    <3> QED BY <1>0, <3>1
  <2> HIDE DEF U, op
  <2> QED BY <1>0, <1>1, <2>1
<1>3. ASSUME NEW i \in 1..n
      PROVE  OperationHolds(x, i, sessions[x].ops[i])'
  <2>1. OperationHolds(x, i, tr.ops[i])
    BY <1>0 DEF SessionHolds
  <2>2. <<x, i>> \in registered' <=> <<x, i>> \in registered
    BY <1>0, <1>1
  <2> QED BY <1>1, <1>2, <2>1, <2>2 DEF OperationHolds
<1>4. OperationHolds(x, n + 1, sessions[x].ops[n + 1])'
  <2>1. \A a \in DOMAIN args : args[a][1] = "value" => args[a][2] \in defined
    BY OperandsHold
  <2>2. shape.op \in Op => shape.type = ResultType[shape.op]
    BY TransactionsOK
  <2> QED BY <1>0, <1>1, <1>2, <2>1, <2>2 DEF OperationHolds
<1>5. ASSUME NEW e \in DOMAIN tr.events
      PROVE  EventHolds(tr, tr.events[e])'
  <2>1. EventHolds(tr, tr.events[e])
    BY DEF SessionHolds
  <2>2. LiveRefs' = LiveRefs
    BY <1>1 DEF LiveRefs, Ref
  <2>3. DOMAIN tr.ops \subseteq DOMAIN sessions'[x].ops
    BY <1>0, <1>2
  <2> QED BY <1>1, <2>1, <2>2, <2>3 DEF EventHolds, IsLive
<1>6. \A i \in DOMAIN sessions'[x].ops : i \in 1..n \/ i = n + 1
  BY <1>0, <1>2
<1> HIDE DEF op
<1> QED BY <1>1, <1>3, <1>4, <1>5, <1>6 DEF SessionHolds

\* What is recorded is live and at hand when it is recorded.
LEMMA RecordHolds ==
  ASSUME TypeOK, TxTypeOK, NEW x \in Tx, SessionHolds(x, sessions[x]),
         NEW root \in LiveRefs, NEW by \in Operands(x) \cup Lent(x), Record(x, root, by)
  PROVE  SessionHolds(x, sessions[x])'
<1> DEFINE tr == sessions[x]
           ev == [root |-> root, by |-> by]
<1>a. PICK n \in Nat : n = Len(tr.events)
  BY DEF TxTypeOK
<1>0. tr.events \in Seq(Event) /\ generation \in Nat /\ DOMAIN tr.events = 1..n
  BY <1>a DEF TxTypeOK
<1>1. /\ sessions'[x].events = Append(tr.events, ev)
      /\ sessions'[x].ops = tr.ops
      /\ UNCHANGED <<generation, defined, terms, registered>>
  BY DEF Record, TxTypeOK, vars
<1>2. /\ DOMAIN sessions'[x].events = 1..(n+1)
      /\ \A i \in 1..n : sessions'[x].events[i] = tr.events[i]
      /\ sessions'[x].events[n+1] = ev
  <2> DEFINE U == {tr.events[i] : i \in 1..n} \cup {ev}
  <2>1. tr.events \in Seq(U) /\ ev \in U
    <3>1. tr.events \in [1..n -> U]
      BY <1>0
    <3> QED BY <1>0, <3>1
  <2> HIDE DEF U, ev
  <2> QED BY <1>0, <1>1, <2>1
<1>3. LiveRefs' = LiveRefs
  BY <1>1 DEF LiveRefs, Ref
<1>4. ASSUME NEW i \in DOMAIN tr.ops
      PROVE  OperationHolds(x, i, tr.ops[i])'
  <2>1. OperationHolds(x, i, tr.ops[i])
    BY DEF SessionHolds
  <2> QED BY <1>1, <2>1 DEF OperationHolds
<1>5. ASSUME NEW e \in 1..n
      PROVE  EventHolds(sessions[x], sessions[x].events[e])'
  <2>1. EventHolds(tr, tr.events[e])
    BY <1>0 DEF SessionHolds
  <2> QED BY <1>1, <1>2, <1>3, <2>1 DEF EventHolds, IsLive
<1>6. EventHolds(sessions[x], sessions[x].events[n + 1])'
  <2>1. root.generation = generation
    BY <1>0, LiveRefsAreRoots
  <2>2. /\ by[1] = "value" => by[2] \in defined
        /\ by[1] = "scratch" => by[2] \in DOMAIN tr.ops
    BY OperandsHold
  <2> QED BY <1>0, <1>1, <1>2, <1>3, <2>1, <2>2 DEF EventHolds, IsLive
<1>7. \A e \in DOMAIN sessions'[x].events : e \in 1..n \/ e = n + 1
  BY <1>0, <1>2
<1> HIDE DEF ev
<1> QED BY <1>1, <1>4, <1>5, <1>6, <1>7 DEF SessionHolds

\* Every step keeps what sessions rely on.
LEMMA SessionsNext ==
  ASSUME TypeOK, TxTypeOK, SessionsHold, [TxNext]_allVars
  PROVE  SessionsHold'
<1>a. ASSUME UNCHANGED <<sessions, generation, registered>>, defined \subseteq defined',
             \A s \in defined : terms[s] \subseteq terms'[s]
      PROVE  SessionsHold'
  <2>1. LiveRefs \subseteq LiveRefs'
    BY <1>a, GrowthKeepsRefs
  <2> QED BY <1>a, <2>1, SessionStays DEF SessionsHold
<1>b. ASSUME NEW x \in Tx, NEW how, End(x, how), UNCHANGED <<vars, generation>>
      PROVE  SessionsHold'
  <2>1. LiveRefs' = LiveRefs /\ UNCHANGED <<generation, defined>>
    BY <1>b DEF LiveRefs, Ref, vars
  <2>2. ASSUME NEW y \in Tx, y # x
        PROVE  SessionHolds(y, sessions[y])'
    <3>1. sessions'[y] = sessions[y]
      BY <1>b, <2>2 DEF End, TxTypeOK
    <3>2. \A i : <<y, i>> \in registered' <=> <<y, i>> \in registered
      BY <1>b, <2>2 DEF End, Discarded, Scratch
    <3>3. SessionHolds(y, sessions[y])
      BY DEF SessionsHold
    <3> QED BY <2>1, <3>1, <3>2, <3>3, SessionStays
  <2>3. SessionHolds(x, sessions[x])'
    <3>1. sessions'[x] = Empty
      BY <1>b DEF End, TxTypeOK
    <3> QED BY <3>1 DEF Empty, SessionHolds
  <2> QED BY <2>2, <2>3 DEF SessionsHold
<1>c. ASSUME NEW x \in Tx, SessionHolds(x, sessions[x])', UNCHANGED <<vars, generation>>,
             \A y \in Tx \ {x} : sessions'[y] = sessions[y],
             \A y \in Tx \ {x} : \A i : <<y, i>> \in registered' <=> <<y, i>> \in registered
      PROVE  SessionsHold'
  <2>1. LiveRefs' = LiveRefs /\ UNCHANGED <<generation, defined>>
    BY <1>c DEF LiveRefs, Ref, vars
  <2>2. ASSUME NEW y \in Tx \ {x}
        PROVE  SessionHolds(y, sessions[y])'
    <3>1. SessionHolds(y, sessions[y])
      BY DEF SessionsHold
    <3> QED BY <1>c, <2>1, <3>1, SessionStays
  <2> QED BY <1>c, <2>2 DEF SessionsHold
<1>d. ASSUME Reindexed, UNCHANGED sessions
      PROVE  SessionsHold'
  <2>1. generation' = generation + 1 /\ registered' = {}
    BY <1>d DEF Reindexed, Cleared
  <2> QED BY <1>d, <2>1, SessionAges DEF SessionsHold
<1>0. CASE UNCHANGED allVars
  BY <1>0, <1>a DEF allVars, txVars, vars
<1>1. ASSUME NEW x \in Tx, NEW shape \in Built, NEW args \in [1..shape.arity -> Operands(x)],
             Build(x, shape, args)
      PROVE  SessionsHold'
  <2>1. SessionHolds(x, sessions[x])'
    BY <1>1, BuildHolds DEF SessionsHold
  <2>2. \A y \in Tx \ {x} : sessions'[y] = sessions[y]
    BY <1>1 DEF Build, TxTypeOK
  <2>3. \A y \in Tx \ {x} : \A i : <<y, i>> \in registered' <=> <<y, i>> \in registered
    BY <1>1 DEF Build
  <2>4. UNCHANGED <<vars, generation>>
    BY <1>1 DEF Build
  <2> QED BY <1>c, <2>1, <2>2, <2>3, <2>4
<1>2. ASSUME NEW x \in Tx, NEW root \in LiveRefs, NEW by \in Operands(x) \cup Lent(x),
             Record(x, root, by)
      PROVE  SessionsHold'
  <2>1. SessionHolds(x, sessions[x])'
    BY <1>2, RecordHolds DEF SessionsHold
  <2>2. \A y \in Tx \ {x} : sessions'[y] = sessions[y]
    BY <1>2 DEF Record, TxTypeOK
  <2>3. UNCHANGED <<vars, generation>> /\ registered' = registered
    BY <1>2 DEF Record
  <2> QED BY <1>c, <2>1, <2>2, <2>3
<1>3. ASSUME NEW x \in Tx, Discard(x) \/ BeginNothing(x)
      PROVE  SessionsHold'
  BY <1>3, <1>b DEF Discard, BeginNothing
<1>4. ASSUME NEW x \in Tx, NEW b \in BOOLEAN, Begin(x, b)
      PROVE  SessionsHold'
  BY <1>4, <1>a DEF Begin, txVars, vars
<1>5. CASE ClientCall
  <2>1. CASE Reindexed
    BY <1>5, <1>d, <2>1 DEF ClientCall
  <2>2. CASE /\ \/ \E s, t \in Known \cap defined : UnionValueTuples({<<s, t>>})
                \/ \E p \in work : UnionLeaderSymbols(p)
             /\ UNCHANGED <<generation, registered>>
    BY <1>5, <1>a, <2>2 DEF ClientCall, UnionValueTuples, UnionLeaderSymbols, ir
  <2> QED BY <1>5, <2>1, <2>2 DEF ClientCall
<1>6. CASE CommitIntern
  <2>1. PICK i \in Ready(sessions[active], interned), r \in Symbol :
          InternScratch(ScratchTerm(sessions[active], i, interned), r)
    BY <1>6 DEF CommitIntern
  <2>2. UNCHANGED <<sessions, generation, registered>>
    BY <1>6 DEF CommitIntern, txVars
  <2>3. defined \subseteq defined' /\ \A s \in defined : terms[s] \subseteq terms'[s]
    BY <2>1, InternGrows DEF InternScratch, vars
  <2> QED BY <1>a, <2>2, <2>3
<1>7. CASE CommitUnion \/ Unite
  <2>1. UNCHANGED <<sessions, generation, registered, defined, terms>>
    BY <1>7 DEF CommitUnion, Unite, txVars, UnionValueTuples, UnionLeaderSymbols, ir
  <2> QED BY <1>a, <2>1
<1>8. CASE CommitRebuild
  BY <1>8, <1>d DEF CommitRebuild
<1>9. CASE CommitFails \/ Settle \/ CommitReturns
  <2>1. PICK how : Return(how)
    BY <1>9 DEF CommitFails, Settle, CommitReturns
  <2>2. active \in Tx
    BY <1>9 DEF CommitFails, Settle, CommitReturns, TxTypeOK
  <2> QED BY <1>b, <2>1, <2>2 DEF Return
<1> QED
  BY <1>0, <1>1, <1>2, <1>3, <1>4, <1>5, <1>6, <1>7, <1>8, <1>9
     DEF TxNext, Client, CommitStep, RecordEquivalence

\* What intern returns, a hit or a miss, is an e-class of the type of the operation.
LEMMA InternScratchResult ==
  ASSUME Inv, HashConsSound, TableDefined, NEW t, NEW r \in Symbol, t.op \in Op, InternScratch(t, r)
  PROVE  /\ r \in defined' /\ TypeOf[r] = ResultType[t.op]
         /\ defined \subseteq defined' /\ \A s \in defined : terms'[s] = terms[s]
         /\ UNCHANGED <<parent, pc, work, touched>>
<1>1. CASE Canon(Leader, t) \in DOMAIN hashcons
  <2>1. r = hashcons[Canon(Leader, t)] /\ UNCHANGED vars
    BY <1>1 DEF InternScratch
  <2> QED BY <1>1, <2>1, HitIsTyped DEF vars, Canon
<1>2. CASE Canon(Leader, t) \notin DOMAIN hashcons
  BY <1>2, InternReturns DEF InternScratch
<1> QED BY <1>1, <1>2

-----------------------------------------------------------------------------
(***************************************************************************)
(* A commit that gets to unite is one that ought to: what the checks of    *)
(* commit let through is of this generation, because EGraphIndex::clear    *)
(* forgets the older operations and roots.                                 *)
(***************************************************************************)
LEMMA CommittedIsSound ==
  ASSUME TxTypeOK, SessionsHold, InternedHolds, active \in Tx,
         Valid(active), Collectable(active), ~Blocked(active),
         Reachable(sessions[active]) \subseteq DOMAIN interned
  PROVE  Sound(active)
<1> DEFINE tr == sessions[active]
<1>0. tr.events \in Seq(Event) /\ SessionHolds(active, tr)
  BY DEF TxTypeOK, SessionsHold
<1>1. ASSUME NEW e \in DOMAIN tr.events
      PROVE  /\ tr.events[e].root.generation = generation
             /\ tr.events[e].by[1] \in {"value", "scratch"}
             /\ TypeOfValue(tr, tr.events[e].by) = ResultType[tr.events[e].root.term.op]
  <2>1. /\ IsLive(tr.events[e].root) /\ tr.events[e].by[1] # "other"
        /\ TypeOfValue(tr, tr.events[e].by) = ResultType[tr.events[e].root.term.op]
    BY DEF Valid
  <2>2. tr.events[e].root.generation = generation
    BY <2>1 DEF IsLive, LiveRefs, Ref
  <2>3. tr.events[e].by[1] # "alien"
    BY DEF Blocked
  <2>4. tr.events[e] \in Event
    BY <1>0
  <2>5. tr.events[e].by[1] \in {"value", "scratch", "alien", "other"}
    BY <2>4 DEF Event, Value
  <2> QED BY <2>1, <2>2, <2>3, <2>5
<1>2. ASSUME NEW i \in Reachable(tr)
      PROVE  /\ tr.ops[i].made = generation
             /\ tr.ops[i].op \in Op
             /\ \A a \in DOMAIN tr.ops[i].args : tr.ops[i].args[a][1] \in {"value", "scratch"}
  <2>1. i \in DOMAIN tr.ops /\ <<active, i>> \in registered
    BY DEF Collectable, Reachable
  <2>2. OperationHolds(active, i, tr.ops[i])
    BY <1>0, <2>1 DEF SessionHolds
  <2> QED BY <2>1, <2>2 DEF InternedHolds, OperationHolds, Ours
<1> HIDE DEF tr
<1>3. /\ \A e \in DOMAIN tr.events :
           /\ tr.events[e].root.generation = generation
           /\ tr.events[e].by[1] \in {"value", "scratch"}
           /\ TypeOfValue(tr, tr.events[e].by) = ResultType[tr.events[e].root.term.op]
      /\ \A i \in Reachable(tr) :
           /\ tr.ops[i].made = generation
           /\ tr.ops[i].op \in Op
           /\ \A a \in DOMAIN tr.ops[i].args : tr.ops[i].args[a][1] \in {"value", "scratch"}
  BY <1>1, <1>2
<1> QED BY <1>3 DEF Sound, tr

(***************************************************************************)
(* And a commit that ought to succeed is refused nowhere: its roots are    *)
(* live, its operations registered, the values in the block, and what it   *)
(* interned can be united with the roots.                                  *)
(***************************************************************************)
LEMMA SoundIsCommitted ==
  ASSUME Inv, TxTypeOK, SessionsHold, CommitHolds, stage = "intern", Sound(active)
  PROVE  /\ Valid(active) /\ Collectable(active) /\ ~Blocked(active)
         /\ Reachable(sessions[active]) \subseteq DOMAIN interned =>
              \A p \in EventPairs(sessions[active], interned) : CanUnite(Leader, p[1], p[2])
<1> DEFINE tr == sessions[active]
<1>0. /\ tr.events \in Seq(Event) /\ active \in Tx /\ SessionHolds(active, tr)
      /\ InternedHolds /\ generation \in Nat
  BY DEF TxTypeOK, SessionsHold, CommitHolds
<1>1. ASSUME NEW e \in DOMAIN tr.events
      PROVE  /\ IsLive(tr.events[e].root)
             /\ tr.events[e].by[1] \in {"value", "scratch"}
             /\ tr.events[e].by[1] = "value" => tr.events[e].by[2] \in defined
             /\ tr.events[e].by[1] = "scratch" =>
                  /\ tr.events[e].by = <<"scratch", tr.events[e].by[2]>>
                  /\ tr.events[e].by[2] \in Reachable(tr)
             /\ TypeOfValue(tr, tr.events[e].by) = ResultType[tr.events[e].root.term.op]
             /\ TypeOfValue(tr, tr.events[e].by) = ValueType(tr, tr.events[e].by)
  <2> DEFINE by == tr.events[e].by
  <2>1. EventHolds(tr, tr.events[e])
    BY <1>0 DEF SessionHolds
  <2>2. /\ tr.events[e].root.generation = generation /\ by[1] \in {"value", "scratch"}
        /\ TypeOfValue(tr, by) = ResultType[tr.events[e].root.term.op]
    BY DEF Sound
  <2>3. tr.events[e] \in Event
    BY <1>0
  <2>4. by[1] = "scratch" => by = <<"scratch", by[2]>>
    BY <2>3 DEF Event, Value
  <2>5. ASSUME by[1] = "scratch" PROVE by[2] \in Reachable(tr)
    <3>1. by[2] \in DOMAIN tr.ops
      BY <2>1, <2>5 DEF EventHolds
    <3>2. by[2] \in Producers(tr, [d \in DOMAIN tr.events |-> tr.events[d].by])
      BY <2>4, <2>5, <3>1 DEF Producers
    <3> QED BY <3>1, <3>2 DEF Reachable, HoldsNeeds
  <2>6. TypeOfValue(tr, by) = ValueType(tr, by)
    BY <2>2 DEF TypeOfValue
  <2> QED BY <2>1, <2>2, <2>4, <2>5, <2>6 DEF EventHolds
<1>2. ASSUME NEW i \in Reachable(tr)
      PROVE  /\ <<active, i>> \in registered /\ tr.ops[i].op \in Op
             /\ i \in DOMAIN tr.ops
             /\ \A a \in DOMAIN tr.ops[i].args :
                  /\ tr.ops[i].args[a][1] \in {"value", "scratch"}
                  /\ tr.ops[i].args[a][1] = "value" => tr.ops[i].args[a][2] \in defined
             /\ tr.ops[i].type = ResultType[tr.ops[i].op]
  <2>1. i \in DOMAIN tr.ops
    BY DEF Reachable
  <2>2. OperationHolds(active, i, tr.ops[i])
    BY <1>0, <2>1 DEF SessionHolds
  <2>3. /\ tr.ops[i].made = generation /\ tr.ops[i].op \in Op
        /\ \A a \in DOMAIN tr.ops[i].args : tr.ops[i].args[a][1] \in {"value", "scratch"}
    BY DEF Sound
  <2> QED BY <2>1, <2>2, <2>3 DEF OperationHolds
<1>3. Valid(active)
  <2>1. \A e \in DOMAIN tr.events :
          /\ tr.events[e].by[1] = "scratch" => <<active, tr.events[e].by[2]>> \in registered
          /\ tr.events[e].by[1] # "other"
    BY <1>1, <1>2
  <2> QED BY <1>1, <2>1 DEF Valid
<1>4. Collectable(active)
  BY <1>2 DEF Collectable
<1>5. ~Blocked(active)
  <2>1. \A i \in Reachable(tr) :
          /\ tr.ops[i].op \in Op
          /\ \A a \in DOMAIN tr.ops[i].args : tr.ops[i].args[a][1] # "alien"
    BY <1>2
  <2>2. \A e \in DOMAIN tr.events : tr.events[e].by[1] # "alien"
    BY <1>1
  <2> QED BY <2>1, <2>2 DEF Blocked
<1>6. ASSUME Reachable(tr) \subseteq DOMAIN interned, NEW e \in DOMAIN tr.events
      PROVE  CanUnite(Leader, tr.events[e].root.owner, Resolve(tr.events[e].by, interned))
  <2> DEFINE root == tr.events[e].root
             by   == tr.events[e].by
             v    == Resolve(by, interned)
  <2>1. root.owner \in defined /\ root.term \in terms[root.owner]
    BY <1>0, <1>1, LiveRefsAreRoots DEF IsLive, Inv
  <2>2. root.owner \in Symbol /\ TypeOf[root.owner] = ResultType[root.term.op]
    BY <2>1 DEF Inv, TypeOK, IRVerifies
  <2>3. v \in Symbol /\ v \in defined /\ TypeOf[v] = ValueType(tr, by)
    <3>1. CASE by[1] = "value"
      <4>1. by[2] \in defined /\ by[2] \in Symbol
        BY <1>1, <3>1 DEF Inv, TypeOK
      <4>2. Leader[by[2]] \in defined /\ Leader[by[2]] \in Symbol
        BY <4>1, LeaderDefined, LeaderProps DEF Inv
      <4>3. TypeOf[Leader[by[2]]] = TypeOf[by[2]]
        BY <4>1 DEF Inv, LeadersSound
      <4> QED BY <3>1, <4>2, <4>3 DEF Resolve, ValueType
    <3>2. CASE by[1] = "scratch"
      <4>1. by[2] \in DOMAIN interned
        BY <1>1, <1>6, <3>2
      <4>2. /\ interned[by[2]] \in Symbol /\ interned[by[2]] \in defined
            /\ TypeOf[interned[by[2]]] = tr.ops[by[2]].type
        BY <1>0, <4>1 DEF InternedHolds
      <4> QED BY <3>2, <4>2 DEF Resolve, ValueType
    <3> QED BY <1>1, <3>1, <3>2
  <2>4. /\ Leader[root.owner] \in defined /\ Leader[v] \in defined
    BY <2>1, <2>3, LeaderDefined
  <2>5. TypeOf[Leader[root.owner]] = TypeOf[root.owner] /\ TypeOf[Leader[v]] = TypeOf[v]
    BY <2>2, <2>3 DEF Inv, LeadersSound
  <2>6. TypeOf[root.owner] = TypeOf[v]
    BY <1>1, <2>2, <2>3
  <2> HIDE DEF v, by, root
  <2>7. CanUnite(Leader, root.owner, v)
    BY <2>1, <2>3, <2>4, <2>5, <2>6 DEF CanUnite
  <2> QED BY <2>7 DEF v, by, root
<1>7. Reachable(tr) \subseteq DOMAIN interned =>
        \A p \in EventPairs(tr, interned) : CanUnite(Leader, p[1], p[2])
  BY <1>6 DEF EventPairs
<1> QED BY <1>3, <1>4, <1>5, <1>7

\* Every step keeps what is known of the commit that is under way.
LEMMA CommitNext ==
  ASSUME Inv, HashConsSound, TxTypeOK, SessionsHold, TableDefined, CommitHolds, [TxNext]_allVars
  PROVE  CommitHolds'
<1>a. ASSUME active' = Nobody, stage' = "none"
      PROVE  CommitHolds'
  BY <1>a, TransactionsOK DEF CommitHolds
<1>b. ASSUME UNCHANGED <<sessions, generation, active>>
      PROVE  Sound(active)' <=> Sound(active)
  BY <1>b DEF Sound, TypeOfValue
<1>0. CASE UNCHANGED allVars
  <2>1. UNCHANGED <<sessions, generation, active, interned, before, parent, defined, terms, pc, stage>>
    BY <1>0 DEF allVars, txVars, commitVars, vars
  <2>2. active \in Tx => InternedHolds'
    BY <2>1 DEF CommitHolds, InternedHolds
  <2> QED BY <1>b, <2>1, <2>2 DEF CommitHolds
<1>1. CASE \/ \E x \in Tx, shape \in Built : \E args \in [1..shape.arity -> Operands(x)] :
                Build(x, shape, args)
           \/ \E x \in Tx, root \in LiveRefs : \E by \in Operands(x) \cup Lent(x) :
                Record(x, root, by) \/ RecordEquivalence(x, root, by)
           \/ \E x \in Tx : Discard(x) \/ BeginNothing(x)
           \/ ClientCall
  <2>1. active = Nobody /\ UNCHANGED <<active, stage>>
    BY <1>1 DEF Build, Record, RecordEquivalence, Discard, BeginNothing, ClientCall, Quiet, commitVars
  <2>2. stage = "none"
    BY <2>1, TransactionsOK DEF TxTypeOK
  <2> QED BY <1>a, <2>1, <2>2
<1>2. ASSUME NEW x \in Tx, NEW b \in BOOLEAN, Begin(x, b)
      PROVE  CommitHolds'
  <2>1. /\ active' = x /\ interned' = <<>> /\ stage' = "intern" /\ pc = "idle"
        /\ before' = [parent |-> parent, defined |-> defined, terms |-> terms, sound |-> Sound(x)]
        /\ UNCHANGED <<parent, defined, terms, pc, generation, sessions>>
    BY <1>2 DEF Begin, Quiet, txVars, vars
  <2>2. Sound(active)' <=> Sound(x)
    BY <2>1 DEF Sound, TypeOfValue
  <2>3. InternedHolds'
    BY <2>1 DEF InternedHolds
  <2> QED BY <2>1, <2>2, <2>3 DEF CommitHolds
<1>3. CASE CommitIntern
  <2> DEFINE tr == sessions[active]
  <2>1. PICK i \in Ready(tr, interned), r \in Symbol :
          /\ tr.ops[i].op \in Op
          /\ InternScratch(ScratchTerm(tr, i, interned), r)
          /\ interned' = [j \in DOMAIN interned \cup {i} |-> IF j = i THEN r ELSE interned[j]]
    BY <1>3 DEF CommitIntern
  <2>2. UNCHANGED <<sessions, generation, active, stage, before>> /\ stage = "intern" /\ active \in Tx
    BY <1>3 DEF CommitIntern, txVars, TxTypeOK
  <2>3. ScratchTerm(tr, i, interned).op = tr.ops[i].op
    BY DEF ScratchTerm
  <2>4. /\ r \in defined' /\ TypeOf[r] = ResultType[tr.ops[i].op]
        /\ defined \subseteq defined' /\ \A s \in defined : terms'[s] = terms[s]
        /\ UNCHANGED <<parent, pc>>
    BY <2>1, <2>3, InternScratchResult
  <2>5. i \in DOMAIN tr.ops /\ \A a \in DOMAIN tr.ops[i].args : Ours(tr.ops[i].args[a])
    BY <2>1 DEF Ready, Reachable, IsResolved, Ours
  <2>6. OperationHolds(active, i, tr.ops[i])
    BY <2>2, <2>5 DEF SessionsHold, SessionHolds
  <2>7. TypeOf[r] = tr.ops[i].type
    BY <2>1, <2>4, <2>6 DEF OperationHolds
  <2>8. InternedHolds
    BY <2>2 DEF CommitHolds
  <2>9. InternedHolds'
    <3> SUFFICES ASSUME NEW j \in DOMAIN interned'
                 PROVE  LET o == tr.ops[j] IN
                        /\ j \in DOMAIN tr.ops /\ o.op \in Op
                        /\ \A a \in DOMAIN o.args : Ours(o.args[a])
                        /\ interned'[j] \in Symbol
                        /\ interned'[j] \in defined' /\ TypeOf[interned'[j]] = o.type
      BY <2>2 DEF InternedHolds, Ours
    <3>1. CASE j = i
      BY <2>1, <2>4, <2>5, <2>7, <3>1
    <3>2. CASE j # i
      BY <2>1, <2>2, <2>4, <2>8, <3>2 DEF InternedHolds
    <3> QED BY <3>1, <3>2
  <2>10. Sound(active)' <=> Sound(active)
    BY <1>b, <2>2
  <2> QED BY <2>2, <2>4, <2>9, <2>10 DEF CommitHolds
<1>4. CASE CommitUnion
  <2>1. /\ Valid(active) /\ Collectable(active) /\ ~Blocked(active)
        /\ Reachable(sessions[active]) \subseteq DOMAIN interned
        /\ stage = "intern" /\ stage' = "union"
        /\ UNCHANGED <<sessions, active, interned, before>>
    BY <1>4 DEF CommitUnion, txVars
  <2>2. active \in Tx /\ InternedHolds
    BY <2>1 DEF TxTypeOK, CommitHolds
  <2>3. Sound(active)
    BY <2>1, <2>2, CommittedIsSound
  <2>4. InternedHolds'
    BY <2>1, <2>2 DEF InternedHolds, Ours
  <2> QED BY <2>1, <2>3, <2>4 DEF CommitHolds
<1>5. CASE Unite \/ CommitRebuild
  <2>1. stage # "intern" /\ stage' # "intern"
    BY <1>5 DEF Unite, CommitRebuild, commitVars, CommitHolds, UnionLeaderSymbols
  <2>2. UNCHANGED <<sessions, active, interned, before>>
    BY <1>5 DEF Unite, CommitRebuild, txVars, commitVars
  <2>3. active \in Tx => InternedHolds'
    BY <2>1, <2>2 DEF CommitHolds, InternedHolds, Ours
  <2>4. stage' \in {"union", "rebuild"} => stage \in {"union", "rebuild"}
    BY <1>5 DEF Unite, CommitRebuild, commitVars
  <2> QED BY <2>1, <2>2, <2>3, <2>4 DEF CommitHolds
<1>6. CASE CommitFails \/ Settle \/ CommitReturns
  BY <1>6, <1>a DEF CommitFails, Settle, CommitReturns, Return
<1> QED
  BY <1>0, <1>1, <1>2, <1>3, <1>4, <1>5, <1>6 DEF TxNext, Client, CommitStep

(***************************************************************************)
(* The invariant of the theorems: of the facade, and of the transactions.  *)
(***************************************************************************)
FacadeInv == Inv /\ HashConsSound /\ RoundInv

TxInv == TxTypeOK /\ SessionsHold /\ TableDefined /\ CommitHolds

\* It holds at first, and every step keeps it and is a step of the facade.
LEMMA TxInvInductive ==
  /\ TxInit => FacadeInv /\ TxInv
  /\ FacadeInv /\ TxInv /\ [TxNext]_allVars => FacadeInv' /\ TxInv' /\ [Next]_vars
<1>1. ASSUME TxInit PROVE FacadeInv /\ TxInv
  <2>1. Init /\ TxTypeOK
    BY <1>1, TxInitType
  <2>2. FacadeInv /\ TableDefined
    BY <2>1, InitInv, HashConsInit, RoundInvInit, TableInit DEF FacadeInv
  <2>3. SessionsHold
    BY <1>1 DEF TxInit, SessionsHold, SessionHolds, Empty
  <2>4. CommitHolds
    BY <1>1, TransactionsOK DEF TxInit, CommitHolds
  <2> QED BY <2>1, <2>2, <2>3, <2>4 DEF TxInv
<1>2. ASSUME FacadeInv, TxInv, [TxNext]_allVars
      PROVE  FacadeInv' /\ TxInv' /\ [Next]_vars
  <2>1. TypeOK /\ Inv /\ HashConsSound /\ RoundInv
        /\ TxTypeOK /\ SessionsHold /\ TableDefined /\ CommitHolds
    BY <1>2 DEF FacadeInv, TxInv, Inv
  <2>2. [Next]_vars
    BY <1>2, <2>1, TxStepRefines
  <2>3. FacadeInv'
    BY <2>1, <2>2, NextInv, HashConsNext, RoundInvNext DEF FacadeInv
  <2>4. TxTypeOK' /\ SessionsHold' /\ TableDefined' /\ CommitHolds'
    BY <1>2, <2>1, <2>2, TxTypeNext, SessionsNext, TableNext, CommitNext
  <2> QED BY <2>2, <2>3, <2>4 DEF TxInv
<1> QED BY <1>1, <1>2

\* The steps at which a commit returns.
LEMMA ReturnSteps ==
  ASSUME TxTypeOK, [TxNext]_allVars, active # Nobody, active' = Nobody
  PROVE  /\ active \in Tx
         /\ \/ CommitFails /\ outcome'[active] = "failed"
            \/ Settle /\ outcome'[active] = IF united THEN "changed" ELSE "unchanged"
            \/ CommitReturns /\ outcome'[active] = "changed"
<1>0. active \in Tx
  BY DEF TxTypeOK
<1>1. CommitFails \/ Settle \/ CommitReturns
  BY DEF TxNext, Client, CommitStep, allVars, commitVars, Build, Record, RecordEquivalence,
         Discard, BeginNothing, Begin, ClientCall, CommitIntern, CommitUnion, Unite,
         CommitRebuild, Quiet
<1>2. ASSUME NEW how, Return(how) PROVE outcome'[active] = how
  BY <1>0, <1>2 DEF Return, End, TxTypeOK
<1> QED BY <1>0, <1>1, <1>2 DEF CommitFails, Settle, CommitReturns

(***************************************************************************)
(* A commit succeeds exactly for a transaction that belongs to the graph   *)
(* as it is, whatever other transactions and clients did since it was      *)
(* opened.                                                                 *)
(***************************************************************************)
THEOREM CommitsAlwaysExactlyCurrent == TxSpec => CommitsExactlyCurrent
<1>1. ASSUME FacadeInv, TxInv, [TxNext]_allVars, active # Nobody, active' = Nobody
      PROVE  outcome'[active] # "failed" <=> before.sound
  <2>1. Inv /\ TxTypeOK /\ SessionsHold /\ CommitHolds
    BY <1>1 DEF FacadeInv, TxInv
  <2>2. CASE CommitFails /\ outcome'[active] = "failed"
    <3>1. /\ stage = "intern"
          /\ Valid(active) /\ Collectable(active) /\ ~Blocked(active) =>
               /\ Reachable(sessions[active]) \subseteq DOMAIN interned
               /\ \E p \in EventPairs(sessions[active], interned) : ~CanUnite(Leader, p[1], p[2])
      BY <2>2 DEF CommitFails
    <3>2. ~Sound(active)
      BY <2>1, <3>1, SoundIsCommitted
    <3> QED BY <2>1, <2>2, <3>1, <3>2 DEF CommitHolds
  <2>3. CASE /\ Settle \/ CommitReturns
             /\ outcome'[active] \in {"changed", "unchanged"}
    BY <2>1, <2>3 DEF Settle, CommitReturns, CommitHolds
  <2> QED BY <1>1, <2>1, <2>2, <2>3, ReturnSteps
<1>2. FacadeInv /\ TxInv /\ [TxNext]_allVars =>
        [active # Nobody /\ active' = Nobody
           => (outcome'[active] # "failed" <=> before.sound)]_allVars
  BY <1>1
<1> QED BY <1>2, TxInvInductive, PTL DEF TxSpec, CommitsExactlyCurrent

(***************************************************************************)
(* A commit that fails has united nothing and changed no e-class there     *)
(* was: it leaves behind e-classes it interned, and nothing else.          *)
(***************************************************************************)
THEOREM FailureAlwaysKeepsGraph == TxSpec => FailureKeepsGraph
<1>1. ASSUME FacadeInv, TxInv, [TxNext]_allVars,
             active # Nobody, active' = Nobody, outcome'[active] = "failed"
      PROVE  /\ parent' = before.parent
             /\ before.defined \subseteq defined'
             /\ \A s \in before.defined : terms'[s] = before.terms[s]
  <2>1. TxTypeOK /\ CommitHolds
    BY <1>1 DEF TxInv
  <2>2. CommitFails
    BY <1>1, <2>1, ReturnSteps
  <2>3. stage = "intern" /\ UNCHANGED <<parent, defined, terms>>
    BY <2>2 DEF CommitFails, Return, vars
  <2> QED BY <2>1, <2>3 DEF CommitHolds
<1>2. FacadeInv /\ TxInv /\ [TxNext]_allVars =>
        [active # Nobody /\ active' = Nobody /\ outcome'[active] = "failed"
           => /\ parent' = before.parent
              /\ before.defined \subseteq defined'
              /\ \A s \in before.defined : terms'[s] = before.terms[s]]_allVars
  BY <1>1
<1> QED BY <1>2, TxInvInductive, PTL DEF TxSpec, FailureKeepsGraph

-----------------------------------------------------------------------------
\* What a commit unites.

\* One pair of the call unites no fewer classes than before.
LEMMA WillUniteStays ==
  ASSUME Inv, NEW p \in work, UnionLeaderSymbols(p), NEW l \in Symbol, NEW r \in Symbol
  PROVE  /\ WillUnite(l, r) => WillUnite(l, r)'
         /\ Leader[l] = Leader[r] => Leader'[l] = Leader'[r]
<1>1. /\ p[1] \in Symbol /\ p[2] \in Symbol
      /\ work' = work \ {p}
      /\ \/ Leader[p[1]] = Leader[p[2]] /\ Leader' = Leader
         \/ IsMerge(Leader, Leader', p[1], p[2])
  BY UnionMoves
<1>2. \A w \in work : w[1] \in Symbol /\ w[2] \in Symbol
  BY DEF Inv, TypeOK
<1>3. \A s, t \in Symbol : Leader[s] = Leader[t] => Leader'[s] = Leader'[t]
  BY <1>1 DEF IsMerge
<1>4. Leader'[p[1]] = Leader'[p[2]]
  BY <1>1 DEF IsMerge
<1>5. ASSUME NEW w \in work,
             \/ Leader[w[1]] = Leader[l] /\ Leader[w[2]] = Leader[r]
             \/ Leader[w[1]] = Leader[r] /\ Leader[w[2]] = Leader[l]
      PROVE  WillUnite(l, r)'
  <2>1. \/ Leader'[w[1]] = Leader'[l] /\ Leader'[w[2]] = Leader'[r]
        \/ Leader'[w[1]] = Leader'[r] /\ Leader'[w[2]] = Leader'[l]
    BY <1>2, <1>3, <1>5
  <2>2. CASE w = p
    BY <1>4, <2>1, <2>2 DEF WillUnite
  <2>3. CASE w \in work'
    BY <2>1, <2>3 DEF WillUnite
  <2> QED BY <1>1, <2>2, <2>3
<1>6. Leader[l] = Leader[r] => WillUnite(l, r)'
  BY <1>3 DEF WillUnite
<1> QED BY <1>3, <1>5, <1>6 DEF WillUnite

\* The pair of an event is the pair of its values, up to the leader of one.
LEMMA PairOfEvent ==
  ASSUME Inv, NEW e \in Events, Replacement(e) \in Symbol
  PROVE  /\ Resolve(sessions[active].events[e].by, interned) \in Symbol
         /\ Leader[Resolve(sessions[active].events[e].by, interned)] = Leader[Replacement(e)]
BY LeaderProps DEF Replacement, Resolve, Inv

\* The step that starts the union establishes UnionHolds.
LEMMA CommitUnionHolds ==
  ASSUME FacadeInv, TxInv, CommitUnion
  PROVE  UnionHolds'
<1> DEFINE tr == sessions[active]
           P  == EventPairs(tr, interned)
<1>1. /\ Valid(active) /\ Collectable(active) /\ ~Blocked(active)
      /\ Reachable(tr) \subseteq DOMAIN interned
      /\ stage = "intern" /\ stage' = "union" /\ united' = Unites(P)
      /\ UnionValueTuples(P)
      /\ UNCHANGED <<sessions, active, interned, before>>
  BY DEF CommitUnion, txVars
<1>2. Inv /\ TxTypeOK /\ CommitHolds /\ InternedHolds /\ active \in Tx /\ Sound(active)
  BY <1>1, CommittedIsSound DEF FacadeInv, TxInv, TxTypeOK, CommitHolds
<1>3. /\ pc' = "union" /\ parent' = parent /\ parent = before.parent
      /\ work' = {UnionPair(Leader, p[1], p[2]) : p \in P}
      /\ \A p \in P : CanUnite(Leader, p[1], p[2])
  BY <1>1, <1>2 DEF UnionValueTuples, CommitHolds
<1>4. Leader' = Leader /\ FindLeader(before.parent) = Leader
  BY <1>3 DEF Leader
<1>5. ASSUME NEW e \in Events
      PROVE  /\ Root(e) \in Symbol /\ Replacement(e) \in Symbol
             /\ <<Root(e), Resolve(tr.events[e].by, interned)>> \in P
  <2>1. <<Root(e), Resolve(tr.events[e].by, interned)>> \in P
    BY DEF EventPairs, Root, Events
  <2>2. Root(e) \in Symbol
    BY <1>2, <1>3, <2>1 DEF CanUnite, Inv, TypeOK
  <2>3. tr.events[e].by[1] \in {"value", "scratch"}
    BY <1>2 DEF Sound, Events
  <2>4. tr.events[e] \in Event
    BY <1>2 DEF TxTypeOK, Events
  <2>5. ASSUME tr.events[e].by[1] = "value" PROVE Replacement(e) \in Symbol
    BY <2>4, <2>5 DEF Replacement, Event, Value
  <2>6. ASSUME tr.events[e].by[1] = "scratch" PROVE Replacement(e) \in Symbol
    <3>1. Replacement(e) = Resolve(tr.events[e].by, interned)
      BY <2>6 DEF Replacement, Resolve
    <3>2. Resolve(tr.events[e].by, interned) \in Symbol
      BY <1>2, <1>3, <2>1 DEF CanUnite, Inv, TypeOK
    <3> QED BY <3>1, <3>2
  <2> QED BY <2>1, <2>2, <2>3, <2>5, <2>6
<1>6. ASSUME NEW e \in Events
      PROVE  /\ WillUnite(Root(e), Replacement(e))'
  <2> DEFINE v == Resolve(tr.events[e].by, interned)
             w == UnionPair(Leader, Root(e), v)
  <2>1. v \in Symbol /\ Leader[v] = Leader[Replacement(e)] /\ Root(e) \in Symbol
    BY <1>2, <1>5, PairOfEvent
  <2>2. w \in work'
    <3> DEFINE p == <<Root(e), v>>
    <3>1. p \in P /\ p[1] = Root(e) /\ p[2] = v
      BY <1>5
    <3> HIDE DEF p, v, P
    <3> QED BY <1>3, <3>1
  <2>3. w = <<Leader[Root(e)], Leader[v]>> \/ w = <<Leader[v], Leader[Root(e)]>>
    BY DEF UnionPair
  <2>4. Leader[Leader[Root(e)]] = Leader[Root(e)] /\ Leader[Leader[v]] = Leader[v]
    BY <1>2, <2>1, LeaderProps DEF Inv
  <2>5. Root(e)' = Root(e) /\ Replacement(e)' = Replacement(e)
    BY <1>1 DEF Root, Replacement
  <2> HIDE DEF v, w
  <2>6. \/ Leader[w[1]] = Leader[Root(e)] /\ Leader[w[2]] = Leader[Replacement(e)]
        \/ Leader[w[1]] = Leader[Replacement(e)] /\ Leader[w[2]] = Leader[Root(e)]
    BY <2>1, <2>3, <2>4
  <2> QED BY <1>4, <2>2, <2>5, <2>6 DEF WillUnite
<1>7. united' <=> \E e \in Events : Leader[Root(e)] # Leader[Replacement(e)]
  <2>1. united' <=> \E e \in Events : Leader[Root(e)] # Leader[Resolve(tr.events[e].by, interned)]
    <3> DEFINE pair(e) == <<Root(e), Resolve(tr.events[e].by, interned)>>
    <3>1. P = {pair(e) : e \in Events}
      BY DEF EventPairs, Events, Root
    <3>2. \A e \in Events : pair(e)[1] = Root(e) /\ pair(e)[2] = Resolve(tr.events[e].by, interned)
      OBVIOUS
    <3> HIDE DEF pair, P
    <3>3. Unites(P) <=> \E e \in Events : Leader[pair(e)[1]] # Leader[pair(e)[2]]
      BY <3>1 DEF Unites
    <3> QED BY <1>1, <3>2, <3>3
  <2> QED BY <1>2, <1>5, <2>1, PairOfEvent
<1>8. ASSUME ~united', NEW w \in work'
      PROVE  Leader[w[1]] = Leader[w[2]]
  <2>1. PICK p \in P : w = UnionPair(Leader, p[1], p[2])
    BY <1>3
  <2>2. Leader[p[1]] = Leader[p[2]]
    BY <1>1, <1>8 DEF Unites
  <2> QED BY <2>1, <2>2 DEF UnionPair
<1>9. /\ Events' = Events /\ before' = before
      /\ \A e \in Events : Root(e)' = Root(e) /\ Replacement(e)' = Replacement(e)
  BY <1>1 DEF Events, Root, Replacement
<1>10. News' <=> \E e \in Events : Leader[Root(e)] # Leader[Replacement(e)]
  BY <1>4, <1>9 DEF News
<1> HIDE DEF P, tr
<1> QED BY <1>1, <1>3, <1>4, <1>5, <1>6, <1>7, <1>8, <1>9, <1>10 DEF UnionHolds

\* Every step keeps UnionHolds.
LEMMA UnionNext ==
  ASSUME FacadeInv, TxInv, UnionHolds, [TxNext]_allVars
  PROVE  UnionHolds'
<1>0. Inv /\ RoundInv /\ TxTypeOK /\ CommitHolds
  BY DEF FacadeInv, TxInv
<1>a. ASSUME stage' \notin {"union", "rebuild"} PROVE UnionHolds'
  BY <1>a DEF UnionHolds
<1>b. ASSUME UNCHANGED <<sessions, active, interned, before>>
      PROVE  /\ Events' = Events
             /\ \A e \in Events : Root(e)' = Root(e) /\ Replacement(e)' = Replacement(e)
             /\ News' <=> News
  <2>1. Events' = Events /\ \A e \in Events : Root(e)' = Root(e) /\ Replacement(e)' = Replacement(e)
    BY <1>b DEF Events, Root, Replacement
  <2> QED BY <1>b, <2>1 DEF News
<1>1. CASE UNCHANGED allVars
  <2>1. UNCHANGED <<sessions, active, interned, before, stage, united, vars>>
    BY <1>1 DEF allVars, txVars, commitVars
  <2>2. Leader' = Leader /\ (Settled => Settled') /\ UNCHANGED <<pc, work, touched, parent>>
    BY <2>1 DEF vars, Leader, Settled, IsAbsorbed
  <2>3. \A e \in Events : WillUnite(Root(e), Replacement(e))' <=> WillUnite(Root(e), Replacement(e))
    BY <1>b, <2>1, <2>2 DEF WillUnite
  <2> QED BY <1>b, <2>1, <2>2, <2>3 DEF UnionHolds
<1>2. CASE Client
  <2>1. stage' \in {"none", "intern"}
    <3>1. active = Nobody => stage = "none"
      BY <1>0, TransactionsOK DEF TxTypeOK
    <3> QED BY <1>2, <3>1 DEF Client, Build, Record, RecordEquivalence, Discard, BeginNothing,
                              Begin, ClientCall, Quiet, commitVars
  <2> QED BY <1>a, <2>1
<1>3. CASE CommitIntern \/ CommitFails \/ Settle \/ CommitReturns
  BY <1>3, <1>a DEF CommitIntern, CommitFails, Settle, CommitReturns, Return
<1>4. CASE CommitUnion
  BY <1>4, CommitUnionHolds
<1>5. CASE Unite
  <2>1. PICK p \in work : UnionLeaderSymbols(p)
    BY <1>5 DEF Unite
  <2>2. /\ UNCHANGED <<sessions, active, interned, before, stage, united>>
        /\ active # Nobody /\ stage # "none"
    BY <1>0, <1>5 DEF Unite, txVars, commitVars, TxTypeOK
  <2>3. stage # "intern"
    BY <1>0, <2>1 DEF CommitHolds, UnionLeaderSymbols
  <2>4. /\ pc' = IF pc = "union" /\ work' = {} THEN "idle" ELSE pc
        /\ work' = work \ {p} /\ pc \in {"union", "collide"}
    BY <2>1 DEF UnionLeaderSymbols
  <2>5. \A e \in Events : Root(e) \in Symbol /\ Replacement(e) \in Symbol
    BY <1>0, <2>2, <2>3 DEF UnionHolds, TxTypeOK
  <2>6. \A e \in Events : /\ WillUnite(Root(e), Replacement(e))'
                          /\ Leader[Root(e)] = Leader[Replacement(e)]
                               => Leader'[Root(e)] = Leader'[Replacement(e)]
    <3> SUFFICES ASSUME NEW e \in Events
                 PROVE  /\ WillUnite(Root(e), Replacement(e))'
                        /\ Leader[Root(e)] = Leader[Replacement(e)]
                             => Leader'[Root(e)] = Leader'[Replacement(e)]
      OBVIOUS
    <3> DEFINE l == Root(e)
               r == Replacement(e)
    <3>1. l \in Symbol /\ r \in Symbol /\ WillUnite(l, r) /\ l' = l /\ r' = r
      BY <1>0, <1>b, <2>2, <2>3, <2>5 DEF UnionHolds, TxTypeOK
    <3> HIDE DEF l, r
    <3>2. PICK a \in Symbol, b \in Symbol : a = l /\ b = r
      BY <3>1
    <3>3. WillUnite(a, b)
      BY <3>1, <3>2
    <3>4. WillUnite(a, b)' /\ (Leader[a] = Leader[b] => Leader'[a] = Leader'[b])
      BY <1>0, <2>1, <3>3, WillUniteStays
    <3>5. l' = a /\ r' = b
      BY <3>1, <3>2
    <3> QED BY <3>2, <3>4, <3>5 DEF WillUnite, l, r
  <2>7. ASSUME stage = "union", ~united
        PROVE  parent' = before.parent /\ \A w \in work' : Leader'[w[1]] = Leader'[w[2]]
    <3>1. parent' = parent
      BY <2>1, <2>7 DEF UnionHolds, UnionLeaderSymbols
    <3> QED BY <2>4, <2>7, <3>1 DEF UnionHolds, Leader
  <2>8. stage \in {"union", "rebuild"}
    BY <1>0, <2>2, <2>3 DEF TxTypeOK
  <2>9. /\ stage = "union" => pc = "union" /\ pc' \in {"union", "idle"}
        /\ stage = "rebuild" => pc = "collide" /\ pc' = "collide"
        /\ pc' = "idle" => work' = {}
    BY <2>4 DEF UnionHolds
  <2> QED BY <1>b, <2>2, <2>5, <2>6, <2>7, <2>8, <2>9 DEF UnionHolds
<1>6. CASE CommitRebuild
  <2>1. /\ UNCHANGED <<sessions, active, interned, before, united>> /\ stage' = "rebuild"
        /\ \/ stage = "union" /\ pc = "idle" /\ united
           \/ stage = "rebuild" /\ pc = "collide"
        /\ RebuildRound \/ RebuildFinish
    BY <1>6 DEF CommitRebuild, Reindexed
  <2>2. parent' = parent /\ Leader' = Leader
    BY <2>1 DEF RebuildRound, RebuildFinish, Leader
  <2>3. united /\ \A e \in Events : Leader[Root(e)] = Leader[Replacement(e)]
    BY <2>1 DEF UnionHolds, WillUnite
  <2>4. \/ pc' = "collide"
        \/ pc' = "idle" /\ work' = {} /\ touched' = {} /\ Settled'
    BY <1>0, <2>1, FinishSettles DEF RebuildRound, RebuildFinish
  <2>5. \A e \in Events : WillUnite(Root(e), Replacement(e))'
    BY <1>b, <2>1, <2>2, <2>3 DEF WillUnite
  <2> QED BY <1>b, <2>1, <2>2, <2>3, <2>4, <2>5 DEF UnionHolds
<1> QED
  BY <1>1, <1>2, <1>3, <1>4, <1>5, <1>6 DEF TxNext, CommitStep

(***************************************************************************)
(* A commit that succeeds has united every root with its replacement, says *)
(* that it changed the graph if and only if it did, and leaves it clean    *)
(* and settled when it was told to, also when the rebuild united more.     *)
(***************************************************************************)
THEOREM CommitAlwaysDoesAll == TxSpec => CommitDoesAll
<1>1. TxInit => UnionHolds
  BY DEF TxInit, UnionHolds
<1>2. ASSUME FacadeInv, TxInv, UnionHolds, [TxNext]_allVars,
             active # Nobody, active' = Nobody, outcome'[active] # "failed"
      PROVE  /\ \A p \in EventPairs(sessions[active], interned) : Leader'[p[1]] = Leader'[p[2]]
             /\ outcome'[active] = "changed" <=> parent' # before.parent
             /\ outcome'[active] = "changed" /\ now => touched' = {} /\ Settled'
  <2>0. Inv /\ TxTypeOK
    BY <1>2 DEF FacadeInv, TxInv
  <2>1. \/ Settle /\ outcome'[active] = IF united THEN "changed" ELSE "unchanged"
        \/ CommitReturns /\ outcome'[active] = "changed"
    BY <1>2, <2>0, ReturnSteps
  <2>2. pc = "idle" /\ stage \in {"union", "rebuild"} /\ UNCHANGED vars
    BY <2>1 DEF Settle, CommitReturns, Return
  <2>3. Leader' = Leader /\ parent' = parent /\ touched' = touched /\ (Settled => Settled')
    BY <2>2 DEF vars, Leader, Settled, IsAbsorbed
  <2>4. \A e \in Events : /\ Leader[Root(e)] = Leader[Replacement(e)]
                          /\ Replacement(e) \in Symbol
    BY <1>2, <2>2 DEF UnionHolds, WillUnite
  <2>5. \A p \in EventPairs(sessions[active], interned) : Leader'[p[1]] = Leader'[p[2]]
    BY <2>0, <2>3, <2>4, PairOfEvent DEF EventPairs, Events, Root
  <2>6. united => parent # before.parent
    BY <1>2, <2>2, <2>4 DEF UnionHolds, News, Leader
  <2>7. stage = "union" /\ ~united => parent = before.parent
    BY <1>2 DEF UnionHolds
  <2>8. CASE Settle /\ outcome'[active] = IF united THEN "changed" ELSE "unchanged"
    BY <2>3, <2>5, <2>6, <2>7, <2>8 DEF Settle
  <2>9. CASE CommitReturns /\ outcome'[active] = "changed"
    BY <1>2, <2>2, <2>3, <2>5, <2>6, <2>9 DEF CommitReturns, UnionHolds
  <2> QED BY <2>1, <2>8, <2>9
<1>3. FacadeInv /\ TxInv /\ UnionHolds /\ [TxNext]_allVars =>
        [active # Nobody /\ active' = Nobody /\ outcome'[active] # "failed"
           => /\ \A p \in EventPairs(sessions[active], interned) : Leader'[p[1]] = Leader'[p[2]]
              /\ outcome'[active] = "changed" <=> parent' # before.parent
              /\ outcome'[active] = "changed" /\ now => touched' = {} /\ Settled']_allVars
  BY <1>2
<1> QED BY <1>1, <1>3, UnionNext, TxInvInductive, PTL DEF TxSpec, CommitDoesAll

=============================================================================
