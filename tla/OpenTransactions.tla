--------------------------- MODULE OpenTransactions ---------------------------
(***************************************************************************)
(* Several EGraphRewriteTransactions open on one graph (lib/EGraph/        *)
(* Pattern.cpp), each with its scratch block, and the commits, discards,   *)
(* unions and rebuilds that come between the steps of one of them.         *)
(*                                                                         *)
(* Besides the values of module Transaction there are <<"other", y, i>>,   *)
(* the result of the i-th scratch operation of transaction y, and          *)
(* <<"alien", type>>, an argument of an e-class of another graph, which    *)
(* isLegalAliasValue lets pass.  made is the generation an operation was   *)
(* built in, for the properties.                                           *)
(***************************************************************************)
EXTENDS Transaction

CONSTANTS
  Tx,             \* the transactions
  Built,          \* what clients build: records op, arity, type
  Known,          \* the names whose values clients use
  MaxOps,         \* bound: operations of a scratch block
  MaxEvents,      \* bound: events of a transaction
  MaxGeneration   \* bound: no client begins a rebuild from here on

Nobody == "nobody"

Empty == [ops |-> <<>>, events |-> <<>>]

ASSUME TransactionsOK ==
  /\ Nobody \notin Tx
  /\ MaxOps \in Nat /\ MaxEvents \in 1..MaxPairs /\ MaxGeneration \in Nat
  /\ \A shape \in Built : shape.op \in Op =>
       shape.arity = Arity[shape.op] /\ shape.type = ResultType[shape.op]

VARIABLES
  sessions,    \* the scratchOperations and rewriteEvents of each
  outcome,     \* "open", or how it ended
  registered,  \* scratch operations in EGraphIndex::operationLookup
  active,      \* the transaction whose commit runs
  now,         \* the rebuildNow of that commit
  interned,    \* its scratchResultValues
  united,      \* EGraphRewriteCommitResult::changed
  stage,       \* what the commit is at
  before       \* history: the graph when the commit began

commitVars == <<active, now, interned, united, stage, before>>
txVars     == <<sessions, outcome, registered>>
allVars    == <<vars, generation, txVars, commitVars>>

\* No commit runs.
Untouched == [parent |-> NoUnions, defined |-> {}, terms |-> <<>>, sound |-> TRUE]

TxInit ==
  /\ Init
  /\ generation = 1
  /\ sessions = [x \in Tx |-> Empty]
  /\ outcome = [x \in Tx |-> "open"]
  /\ registered = {}
  /\ active = Nobody /\ now = FALSE /\ interned = <<>> /\ united = FALSE /\ stage = "none"
  /\ before = Untouched

\* One thread: whoever calls finds no call in progress.
Quiet == active = Nobody /\ pc = "idle"

Scratch(x) == {<<x, i>> : i \in DOMAIN sessions[x].ops}

TypeOfValue(tr, v) ==
  CASE v[1] = "alien" -> v[2]
    [] v[1] = "other" -> sessions[v[2]].ops[v[3]].type
    [] OTHER -> ValueType(tr, v)

\* The values at hand when x builds an operation.
Operands(x) ==
  {<<"value", s>> : s \in Known \cap defined}
  \cup {<<"scratch", i>> : i \in DOMAIN sessions[x].ops}
  \cup {<<"alien", type>> : type \in Type}

Lent(x) ==
  UNION {{<<"other", y, i>> : i \in DOMAIN sessions[y].ops} :
         y \in {z \in Tx \ {x} : outcome[z] = "open"}}

-----------------------------------------------------------------------------
(***************************************************************************)
(* notifyScratchOperationInserted: the graph learns of every operation a   *)
(* pattern builds.  What is built is a well-typed operation.               *)
(***************************************************************************)
Build(x, shape, args) ==
  /\ Quiet /\ outcome[x] = "open" /\ Len(sessions[x].ops) < MaxOps
  /\ shape.op \in Op => \A i \in DOMAIN args :
       TypeOfValue(sessions[x], args[i]) = OperandType[shape.op][i]
  /\ sessions' = [sessions EXCEPT ![x].ops =
       Append(@, [op |-> shape.op, type |-> shape.type, args |-> args, made |-> generation])]
  /\ registered' = registered \cup {<<x, Len(sessions[x].ops) + 1>>}
  /\ UNCHANGED <<vars, generation, outcome, commitVars>>

(***************************************************************************)
(* recordRewriteEvent: the root must be live, the replacement is not       *)
(* looked at.                                                              *)
(***************************************************************************)
Record(x, root, by) ==
  /\ Quiet /\ outcome[x] = "open" /\ Len(sessions[x].events) < MaxEvents
  /\ IsLive(root)
  /\ sessions' = [sessions EXCEPT ![x].events = Append(@, [root |-> root, by |-> by])]
  /\ UNCHANGED <<vars, generation, outcome, registered, commitVars>>

(***************************************************************************)
(* recordEquivalence, behind replaceAllUsesWith: by must be the result of  *)
(* a live candidate or of a registered operation of x.                     *)
(***************************************************************************)
RecordEquivalence(x, root, by) ==
  /\ \/ by[1] = "value" /\ \E ref \in LiveRefs : ref.owner = by[2]
     \/ by[1] = "scratch" /\ <<x, by[2]>> \in registered
  /\ Record(x, root, by)

\* unregisterScratchOperation for every scratch operation, before it is erased.
Discarded(x) == registered \ Scratch(x)

End(x, how) ==
  /\ outcome' = [outcome EXCEPT ![x] = how]
  /\ registered' = Discarded(x)
  /\ sessions' = [sessions EXCEPT ![x] = Empty]

\* discard, or the destructor of a transaction nobody committed.
Discard(x) ==
  /\ Quiet /\ outcome[x] = "open"
  /\ End(x, "discarded")
  /\ UNCHANGED <<vars, generation, commitVars>>

-----------------------------------------------------------------------------
(***************************************************************************)
(* validateEvents: the root is live, the replacement has its type and is a *)
(* value of the graph, a registered scratch value of x or a legal alias.   *)
(***************************************************************************)
Valid(x) ==
  \A e \in DOMAIN sessions[x].events :
    LET event == sessions[x].events[e] IN
    /\ IsLive(event.root)
    /\ TypeOfValue(sessions[x], event.by) = ResultType[event.root.term.op]
    /\ event.by[1] = "value" => event.by[2] \in defined
    /\ event.by[1] = "scratch" => <<x, event.by[2]>> \in registered
    /\ event.by[1] # "other"

(***************************************************************************)
(* collectReachableScratchOperations succeeds: what the replacements need  *)
(* is registered, and its other operands are values of the graph or legal  *)
(* aliases.                                                                *)
(***************************************************************************)
Collectable(x) ==
  \A i \in Reachable(sessions[x]) :
    /\ <<x, i>> \in registered
    /\ \A a \in DOMAIN sessions[x].ops[i].args :
         LET v == sessions[x].ops[i].args[a] IN v[1] = "value" => v[2] \in defined

\* resolveValue knows values of the graph and interned scratch results only.
Blocked(x) ==
  LET tr == sessions[x]
      left == Reachable(tr) \ DOMAIN interned
      alien(i) == \E a \in DOMAIN tr.ops[i].args : tr.ops[i].args[a][1] = "alien"
      below(i) == \A a \in DOMAIN tr.ops[i].args :
                    tr.ops[i].args[a][1] = "scratch" => tr.ops[i].args[a][2] \in DOMAIN interned
  IN  \/ \E i \in left : below(i) /\ (alien(i) \/ tr.ops[i].op \notin Op)
      \/ left = {} /\ \E e \in DOMAIN tr.events : tr.events[e].by[1] = "alien"

(***************************************************************************)
(* What ought to be committed: nothing in it is older than the last        *)
(* indexing, or another's, or of another type, or refused by intern.       *)
(***************************************************************************)
Sound(x) ==
  LET tr == sessions[x]
      ours(v) == v[1] \in {"value", "scratch"}
  IN  /\ \A e \in DOMAIN tr.events :
           /\ tr.events[e].root.generation = generation
           /\ ours(tr.events[e].by)
           /\ TypeOfValue(tr, tr.events[e].by) = ResultType[tr.events[e].root.term.op]
      /\ \A i \in Reachable(tr) :
           /\ tr.ops[i].made = generation
           /\ tr.ops[i].op \in Op
           /\ \A a \in DOMAIN tr.ops[i].args : ours(tr.ops[i].args[a])

(***************************************************************************)
(* commit is called.  It fails at once when it ought to rebuild and has no *)
(* operation to rebuild, and is done at once when there are no events.  A  *)
(* client keeps alive what its events name.                                *)
(***************************************************************************)
Begin(x, rebuildNow) ==
  /\ Quiet /\ outcome[x] = "open"
  /\ sessions[x].events # <<>>
  /\ \A e \in DOMAIN sessions[x].events :
       sessions[x].events[e].by[1] = "other" => sessions[x].events[e].by \in Lent(x)
  /\ active' = x /\ now' = rebuildNow /\ interned' = <<>> /\ united' = FALSE
  /\ stage' = "intern"
  /\ before' = [parent |-> parent, defined |-> defined, terms |-> terms, sound |-> Sound(x)]
  /\ UNCHANGED <<vars, generation, txVars>>

BeginNothing(x) ==
  /\ Quiet /\ outcome[x] = "open"
  /\ \/ End(x, "failed")     \* rebuildNow, and no root
     \/ sessions[x].events = <<>> /\ End(x, "unchanged")
  /\ UNCHANGED <<vars, generation, commitVars>>

\* The commit of x returns, and x is discarded.
Return(how) ==
  /\ End(active, how)
  /\ active' = Nobody /\ stage' = "none" /\ interned' = <<>>
  /\ now' = FALSE /\ united' = FALSE /\ before' = Untouched
  /\ UNCHANGED <<vars, generation>>

\* One iteration of internReachableScratchOperations.
CommitIntern ==
  /\ stage = "intern"
  /\ Valid(active) /\ Collectable(active)
  /\ \E i \in Ready(sessions[active], interned), r \in Symbol :
       /\ sessions[active].ops[i].op \in Op
       /\ InternScratch(ScratchTerm(sessions[active], i, interned), r)
       /\ interned' = [j \in DOMAIN interned \cup {i} |-> IF j = i THEN r ELSE interned[j]]
  /\ UNCHANGED <<generation, txVars, active, now, united, stage, before>>

\* Mutation of CommitUnion: only the first event is united.
CommitUnionFirst ==
  /\ stage = "intern"
  /\ Valid(active) /\ Collectable(active)
  /\ Reachable(sessions[active]) \subseteq DOMAIN interned /\ ~Blocked(active)
  /\ LET P == {<<sessions[active].events[1].root.owner,
                 Resolve(sessions[active].events[1].by, interned)>>}
     IN  UnionValueTuples(P) /\ united' = Unites(P)
  /\ stage' = "union"
  /\ UNCHANGED <<generation, txVars, active, now, interned, before>>

\* unionInternedEventValues: all events in one call.
CommitUnion ==
  /\ stage = "intern"
  /\ Valid(active) /\ Collectable(active)
  /\ Reachable(sessions[active]) \subseteq DOMAIN interned /\ ~Blocked(active)
  /\ LET P == EventPairs(sessions[active], interned)
     IN  UnionValueTuples(P) /\ united' = Unites(P)
  /\ stage' = "union"
  /\ UNCHANGED <<generation, txVars, active, now, interned, before>>

\* Mutation of CommitFails: the e-classes of the operations interned are erased.
CommitFailsErasing ==
  /\ stage = "intern"
  /\ Valid(active) /\ Collectable(active) /\ Blocked(active)
  /\ defined' = defined \ {interned[i] : i \in DOMAIN interned}
  /\ End(active, "failed")
  /\ active' = Nobody /\ stage' = "none" /\ interned' = <<>>
  /\ now' = FALSE /\ united' = FALSE /\ before' = Untouched
  /\ UNCHANGED <<terms, aliases, targets, parent, hashcons, touched, pc, work, changed, generation>>

\* What was interned before an operation is refused stays in the graph.
CommitFails ==
  /\ stage = "intern"
  /\ Valid(active) /\ Collectable(active) /\ ~Blocked(active)
       => /\ Reachable(sessions[active]) \subseteq DOMAIN interned
          /\ \E p \in EventPairs(sessions[active], interned) : ~CanUnite(Leader, p[1], p[2])
  /\ Return("failed")

\* Mutation of Unite: the classes are not noted as touched.
UniteUntouched ==
  /\ active # Nobody
  /\ \E p \in work : /\ parent' = Link(parent, Leader[p[1]], Leader[p[2]])
                      /\ work' = work \ {p}
  /\ pc' = IF pc = "union" /\ work' = {} THEN "idle" ELSE pc
  /\ UNCHANGED <<ir, hashcons, touched, changed, generation, txVars, commitVars>>

Unite ==
  /\ active # Nobody
  /\ \E p \in work : UnionLeaderSymbols(p)
  /\ UNCHANGED <<generation, txVars, commitVars>>

\* No rebuild was asked for, or there is no need of one.
Settle ==
  /\ stage = "union" /\ pc = "idle"
  /\ ~united \/ ~now
  /\ Return(IF united THEN "changed" ELSE "unchanged")

\* Mutation of Cleared: the entries of scratch operations outlive the index.
ClearedKeepsScratch == registered

(***************************************************************************)
(* EGraphIndex::clear drops the entries of all scratch operations, of      *)
(* whatever transaction.                                                   *)
(***************************************************************************)
Cleared == {}

\* A rebuild indexes the graph in every round, and once more at its end.
Reindexed ==
  /\ RebuildRound \/ RebuildFinish
  /\ generation' = generation + 1
  /\ registered' = Cleared

CommitRebuild ==
  /\ \/ stage = "union" /\ pc = "idle" /\ united /\ now
     \/ stage = "rebuild" /\ pc = "collide"
  /\ Reindexed
  /\ stage' = "rebuild"
  /\ UNCHANGED <<sessions, outcome, active, now, interned, united, before>>

CommitReturns ==
  /\ stage = "rebuild" /\ pc = "idle"
  /\ Return("changed")

\* Meanwhile the client, or another pass over the graph, unites and rebuilds.
ClientCall ==
  /\ active = Nobody
  /\ \/ /\ \/ \E s, t \in Known \cap defined : UnionValueTuples({<<s, t>>})
           \/ \E p \in work : UnionLeaderSymbols(p)
        /\ UNCHANGED <<generation, registered>>
     \/ (pc = "idle" => generation < MaxGeneration) /\ Reindexed
  /\ UNCHANGED <<sessions, outcome, commitVars>>

-----------------------------------------------------------------------------
Client ==
  \/ \E x \in Tx, shape \in Built : \E args \in [1..shape.arity -> Operands(x)] :
       Build(x, shape, args)
  \/ \E x \in Tx, root \in LiveRefs : \E by \in Operands(x) \cup Lent(x) :
       Record(x, root, by) \/ RecordEquivalence(x, root, by)
  \/ \E x \in Tx : Discard(x) \/ BeginNothing(x) \/ \E b \in BOOLEAN : Begin(x, b)
  \/ ClientCall

CommitStep ==
  \/ CommitIntern
  \/ CommitUnion
  \/ CommitFails
  \/ Unite
  \/ Settle
  \/ CommitRebuild
  \/ CommitReturns

TxNext == Client \/ CommitStep

TxSpec == TxInit /\ [][TxNext]_allVars

-----------------------------------------------------------------------------
(***************************************************************************)
(* A commit succeeds exactly for a transaction that belongs to the graph   *)
(* as it is: any rebuild since it recorded an event, or built what it      *)
(* needs, makes it fail, and nothing else another transaction does.        *)
(***************************************************************************)
CommitsExactlyCurrent ==
  [][active # Nobody /\ active' = Nobody
     => (outcome'[active] # "failed" <=> before.sound)]_allVars

(***************************************************************************)
(* A commit that fails unites nothing, and the e-classes there were stay   *)
(* as they were: the most it leaves behind is e-classes it interned.       *)
(***************************************************************************)
FailureKeepsGraph ==
  [][active # Nobody /\ active' = Nobody /\ outcome'[active] = "failed"
     => /\ parent' = before.parent
        /\ before.defined \subseteq defined'
        /\ \A s \in before.defined : terms'[s] = before.terms[s]]_allVars

(***************************************************************************)
(* A commit that succeeds has united every root with its replacement, says *)
(* that it changed the graph if and only if it did, and leaves it clean    *)
(* when it was told to.                                                    *)
(***************************************************************************)
CommitDoesAll ==
  [][active # Nobody /\ active' = Nobody /\ outcome'[active] # "failed"
     => /\ \A p \in EventPairs(sessions[active], interned) : Leader'[p[1]] = Leader'[p[2]]
        /\ outcome'[active] = "changed" <=> parent' # before.parent
        /\ outcome'[active] = "changed" /\ now => touched' = {} /\ Settled']_allVars

\* Transactions change the graph by calls of the facade alone.
UsesFacade == Spec
=============================================================================
