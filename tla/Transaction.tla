----------------------------- MODULE Transaction -----------------------------
(***************************************************************************)
(* One EGraphRewriteTransaction (lib/EGraph/Pattern.cpp): the operations a *)
(* pattern built in the scratch block and the replacements it recorded,    *)
(* and what committing them does to the facade.                            *)
(*                                                                         *)
(* A transaction is a record of ops, in insertion order, and events.  An   *)
(* operand, or the replacement of an event, is <<"value", s>>, a value of  *)
(* the candidate region that stands for the name s, or <<"scratch", i>>,   *)
(* the result of the i-th scratch operation.  An op outside Op stands for  *)
(* one that intern refuses: with regions, successors or several results.   *)
(***************************************************************************)
EXTENDS EGraph, Sequences

VARIABLE generation   \* EGraphIndex::nextGeneration, one for all of an index

\* EOpRefBase: an operation candidate, as of one indexing of the graph.
Ref(s, t) == [owner |-> s, term |-> t, generation |-> generation]

LiveRefs == UNION {{Ref(s, t) : t \in terms[s]} : s \in defined}

\* EGraphIndex::isLive: generations never return, so a ref dies with its index.
IsLive(ref) == ref \in LiveRefs

\* The scratch operations some values are the results of.
Producers(tr, values) == {i \in DOMAIN tr.ops : \E v \in DOMAIN values : values[v] = <<"scratch", i>>}

(***************************************************************************)
(* collectReachableScratchOperations: what the replacements need, and what *)
(* the operands of that need.  Other scratch operations are dropped with   *)
(* the transaction.                                                        *)
(***************************************************************************)
HoldsNeeds(tr, S) ==
  /\ Producers(tr, [e \in DOMAIN tr.events |-> tr.events[e].by]) \subseteq S
  /\ \A i \in S : Producers(tr, tr.ops[i].args) \subseteq S

Reachable(tr) == {i \in DOMAIN tr.ops : \A S \in SUBSET DOMAIN tr.ops : HoldsNeeds(tr, S) => i \in S}

ValueType(tr, v) == IF v[1] = "value" THEN TypeOf[v[2]] ELSE tr.ops[v[2]].type

(***************************************************************************)
(* validateEvents: every root is live, and its replacement has its type    *)
(* and is a value of the graph or of this transaction.                     *)
(***************************************************************************)
ValidEvents(tr) ==
  \A e \in DOMAIN tr.events :
    LET event == tr.events[e] IN
    /\ IsLive(event.root)
    /\ ValueType(tr, event.by) = ResultType[event.root.term.op]
    /\ event.by[1] = "value" => event.by[2] \in defined

\* resolveValue: values of the graph go to their leader.
Resolve(v, interned) == IF v[1] = "value" THEN Leader[v[2]] ELSE interned[v[2]]

IsResolved(v, interned) ==
  v[1] = "value" \/ (v[1] = "scratch" /\ v[2] \in DOMAIN interned)

\* The scratch operations intern may be called for next, operands first.
Ready(tr, interned) ==
  {i \in Reachable(tr) \ DOMAIN interned :
     \A a \in DOMAIN tr.ops[i].args : IsResolved(tr.ops[i].args[a], interned)}

ScratchTerm(tr, i, interned) ==
  [op   |-> tr.ops[i].op,
   args |-> [a \in DOMAIN tr.ops[i].args |-> Resolve(tr.ops[i].args[a], interned)]]

\* Mutation of InternScratch: every operation gets an e-class of its own.
InternScratchNoLookup(t, r) ==
  LET key == Canon(Leader, t)
  IN  /\ IsFresh(r)
      /\ defined' = defined \cup {r}
      /\ terms' = [terms EXCEPT ![r] = {key}]
      /\ hashcons' = [k \in DOMAIN hashcons \cup {key} |-> IF k = key THEN r ELSE hashcons[k]]
      /\ UNCHANGED <<aliases, targets, parent, touched, pc, work, changed>>

(***************************************************************************)
(* One iteration of internReachableScratchOperations: t gets the result r, *)
(* the entry of the hash-cons table or a new e-class.                      *)
(***************************************************************************)
InternScratch(t, r) ==
  LET key == Canon(Leader, t) IN
  IF key \in DOMAIN hashcons
  THEN r = hashcons[key] /\ UNCHANGED vars
  ELSE Intern(t, r)

\* unionInternedEventValues: each root with its replacement.
EventPairs(tr, interned) ==
  {<<tr.events[e].root.owner, Resolve(tr.events[e].by, interned)>> : e \in DOMAIN tr.events}

\* EGraphUnionResult::changed of the call.
Unites(P) == \E p \in P : Leader[p[1]] # Leader[p[2]]

(***************************************************************************)
(* commit fails: an event is invalid, intern refuses an operation, or the  *)
(* values cannot be united.                                                *)
(***************************************************************************)
CommitRefused(tr, interned) ==
  \/ ~ValidEvents(tr)
  \/ \E i \in Ready(tr, interned) : tr.ops[i].op \notin Op
  \/ /\ Reachable(tr) \subseteq DOMAIN interned
     /\ \E p \in EventPairs(tr, interned) : ~CanUnite(Leader, p[1], p[2])
=============================================================================
