---------------------------- MODULE EGraphMeaning ----------------------------
(***************************************************************************)
(* What the names of an e-graph mean, when clients unite only values that  *)
(* mean the same: the promise a client has from the facade in return.      *)
(*                                                                         *)
(* Operations are interpreted by Eval over Value; means is history, and no *)
(* action looks at it but the unions of clients.                           *)
(***************************************************************************)
EXTENDS EGraph, Sequences

CONSTANTS
  Value,        \* the values payloads may have
  Eval(_, _)    \* what an operation computes from those of its operands

ASSUME EvalOK ==
  \A o \in Op : \A args \in [1..Arity[o] -> Value] : Eval(o, args) \in Value

VARIABLE means   \* the value of each name; arbitrary for names not in use

meaningVars == <<vars, means>>

TermValue(values, t) == Eval(t.op, [i \in 1..Arity[t.op] |-> values[t.args[i]]])

\* Every candidate of an e-class computes the value of the e-class.
IsModel(values, names, candidates, yields) ==
  \A s \in names :
    /\ \A t \in candidates[s] : TermValue(values, t) = values[s]
    /\ \A m \in yields[s] : values[m] = values[s]

MeaningInit ==
  /\ Init
  /\ means \in [Symbol -> Value]
  /\ IsModel(means, defined, terms, aliases)

\* A client knows, from its rules, that the two values of a pair are equal.
SoundUnion ==
  /\ \E calls \in [1..MaxPairs -> {p \in defined \X defined : means[p[1]] = means[p[2]]}] :
       UnionValueTuples({calls[i] : i \in 1..MaxPairs})
  /\ UNCHANGED means

MeaningIntern(t, s) ==
  /\ Intern(t, s)
  /\ means' = [means EXCEPT ![s] = TermValue(means, t)]

MeaningRunning ==
  /\ \/ \E p \in work : UnionLeaderSymbols(p)
     \/ RebuildRound
     \/ RebuildFinish
  /\ UNCHANGED means

MeaningNext ==
  \/ SoundUnion
  \/ \E t \in Term, s \in Symbol : MeaningIntern(t, s)
  \/ MeaningRunning

MeaningSpec == MeaningInit /\ [][MeaningNext]_meaningVars

-----------------------------------------------------------------------------
(***************************************************************************)
(* Unions, interning and rebuilds never make a candidate, a reference or   *)
(* an entry of the hash-cons table stand for another value: congruence     *)
(* unites nothing that differs, absorption moves candidates only between   *)
(* equal classes, and no reused name or stale key mixes two values up.     *)
(***************************************************************************)
MeaningSound ==
  /\ \A s \in Symbol :
       /\ means[Leader[s]] = means[s]
       /\ \A t \in terms[s] : TermValue(means, t) = means[s]
       /\ \A m \in aliases[s] : means[m] = means[s]
  /\ \A k \in DOMAIN hashcons : TermValue(means, k) = means[hashcons[k]]
  /\ \A p \in work : means[p[1]] = means[p[2]]

(***************************************************************************)
(* Whatever happens to the graph, each of its results, the targets of the  *)
(* return, keeps its value.                                                *)
(***************************************************************************)
ResultsKeepValue ==
  [][\A i \in Slot : means'[targets'[i]] = means[targets[i]]]_meaningVars
=============================================================================
