---------------------------- MODULE GreedyExtract ----------------------------
(***************************************************************************)
(* GreedyEGraphExtractor (lib/EGraph/GreedyExtract.cpp), one action per    *)
(* step of its recursions.                                                 *)
(*                                                                         *)
(* computeBest and computeBestPreservingSymbol are one search over keys:   *)
(* <<"leader", s>> for the former, which goes to the leader first,         *)
(* <<"raw", s>> for the latter, each with its own memo and its own list of *)
(* active symbols.  The memo maps keys to the selected choice and its      *)
(* subtree cost; failures are not remembered.                              *)
(*                                                                         *)
(* A frame of the search is at operand child of its choice, or between     *)
(* choices when choice is 0; left are the choices still to be tried.       *)
(***************************************************************************)
EXTENDS ExtractCall

VARIABLE memo

NoBest == [choice |-> 0, cost |-> 0]

LeaderKey(g, s) == <<"leader", g.leader[s]>>

\* Mutation of ChildKeys: an alias goes to the leader of its target, too.
ChildKeysLeader(g, c) == [i \in DOMAIN Children(c) |-> LeaderKey(g, Children(c)[i])]

ChildKeys(g, c) ==
  IF c.alias THEN [i \in DOMAIN Children(c) |-> <<"raw", Children(c)[i]>>]
  ELSE [i \in DOMAIN Children(c) |-> LeaderKey(g, Children(c)[i])]

\* Operation candidates are tried before alias candidates.
Precedes(choices, i, j) ==
  IF choices[i].alias = choices[j].alias THEN i < j ELSE choices[j].alias

\* Mutation of IsBetter: the first candidate with a term is taken.
IsBetterFirst(cost, best) == best.choice = 0

IsBetter(cost, best) == best.choice = 0 \/ cost < best.cost

Candidate(frame) == graph.choices[frame.key[2]][frame.choice]

\* The keys that the frame on top, or the loop over the roots, goes through.
Wanted ==
  IF stack = <<>> THEN [i \in DOMAIN graph.roots |-> LeaderKey(graph, graph.roots[i])]
  ELSE IF Top.choice = 0 THEN <<>> ELSE ChildKeys(graph, Candidate(Top))

IsCalling == At \in DOMAIN Wanted
Callee == Wanted[At]

ActiveKeys == {stack[n].key : n \in DOMAIN stack}

\* Mutation of Abandon: the candidate whose operand has failed is tried again.
AbandonNot(frame) == [frame EXCEPT !.cost = 0]

Abandon(frame) == [frame EXCEPT !.choice = 0]

-----------------------------------------------------------------------------
\* computeBest finds nothing and starts the search; an input is a term already.
Search ==
  /\ pc = "search" /\ IsCalling
  /\ Callee \notin DOMAIN memo \cup ActiveKeys
  /\ IF Callee[2] \in Input
     THEN memo' = Extend(memo, Callee, NoBest) /\ UNCHANGED stack
     ELSE /\ stack' = Append(stack, [key |-> Callee, left |-> DOMAIN graph.choices[Callee[2]],
                                     choice |-> 0, child |-> 1, cost |-> 0, best |-> NoBest])
          /\ UNCHANGED memo
  /\ UNCHANGED <<graph, mode, pc, root, info, overflowed>>

\* The operand leads back to a symbol that is being computed.
CutCycle ==
  /\ pc = "search" /\ IsCalling
  /\ Callee \in ActiveKeys \ DOMAIN memo
  /\ stack' = WithTop(Abandon(Top))
  /\ UNCHANGED <<graph, mode, pc, root, info, overflowed, memo>>

\* The next candidate, unless it has no cost.
TryChoice ==
  /\ pc = "search" /\ stack # <<>> /\ Top.choice = 0
  /\ LET choices == graph.choices[Top.key[2]]
     IN  \E i \in Top.left :
           /\ \A j \in Top.left \ {i} : Precedes(choices, i, j)
           /\ stack' = WithTop(IF IsUsable(choices[i])
                               THEN [Top EXCEPT !.left = @ \ {i}, !.choice = i, !.child = FirstChild,
                                                !.cost = choices[i].cost]
                               ELSE [Top EXCEPT !.left = @ \ {i}])
  /\ UNCHANGED <<graph, mode, pc, root, info, overflowed, memo>>

\* The cost of the operand is added.
AddChild ==
  /\ pc = "search" /\ stack # <<>> /\ IsCalling
  /\ Callee \in DOMAIN memo
  /\ LET cost == memo[Callee].cost
     IN  IF Fits(Top.cost, cost)
         THEN /\ stack' = WithTop([Top EXCEPT !.child = @ + 1, !.cost = @ + cost])
              /\ UNCHANGED overflowed
         ELSE stack' = WithTop(Abandon(Top)) /\ overflowed' = TRUE
  /\ UNCHANGED <<graph, mode, pc, root, info, memo>>

\* All operands of the candidate have terms.
KeepBest ==
  /\ pc = "search" /\ stack # <<>> /\ Top.choice # 0 /\ ~IsCalling
  /\ LET found == [choice |-> Top.choice, cost |-> Top.cost]
     IN  stack' = WithTop([Top EXCEPT !.choice = 0,
                                      !.best = IF IsBetter(Top.cost, @) THEN found ELSE @])
  /\ UNCHANGED <<graph, mode, pc, root, info, overflowed, memo>>

\* All candidates have been tried.
Memoize ==
  /\ pc = "search" /\ stack # <<>> /\ Top.choice = 0 /\ Top.left = {} /\ Top.best.choice # 0
  /\ memo' = Extend(memo, Top.key, Top.best)
  /\ stack' = Pop(stack)
  /\ UNCHANGED <<graph, mode, pc, root, info, overflowed>>

\* No candidate has a term: the caller's candidate fails, or the call when it is a root.
GiveUp ==
  /\ pc = "search" /\ stack # <<>> /\ Top.choice = 0 /\ Top.left = {} /\ Top.best.choice = 0
  /\ IF Len(stack) = 1
     THEN Fail /\ stack' = <<>>
     ELSE /\ stack' = [Pop(stack) EXCEPT ![Len(stack) - 1] = Abandon(@)]
          /\ UNCHANGED <<pc, info>>
  /\ UNCHANGED <<graph, mode, root, overflowed, memo>>

NextRoot ==
  /\ pc = "search" /\ stack = <<>> /\ IsCalling
  /\ Callee \in DOMAIN memo
  /\ root' = root + 1
  /\ UNCHANGED <<graph, mode, pc, stack, info, overflowed, memo>>

EndSearch ==
  /\ pc = "search" /\ stack = <<>> /\ ~IsCalling
  /\ pc' = "collect" /\ root' = 1
  /\ UNCHANGED <<graph, mode, stack, info, overflowed, memo>>

-----------------------------------------------------------------------------
(***************************************************************************)
(* collectSelected: the selected e-classes, children first.  Both kinds of *)
(* keys share collectingSymbols and the lists of emitted symbols, which    *)
(* hold symbols.                                                           *)
(***************************************************************************)
CollectingSymbols == {stack[n].key[2] : n \in DOMAIN stack}

EmittedSymbols(alias) ==
  IF alias THEN {info.aliases[i][1] : i \in DOMAIN info.aliases}
  ELSE {info.ops[i][1] : i \in DOMAIN info.ops}

IsCollected(key) ==
  IF key[2] \in Input THEN TRUE
  ELSE key[2] \in EmittedSymbols(graph.choices[key[2]][memo[key].choice].alias)

SkipCollected ==
  /\ pc = "collect" /\ IsCalling
  /\ IsCollected(Callee)
  /\ Resume(stack)
  /\ UNCHANGED <<graph, mode, pc, info, overflowed, memo>>

CollectSelected ==
  /\ pc = "collect" /\ IsCalling
  /\ ~IsCollected(Callee)
  /\ IF Callee[2] \in CollectingSymbols
     THEN Fail /\ stack' = <<>>
     ELSE /\ stack' = Append(stack, [key |-> Callee, choice |-> memo[Callee].choice, child |-> FirstChild])
          /\ UNCHANGED <<pc, info>>
  /\ UNCHANGED <<graph, mode, root, overflowed, memo>>

EmitSelected ==
  /\ pc = "collect" /\ stack # <<>> /\ ~IsCalling
  /\ Emit(Top.key[2], Top.choice)
  /\ Resume(Pop(stack))
  /\ UNCHANGED <<graph, mode, pc, overflowed, memo>>

EndCollect ==
  /\ pc = "collect" /\ stack = <<>> /\ ~IsCalling
  /\ info' = [info EXCEPT !.ok = TRUE, !.rootCosts = [i \in DOMAIN Wanted |-> memo[Wanted[i]].cost]]
  /\ pc' = "idle"
  /\ UNCHANGED <<graph, mode, root, stack, overflowed, memo>>

GreedyNext ==
  \/ Search \/ CutCycle \/ TryChoice \/ AddChild \/ KeepBest \/ Memoize \/ GiveUp
  \/ NextRoot \/ EndSearch
  \/ SkipCollected \/ CollectSelected \/ EmitSelected \/ EndCollect
=============================================================================
