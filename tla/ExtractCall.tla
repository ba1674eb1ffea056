----------------------------- MODULE ExtractCall -----------------------------
(***************************************************************************)
(* What the backends have in common while runExtract (lib/EGraph/          *)
(* Extract.cpp) is under way: the request, the recursion in progress, and  *)
(* the EGraphExtractInfo that is filled.  A backend is a recursion over    *)
(* the graph; its stack is a sequence of frames, the caller of the first   *)
(* is the loop over the roots.                                             *)
(***************************************************************************)
EXTENDS ExtractGraph

VARIABLES
  graph,
  mode,        \* backend of the call
  pc,          \* where it is, "idle" when it has returned
  root,        \* index of the root the loop is at
  stack,
  info,        \* the result; <<e-class, choice>> for each selected e-class
  overflowed   \* history: some sum was refused

callVars == <<graph, mode, pc, root, stack, info, overflowed>>

NoInfo == [ok |-> FALSE, ops |-> <<>>, aliases |-> <<>>, rootCosts |-> <<>>]

Extend(f, x, v) == [y \in DOMAIN f \cup {x} |-> IF y = x THEN v ELSE f[y]]

Top == stack[Len(stack)]
WithTop(frame) == [stack EXCEPT ![Len(stack)] = frame]
Pop(s) == [n \in 1..(Len(s) - 1) |-> s[n]]

\* Mutation of FirstChild: the loop over the operands skips one.
FirstChildSkipped == 2

FirstChild == 1

\* The operand of the frame on top, or the root, that is next.
At == IF stack = <<>> THEN root ELSE Top.child

\* The caller goes on with its next operand, or with the next root.
Resume(rest) ==
  IF rest = <<>>
  THEN stack' = rest /\ root' = root + 1
  ELSE stack' = [rest EXCEPT ![Len(rest)].child = @ + 1] /\ UNCHANGED root

Fail == pc' = "idle" /\ info' = NoInfo

Emit(s, i) ==
  info' = IF graph.choices[s][i].alias
          THEN [info EXCEPT !.aliases = Append(@, <<s, i>>)]
          ELSE [info EXCEPT !.ops = Append(@, <<s, i>>)]

-----------------------------------------------------------------------------
\* buildSelectionMap, which refuses a second entry for a symbol.
IsSelectionMap(result) ==
  /\ \A i, j \in DOMAIN result.ops : result.ops[i][1] = result.ops[j][1] => i = j
  /\ \A i, j \in DOMAIN result.aliases : result.aliases[i][1] = result.aliases[j][1] => i = j
  /\ \A i \in DOMAIN result.ops, j \in DOMAIN result.aliases :
       result.ops[i][1] # result.aliases[j][1]

Entries(result) ==
  {result.ops[i] : i \in DOMAIN result.ops} \cup {result.aliases[i] : i \in DOMAIN result.aliases}

SelectionMap(result) ==
  [s \in {e[1] : e \in Entries(result)} |-> (CHOOSE e \in Entries(result) : e[1] = s)[2]]
=============================================================================
