---------------------------- MODULE ExtractBlock ----------------------------
(***************************************************************************)
(* The block that materializeExtractSelection (lib/EGraph/Extract.cpp)     *)
(* makes of a selection, for candidates whose operation takes the block    *)
(* arguments in any order.  BlockRewrite has the materializer step by step *)
(* and what becomes of the block.                                          *)
(***************************************************************************)
EXTENDS Extract, SequencesExt

\* The payloads the arguments of the candidate are mapped to: getOperand(i) for argument i.
ArgumentPayloads(c) ==
  IF c.alias THEN c.refs ELSE [i \in DOMAIN c.refs |-> Children(c)[i]]

IsMaterialized(s, out) == s \in DOMAIN out.values

(***************************************************************************)
(* materializeSymbol and materializeChoice.  A value is <<"input", s>> or  *)
(* <<"op", n>>, the result of the n-th clone.                              *)
(***************************************************************************)
RECURSIVE MaterializeSymbol(_, _, _, _, _)
MaterializeSymbol(g, map, s, active, out) ==
  LET c == g.choices[s][map[s]]
      payloads == ArgumentPayloads(c)
      below == FoldLeft(LAMBDA o, t : MaterializeSymbol(g, map, t, active \cup {s}, o),
                        out, payloads)
      mapping(i) == below.values[payloads[i]]
      clone == [symbol |-> s, choice |-> map[s],
                operands |-> [i \in DOMAIN c.args |-> mapping(c.args[i])]]
  IN  IF ~out.ok \/ IsMaterialized(s, out) THEN out
      ELSE IF s \in active \/ s \notin DOMAIN map \cup Input THEN [out EXCEPT !.ok = FALSE]
      ELSE IF s \notin DOMAIN map THEN [out EXCEPT !.values = Extend(@, s, <<"input", s>>)]
      ELSE IF ~below.ok THEN below
      ELSE IF c.alias THEN [below EXCEPT !.values = Extend(@, s, mapping(1))]
      ELSE [below EXCEPT !.values = Extend(@, s, <<"op", Len(below.clones) + 1>>),
                         !.clones = Append(@, clone)]

Materialize(g, result) ==
  FoldLeft(LAMBDA out, r : MaterializeSymbol(g, SelectionMap(result), r, {}, out),
           [ok |-> IsSelectionMap(result), values |-> <<>>, clones |-> <<>>], g.roots)

\* The input or the selected operation that gives s its value: aliases are followed.
RECURSIVE Source(_, _, _)
Source(g, sel, s) ==
  IF s \in DOMAIN sel /\ g.choices[s][sel[s]].alias
  THEN Source(g, sel, g.choices[s][sel[s]].refs[1])
  ELSE s

(***************************************************************************)
(* The block computes what was selected: operand i of a clone is the value *)
(* of the name that operand i of the candidate stands for, and is defined  *)
(* before the clone.  Each selected operation is cloned once.              *)
(***************************************************************************)
OperandsFollowReferences ==
  LET sel == SelectionMap(info)
      out == Materialize(graph, info)
      clones == out.clones
      origin(value) == IF value[1] = "input" THEN value[2] ELSE clones[value[2]].symbol
  IN  pc = "idle" /\ info.ok /\ out.ok =>
        /\ \A n \in DOMAIN clones :
             LET children == Children(graph.choices[clones[n].symbol][clones[n].choice]) IN
             \A i \in DOMAIN children :
               LET operand == clones[n].operands[i] IN
               /\ origin(operand) = Source(graph, sel, children[i])
               /\ operand[1] = "op" => operand[2] < n
        /\ IsInjective([n \in DOMAIN clones |-> clones[n].symbol])
        /\ \A i \in DOMAIN graph.roots :
             origin(out.values[graph.roots[i]]) = Source(graph, sel, graph.roots[i])
=============================================================================
